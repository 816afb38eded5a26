\* sessions of one power on, with two processes changing the options
SPECIFICATION FairSpec
CONSTANTS
    Tools = {t1, t2}
    HostK <- KWords
    HostP <- PWords
    NewK <- NewKWords
    NewP <- NewPWords
    Modes <- AnyMode
    Platforms = {"ios"}
    MaxCommands = 2
INVARIANTS TypeOK SerialWords SameVerdict WipedOnlyIfAsked CommandsInTurn
PROPERTIES FreshWriteIsMeant JobEnds
\* user space may stay up for ever
CHECK_DEADLOCK FALSE
