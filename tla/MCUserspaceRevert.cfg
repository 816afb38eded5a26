\* what helper -R leaves of a rootful jailbreak
SPECIFICATION Spec
CONSTANTS
    Tools = {t1}
    HostK <- KWords
    HostP <- PRootful
    NewK <- NewKWords
    NewP <- NewPWords
    Modes <- AnyMode
    Platforms = {"ios"}
    MaxCommands = 1
INVARIANT RevertReverts
CHECK_DEADLOCK FALSE
