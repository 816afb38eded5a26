\* boots of every kind one after the other, from any disk an interrupted setup
\* leaves, on iOS 16
SPECIFICATION LiveSpec
CONSTANTS
    Devs <- Devs16
    SysDev = "disk1s1"
    ForeignDevs = {}
    Disk0Devs <- Disk0Devs16
    EndsInOne = {"disk1s1"}
    Requests <- BootRequests16
PROPERTIES Recovers BootDecides
\* a boot that reached userland stays there
CHECK_DEADLOCK FALSE
