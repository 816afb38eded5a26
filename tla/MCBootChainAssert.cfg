\* the assertion create_remove_fakefs calls unreachable
SPECIFICATION ChainSpec
CONSTANTS
    Devs <- Devs15
    SysDev = "disk0s1s1"
    ForeignDevs <- Foreign15
    Disk0Devs <- Devs15
    EndsInOne = {"disk0s1s1"}
    Requests <- RepairRequests
INVARIANT AssertUnreachable
