\* any sequence of boots with any options, and power loss anywhere
SPECIFICATION ChainSpec
CONSTANTS
    Devs <- Devs15
    SysDev = "disk0s1s1"
    ForeignDevs <- Foreign15
    Disk0Devs <- Devs15
    EndsInOne = {"disk0s1s1"}
    Requests <- AllRequests
INVARIANTS ChainTypeOK RescueRootIsSystem CleanBootIsPristine SnapshotMeansComplete SetupLeavesReady SkippedDirsBound
PROPERTIES ForeignVolumesKept LifecycleSpec
