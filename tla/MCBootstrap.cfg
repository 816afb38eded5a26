\* the installer, with two failures of any kind on the way
SPECIFICATION Spec
CONSTANTS
    Archives <- SmallArchives
    Places <- BothPlaces
    Devices = {"rootful", "rootless", "unreadable"}
    Dpkg <- DpkgFile
    Block = 2
    MaxFaults = 2
INVARIANTS TypeOK NothingShifts OwnersKept MarkedIsUsable
\* the command ends
CHECK_DEADLOCK FALSE
