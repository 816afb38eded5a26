\* an archive with a .DS_Store, nothing failing
SPECIFICATION Spec
CONSTANTS
    Archives <- StoreArchives
    Places <- FreshOnly
    Devices = {"rootless"}
    Dpkg <- DpkgFile
    Block = 2
    MaxFaults = 0
INVARIANT InstallCompletes
\* the command ends
CHECK_DEADLOCK FALSE
