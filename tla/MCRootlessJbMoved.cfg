\* what /var/jb names after a boot that moved the bootstrap
SPECIFICATION Spec
CONSTANTS
    JbNames = {jb1, jb2}
    Old = procursus
    NoDir = NoDir
SYMMETRY Names
INVARIANT MovedMeansLinked
