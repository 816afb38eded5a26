\* boots, installations and obliterations in any overlap
SPECIFICATION Spec
CONSTANTS
    JbNames = {jb1, jb2, jb3}
    Old = procursus
    NoDir = NoDir
SYMMETRY Names
INVARIANTS TypeOK ZeroMeansLinked ObliteratedMeansUnlinked
PROPERTY BootstrapKept
