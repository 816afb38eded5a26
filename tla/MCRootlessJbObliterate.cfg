\* an obliteration over a bootstrap of the old style
SPECIFICATION Spec
CONSTANTS
    JbNames = {jb1, jb2}
    Old = procursus
    NoDir = NoDir
SYMMETRY Names
INVARIANT ObliteratedMeansGone
