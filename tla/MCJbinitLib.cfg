\* the C library of jbinit, and its patch of dyld
SPECIFICATION OneSpec
CONSTANTS
    Images <- Files
    Page = 4
    CPU_TYPE_ARM64 = "arm64"
    Calls <- Called
    Texts <- Lines
    WordMax = 63
    IntSpan <- Spans
    NtoaSize = 32
    LogSize = 5
    SkipNeedle = 3
    SkipHaystack = 5
INVARIANTS TypeOK OnlyPatched SitesRunTheirCode DoneMeansPatched PlatformsAgree
INVARIANTS SearchFindsFirst ComparesStrings CopiesExactly NumbersReadBack LogInOrder
\* a patch ends, and so does a call
CHECK_DEADLOCK FALSE
