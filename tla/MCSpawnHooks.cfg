\* starting cfprefsd again and again under payload.dylib
SPECIFICATION Spec
CONSTANTS
    Options <- Words
    JobEnvs <- Envs
    ProxyVars <- Added
    Paths <- Files
    LongerNames <- Longer
    AppleNames <- Apple
    MaxPath = 9
INVARIANTS TypeOK HookedIffRootless EnvKept OneFilePerPreference SettledAtOnce
