SPECIFICATION Spec
CONSTANTS
    Configs <- TwoConfigs
    Versioned <- OpenCode
    Versions = {1, 2}
    Selections <- AnyOfThem
    Limit <- Crashes
CHECK_DEADLOCK FALSE
INVARIANT SetupInstalls
