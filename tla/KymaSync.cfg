SPECIFICATION MCSpec
CONSTANTS
    Names <- MCNames
    Configs <- MCConfigs
    Bundles = {b}
    Versions = {v1, v2}
    b = b
    v1 = v1
    v2 = v2
    Blank = Blank
    None = None
    NoApp = NoApp
    Manual = Manual
    MaxFaults = 1
    MaxEdits = 2
INVARIANTS TypeOK OnlyFailuresLeak
PROPERTIES CredentialsInUseStay RuntimeSpec Converges
CHECK_DEADLOCK FALSE
