CONSTANTS
    Wrong = Wrong
    Error = Error
    None = None
    NaN = NaN
    Properties <- MCProperties
    StringNames = {"name_string"}
    Configurations <- MCConfigurations
    Motions <- MCMotions
    Applications <- MCApplications
    InputSources = {"en", "ja"}
    SetVariables <- MCSetVariables
    Earlier <- MCEarlier
    SystemName = "system.use_fkeys_as_standard_function_keys"
    MaxMotions = 2
    MaxKeys = 1
    MaxChanges = 1
SPECIFICATION Spec
CHECK_DEADLOCK FALSE
INVARIANTS
    ConditionsAnswerForTheirStage
    ScrollFollowsMotion
PROPERTY
    ScrollEnds
