SPECIFICATION Spec
CONSTANTS
    None = None
    Scenarios <- MixedScenarios
    ChunkSize = 3
    Big = 20
INVARIANT StreamIsRead
CHECK_DEADLOCK FALSE
