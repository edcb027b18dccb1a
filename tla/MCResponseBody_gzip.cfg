SPECIFICATION Spec
CONSTANTS
    None = None
    Scenarios <- PartScenarios
    ChunkSize = 3
    Big = 20
INVARIANT InOrder
CHECK_DEADLOCK FALSE
