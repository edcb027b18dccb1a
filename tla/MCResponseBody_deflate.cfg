SPECIFICATION Spec
CONSTANTS
    None = None
    Scenarios <- RawScenarios
    ChunkSize = 3
    Big = 20
INVARIANT EndMeansWhole
CHECK_DEADLOCK FALSE
