SPECIFICATION Spec
CONSTANTS
    None = None
    Scenarios <- Read1Scenarios
    ChunkSize = 3
    Big = 20
INVARIANT EndMeansWhole
CHECK_DEADLOCK FALSE
