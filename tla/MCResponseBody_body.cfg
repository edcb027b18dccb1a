SPECIFICATION FairSpec
CONSTANTS
    None = None
    Scenarios <- SomeScenarios
    ChunkSize = 3
    Big = 20
INVARIANTS TypeOK InOrder EndMeansWhole FullReads CacheIsWhole CleanReuse
PROPERTY CallsEnd
CHECK_DEADLOCK FALSE
