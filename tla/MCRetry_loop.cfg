SPECIFICATION FairSpec
CONSTANTS
    None = None
    Disabled = Disabled
    Starts <- SomeStarts
    allowed_methods = {"GET"}
    Methods = {"GET", "POST"}
    respect_retry_after_header = TRUE
    raise_on_redirect = TRUE
    raise_on_status = TRUE
    Managed = {TRUE, FALSE}
    backoff_factor = 1
    backoff_max = 5
    MaxAttempts = 6
CHECK_DEADLOCK FALSE
INVARIANTS TypeOK TotalRespected
PROPERTIES NoUnsafeRepeat LoopEnds
