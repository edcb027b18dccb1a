SPECIFICATION Spec
CONSTANTS
    None = None
    Disabled = Disabled
    Starts <- DefaultStarts
    allowed_methods = {"GET"}
    Methods = {"GET", "POST"}
    respect_retry_after_header = TRUE
    raise_on_redirect = TRUE
    raise_on_status = TRUE
    Managed = {TRUE}
    backoff_factor = 1
    backoff_max = 5
    MaxAttempts = 12
CHECK_DEADLOCK FALSE
INVARIANT TotalOverPools
