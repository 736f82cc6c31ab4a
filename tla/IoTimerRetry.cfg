CONSTANTS
    r1 = r1
    r2 = r2
    Reqs = {r1, r2}
    Sync = {r1}
    Timeout <- Timeouts
    None = None
    NB = 1
    MaxClock = 3
    Prompt = TRUE
    PoolMayFail = TRUE
    MayStop = FALSE
SPECIFICATION Spec
INVARIANT CallbackOnce
CHECK_DEADLOCK FALSE
