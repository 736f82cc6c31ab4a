CONSTANTS
    r1 = r1
    r2 = r2
    Reqs = {r1, r2}
    Sync = {r1, r2}
    Timeout <- Timeouts
    None = None
    NB = 2
    MaxClock = 3
    Prompt = TRUE
    PoolMayFail = TRUE
    MayStop = TRUE
SPECIFICATION Spec
INVARIANTS  FreedOnce CallbackOnce SweepComplete
CHECK_DEADLOCK FALSE
