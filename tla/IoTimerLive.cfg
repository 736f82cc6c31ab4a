CONSTANTS
    r1 = r1
    r2 = r2
    Reqs = {r1, r2}
    Sync = {r1}
    Timeout <- Immediate
    None = None
    NB = 1
    MaxClock = 2
    Prompt = TRUE
    PoolMayFail = FALSE
    MayStop = FALSE
SPECIFICATION FairSpec
INVARIANT IInv
PROPERTIES Completes Unpinned
CHECK_DEADLOCK FALSE
