CONSTANTS
    Ops = {a, b, c}
    OneSided = {c}
    Buckets = {b1}
    Pool = 3
    LocalCap = 1
    PeerCap = 1
    Prompt = TRUE
    None = None
SPECIFICATION FairSpec
INVARIANTS CompletedOnce RefsBalance IntactIfAccepted
PROPERTIES Completes Destroyed BucketsReturn
CHECK_DEADLOCK FALSE
