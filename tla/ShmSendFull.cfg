CONSTANTS
    Ops = {a, b, c}
    OneSided = {c}
    Buckets = {b1}
    Pool = 3
    LocalCap = 1
    PeerCap = 1
    Prompt = TRUE
    None = None
SPECIFICATION Spec
INVARIANT Intact
CHECK_DEADLOCK FALSE
