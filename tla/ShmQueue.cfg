CONSTANTS
    Cap = 2
    W = 64
    Prods = {p1, p2}
    EventPolling = TRUE
    DiePcs = {"cas", "write", "publish"}
    MaxDeaths = 1
    Prompt = TRUE
    MaxHead = 5
    None = None
SPECIFICATION FairSpec
INVARIANTS Genuine NoLoss
PROPERTIES IsFifo Delivered Unstuck
CHECK_DEADLOCK FALSE
