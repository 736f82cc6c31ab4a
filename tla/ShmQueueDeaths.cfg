CONSTANTS
    Cap = 4
    W = 64
    Prods = {p1, p2, p3}
    EventPolling = TRUE
    DiePcs = {"cas", "write", "publish", "post"}
    MaxDeaths = 2
    Prompt = TRUE
    MaxHead = 5
    None = None
SYMMETRY Symmetry
SPECIFICATION Spec
INVARIANT Window
CHECK_DEADLOCK FALSE
