SPECIFICATION FairSpec
CONSTANTS
  Sends = {s1}
  Inlines = {}
  Reads = {}
  Sgls = {g1}
  Recv = recv
  Other = other
  Ctxs = {c1, c2, c3}
  Bufs = 1
  SendWr = 1
  OneWr = 2
  Prompt = TRUE
  Partial = FALSE
  None = None
INVARIANTS CompletedOnce OwnCompletion  Balance NothingLeft
PROPERTIES Completes Freed
CHECK_DEADLOCK FALSE
