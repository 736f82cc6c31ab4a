SPECIFICATION FairSpec
CONSTANTS
    Queues = {q1, q2}
    Depth = 3
    InitialCredit = 1
    MinReserved = 2
    ReturnRatio = 2
    Multiple = 2
    MaxRequest = 3
    MaxImm = 3
    Posters = 1
    Drained = TRUE
    MaxSend = 1
    MaxBatch = 1
    MaxTroubles = 1
INVARIANTS TypeOK Conserved   OneExchange
CHECK_DEADLOCK FALSE
PROPERTIES Served
