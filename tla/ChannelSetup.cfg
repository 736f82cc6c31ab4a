SPECIFICATION FairSpec
CONSTANTS
    N = 2
    Prompt = TRUE
    MaxFaults = 2
CHECK_DEADLOCK FALSE
INVARIANTS
    
    
    BrokenOnce
    Agreed
PROPERTIES
    Notified
    Cleaned
