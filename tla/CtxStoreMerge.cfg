CONSTANTS
    Capacity = 4
    VersionBits = 2
    Threads = {t1, t2}
    Ctxs = {c1, c2, c3, c4}
    Nil = Nil
    MaxIndex = 10
SYMMETRY Symmetry
SPECIFICATION Spec
INVARIANT Findable
CHECK_DEADLOCK FALSE
