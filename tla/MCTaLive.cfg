SPECIFICATION FairSpec
CONSTANTS
    A = A
    B = B
    P = P
    None = None
    Nsec = Nsec
    Threads = {t1, t2}
    Uuids = {A}
    Sessions = {s1, s2}
    Ctxs = {c1, c2}
    Flags <- SharedFlags
    Pseudo = {}
    CallGraph <- Self
    MaxRecursion = 1
    MaxCalls = 4
PROPERTIES EveryCallReturns
CHECK_DEADLOCK FALSE
