SPECIFICATION Spec
CONSTANTS
    A = A
    B = B
    P = P
    None = None
    Nsec = Nsec
    Threads = {t1, t2}
    Uuids = {A}
    Sessions = {s1, s2}
    Ctxs = {c1, c2}
    Flags <- SharedFlags
    Pseudo = {}
    CallGraph <- Self
    MaxRecursion = 4
    MaxCalls = 5
INVARIANTS NoCorePanic
SYMMETRY Symm
CHECK_DEADLOCK FALSE
