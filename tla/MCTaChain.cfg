SPECIFICATION Spec
CONSTANTS
    A = A
    B = B
    P = P
    None = None
    Nsec = Nsec
    Threads = {t1, t2}
    Uuids = {A, B, P}
    Sessions = {s1, s2, s3}
    Ctxs = {c1, c2, c3}
    Flags <- ChainFlags
    Pseudo = {P}
    CallGraph <- Chain
    MaxRecursion = 2
    MaxCalls = 4
INVARIANTS NoCrash InstanceRules BusyExact
SYMMETRY Symm
