SPECIFICATION Spec
CONSTANTS
    Cores = {c1, c2}
    Threads = {n1, n2}
    Buffers = {b1, b2, b3}
    MaxRpcs = 2
    MaxAstray = 1
    NoThread = NoThread
    Astray = Astray
    NoBuffer = NoBuffer
    Supplied = Supplied
INVARIANTS ThreadOnOneCore RpcsMatch LoansExact
PROPERTIES ImplementsLoans
SYMMETRY Symm
