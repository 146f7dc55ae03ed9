SPECIFICATION Spec
CONSTANTS
    Threads = {t1, t2, t3}
    Mobjs = {m1, m2, m3}
    Cookies = {c1, c2}
    Vas = {v1, v2}
    NoThread = NoThread
    NoMobj = NoMobj
    NoCookie = NoCookie
    NoVa = NoVa
INVARIANTS CountsExact NoUseAfterFree NothingLeaks SleepersAwaited
PROPERTIES AddressStable ImplementsRegistry
SYMMETRY Symm
