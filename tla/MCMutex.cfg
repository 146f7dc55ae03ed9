SPECIFICATION Spec
CONSTANTS
    Threads = {t1, t2, t3}
    CondVars = {cv1}
    Modes = {"read", "write"}
    NoCv = NoCv
    NoThread = NoThread
    NotifReliable = FALSE
SYMMETRY ThreadSymmetry
INVARIANTS
    TypeOK
    StateTellsHolders
    NoPanic
    NoMissedWakeup
    OnlyPromotedWoken
PROPERTIES
    ImplementsMonitor
CHECK_DEADLOCK FALSE
