SPECIFICATION FairSpec
CONSTANTS
    Threads = {t1, t2, t3}
    CondVars = {cv1}
    Modes = {"read", "write"}
    NoCv = NoCv
    NoThread = NoThread
    NotifReliable = TRUE
INVARIANTS
    WakeDelivered
PROPERTIES
    FreeMutexIsTaken
    EveryWaiterRetries
CHECK_DEADLOCK FALSE
