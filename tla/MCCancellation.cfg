SPECIFICATION Spec
CONSTANTS
    Second = 4
    MaxUint = 6
    Timeouts = {0, 1, 3, 6}
    Late = 3
    Horizon = 27
    MaxOps = 3
    Infinite = Infinite
INVARIANTS NoSpuriousCancel DeadlineOK WaitNotLate
PROPERTIES WaitNotEarly
CHECK_DEADLOCK FALSE
