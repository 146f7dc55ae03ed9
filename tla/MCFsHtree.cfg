SPECIFICATION Spec
CONSTANTS
    MaxBlocks = 5
    BLOCK_SIZE = 2
    block_nodes = 2
    Offsets = {0, 2, 3, 7, 10}
    MaxOps = 3
    MaxFaults = 2
    None = None
INVARIANTS CommittedIntact OpenFileOK
CHECK_DEADLOCK FALSE
