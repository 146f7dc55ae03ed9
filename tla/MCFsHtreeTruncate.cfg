SPECIFICATION Spec
CONSTANTS
    MaxBlocks = 4
    BLOCK_SIZE = 2
    block_nodes = 2
    Offsets = {4, 8}
    MaxOps = 2
    MaxFaults = 0
    None = None
INVARIANT UpdatesAtomic
CHECK_DEADLOCK FALSE
