\* Files that give blocks back.
CONSTANTS
    Threads = {t1, t2}
    INODE_CACHE_SIZE = 3
    BLOCK_SIZE = 1
    Inodes = 3
    DataBits = 4
    DataStart = 2
    Files <- Freeing
SPECIFICATION Spec
SYMMETRY Symmetry
\* A panic stops the system.
CHECK_DEADLOCK FALSE
INVARIANT DeallocAssertion
