\* Files of up to two blocks, for which, and the directory's, the data bitmap has too few
\* bits; the second create needs a remount to find room in the inode cache.  Of the
\* block ids, which write takes for bits when it gives blocks back, the last lies beyond
\* the bitmap.
CONSTANTS
    Threads = {t1, t2}
    INODE_CACHE_SIZE = 3
    BLOCK_SIZE = 2
    Inodes = 3
    DataBits = 4
    DataStart = 1
    Files <- TwoBlocks
SPECIFICATION Spec
SYMMETRY Symmetry
\* A panic stops the system.
CHECK_DEADLOCK FALSE
INVARIANTS
    
    CachedInodeFresh
    ContentsKept
    DirectoryComplete
    PanicNeedsCreates
