\* Four bits to a block and two inodes to a block; the devices range from too
\* small for any inode to several blocks of data bitmap.
CONSTANTS
    BLOCK_SIZE = 4
    BLOCK_BITS = 4
    MetaSize = 2
    Devices <- MCDevices
    InodeBlocks = {1, 2, 3}
SPECIFICATION Spec
CHECK_DEADLOCK FALSE
INVARIANTS
    InodesInPlace
    DataInPlace
