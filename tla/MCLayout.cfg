\* One direct block and two entries per index block: the sizes lie on both sides
\* of every change of height, up to an L4 root (above 18 bytes).
CONSTANTS
    BLOCK_SIZE = 2
    DIRECT_COUNT = 1
    INDIRECT_LEN = 2
    Sizes = {0, 3, 7, 11, 19}
    MaxId = 22
    MaxOthers = 1
SPECIFICATION Spec
INVARIANTS
    TreeMatchesSize
    LookupAgrees
    SuperblockSafe
    NoUnderflow
    LevelsFit
PROPERTY DataOrderKept
