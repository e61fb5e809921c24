\* Two blocks of two words of two bits: a scan can stop in either word of either
\* block.
CONSTANTS
    Threads = {t1, t2}
    Blocks = 2
    BLOCK_BITS = 4
    WordBits = 2
    MaxChanges = 2
SPECIFICATION Spec
SYMMETRY Symmetry
INVARIANTS
    Exclusive
    BitsAreHeld
    NoneMeansFull
    CountIsClose
