\* Two threads, each with up to two nested guards, over a cache that is smaller
\* than what they can pin: hits, misses, evictions, flush races, exhaustion.
CONSTANTS
    Threads = {t1, t2}
    Flushers = {t1, t2}
    Blocks = {1, 2, 3}
    Data = {d1, d2}
    Arcs = {a1, a2, a3}
    CACHE_SIZE = 2
    MaxNest = 2
SPECIFICATION Spec
INVARIANTS
    OneCachePerBlock
    HeldIsCached
    CleanMatchesDisk
    FlushOwes
    
PROPERTY Transparent
SYMMETRY Symmetry
