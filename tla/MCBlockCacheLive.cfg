CONSTANTS
    Threads = {t1, t2}
    Flushers = {t1, t2}
    Blocks = {1, 2, 3}
    Data = {d1}
    Arcs = {a1, a2, a3}
    CACHE_SIZE = 2
    MaxNest = 1
    MaxCalls = 2
SPECIFICATION LiveSpec
INVARIANT NoExhaustion
PROPERTY EveryCallReturns
CHECK_DEADLOCK FALSE
