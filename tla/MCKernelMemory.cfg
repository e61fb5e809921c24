\* Enough frames for three runs with frames of two others between them; enough
\* objects to cover two frames of the heap.
CONSTANTS
    Maps <- MCMaps
    DmaPages = {2, 3}
    MaxHeld = 4
    FRAME = 4
    HEAP = 5
    Layouts <- MCLayouts
    IST_STACK = 3
    PUSHED = 2
    MaxObjects = 2
SPECIFICATION MemorySpec
INVARIANTS
    FramesAreExclusive
    NoFrameLost
    FailsOnlyWithoutRun
    ObjectsAreDisjoint
PROPERTIES
    HeapIsMetLast
