---------------------------- MODULE KernelMemory ----------------------------
(* The kernel's heap (kernel/src/allocator.rs) next to its frame allocator.   *)
(* The heap is a pointer that only goes up, from a fixed place in the window  *)
(* on physical memory: the frames it covers are not taken from the frame      *)
(* allocator, which may have them too.                                        *)
EXTENDS FrameAllocator

CONSTANTS
    FRAME,        \* bytes of a frame
    HEAP,         \* the frame where the heap starts, 0x4000_0000 in bytes
    Layouts,      \* sizes and alignments that are asked for
    IST_STACK,    \* bytes that gdt::init asks for as a stack
    PUSHED,       \* least number of bytes that an exception pushes on its stack
    MaxObjects    \* bound on the number of objects on the heap

ASSUME HeapAssumption ==
    /\ {FRAME, IST_STACK, PUSHED} \subseteq Nat \ {0}
    /\ HEAP \in Nat
    /\ Layouts \subseteq [size : Nat, align : Nat \ {0}]
    /\ MaxObjects \in Nat

VARIABLES
    top,      \* Allocator::start, as a physical address
    objects,  \* what alloc has returned; dealloc does nothing
    stack,    \* the objects that gdt::init allocated: none, or one
    ist       \* the end of the stack for double faults in the TSS

heap_vars == <<top, objects, stack, ist>>
memory_vars == <<vars, heap_vars>>

Object(start, size) == [start |-> start, size |-> size]
BytesOf(object) == object.start..(object.start + object.size - 1)

HeapTypeOK ==
    /\ top \in Nat
    /\ objects \subseteq [start : Nat, size : Nat]
    /\ stack \subseteq objects
    /\ ist \in Nat

-----------------------------------------------------------------------------
\* Mutant: rounded to the alignment below.
AlignedDown(align) == top - (top % align)

\* The start of the next object: align bytes go by even if top is aligned.
Aligned(align) == top + align - (top % align)

\* Allocator::alloc, under its lock
HeapAlloc(size, align) ==
    /\ Cardinality(objects) < MaxObjects
    /\ objects' = objects \cup {Object(Aligned(align), size)}
    /\ top' = Aligned(align) + size

MemoryInit ==
    /\ Init
    /\ top = FRAME * HEAP
    /\ objects = {}
    /\ stack = {}
    /\ ist = 0

\* Any caller of the allocator.
Alloc ==
    /\ \E layout \in Layouts : HeapAlloc(layout.size, layout.align)
    /\ UNCHANGED <<vars, stack, ist>>

\* gdt::init: a vector of bytes with capacity for a stack is leaked, a slice as long
\* as the vector, which is empty; the end of the slice is the stack's.
GdtInit ==
    /\ stack = {}
    /\ HeapAlloc(IST_STACK, 1)
    /\ stack' = {Object(Aligned(1), IST_STACK)}
    /\ LET len == 0 IN ist' = Aligned(1) + len
    /\ UNCHANGED vars

MemoryNext ==
    \/ Next /\ UNCHANGED heap_vars
    \/ Alloc
    \/ GdtInit

MemorySpec == MemoryInit /\ [][MemoryNext]_memory_vars

-----------------------------------------------------------------------------
\* No two objects on the heap share a byte, and none goes beyond what alloc will
\* return next.
ObjectsAreDisjoint ==
    /\ \A a, b \in objects : a # b => BytesOf(a) \cap BytesOf(b) = {}
    /\ \A a \in objects : a.start >= FRAME * HEAP /\ a.start + a.size <= top

\* The run meets a frame that the heap has bytes in.
MeetsHeap(run) ==
    \E frame \in Frames(run) : frame >= HEAP /\ frame * FRAME < top

\* The frame allocator may give out frames under the heap, but with a memory map in
\* ascending order it does so last: only if no run of that length is free below it.
HeapIsMetLast ==
    [][Ordered(map) =>
        \A run \in held' \ held : MeetsHeap(run) =>
            \A start \in FramesOf(segments) :
                start + run.pages <= HEAP => ~FreeRun(start, run.pages)]_memory_vars

\* Double faults are caught "on a separate kernel stack" (gdt.rs): what is pushed when
\* one is taken overwrites no object but the stack.
DoubleFaultsAreSeparate ==
    stack # {} =>
        \A object \in objects \ stack :
            ((ist - PUSHED)..(ist - 1)) \cap BytesOf(object) = {}
=============================================================================
