------------------------- MODULE KernelMemoryProofs -------------------------
(* Proofs about KernelMemory: objects on the heap are disjoint, and the frame *)
(* allocator, whose theorems carry over to the composition, meets the heap    *)
(* last.                                                                      *)
EXTENDS KernelMemory, FrameAllocatorProofs

\* The composition is a frame allocator.
LEMMA IsFrameAllocator == MemorySpec => Spec
  <1>1. MemoryInit => Init
    BY DEF MemoryInit
  <1>2. [MemoryNext]_memory_vars => [Next]_vars
    BY DEF MemoryNext, memory_vars, heap_vars, Alloc, GdtInit
  <1> QED BY <1>1, <1>2, PTL DEF MemorySpec, Spec

\* The next object starts above all that alloc has returned.
LEMMA AlignedIsAbove ==
    ASSUME top \in Nat, NEW align \in Nat \ {0}
    PROVE  Aligned(align) \in Nat /\ Aligned(align) > top
  <1>1. top % align \in 0..(align - 1)
    OBVIOUS
  <1> QED BY <1>1 DEF Aligned

\* The bytes of an object are those that a new object, above top, does not have.
LEMMA NewIsDisjoint ==
    ASSUME HeapTypeOK, ObjectsAreDisjoint, NEW start \in Nat, start > top, NEW size \in Nat,
           NEW a \in objects
    PROVE  BytesOf(a) \cap BytesOf(Object(start, size)) = {}
  <1>1. a.start \in Nat /\ a.size \in Nat /\ a.start + a.size <= top /\ top \in Nat
    BY DEF HeapTypeOK, ObjectsAreDisjoint
  <1> QED BY <1>1 DEF BytesOf, Object

HeapInv == HeapTypeOK /\ ObjectsAreDisjoint /\ top >= FRAME * HEAP

LEMMA AllocKeeps ==
    ASSUME HeapInv, NEW size \in Nat, NEW align \in Nat \ {0}, HeapAlloc(size, align),
           stack' \subseteq objects', ist' \in Nat
    PROVE  HeapInv'
  <1> DEFINE new == Object(Aligned(align), size)
  <1>1. Aligned(align) \in Nat /\ Aligned(align) > top /\ top \in Nat
    BY AlignedIsAbove DEF HeapInv, HeapTypeOK
  <1>2. /\ objects' = objects \cup {new} /\ top' = Aligned(align) + size
        /\ new.start = Aligned(align) /\ new.size = size
        /\ new \in [start : Nat, size : Nat]
    BY <1>1 DEF HeapAlloc, Object
  <1>3. FRAME * HEAP \in Nat
    BY HeapAssumption
  <1>4. HeapTypeOK'
    BY <1>1, <1>2 DEF HeapInv, HeapTypeOK
  <1>5. \A a \in objects : BytesOf(a) \cap BytesOf(new) = {}
    BY <1>1, NewIsDisjoint DEF HeapInv
  <1> HIDE DEF new
  <1>6. ASSUME NEW a \in objects', NEW b \in objects', a # b
        PROVE  BytesOf(a) \cap BytesOf(b) = {}
    BY <1>2, <1>5, <1>6, Zenon DEF HeapInv, ObjectsAreDisjoint
  <1>7. ASSUME NEW a \in objects'
        PROVE  a.start >= FRAME * HEAP /\ a.start + a.size <= top'
    <2>1. CASE a = new
      BY <2>1, <1>1, <1>2, <1>3 DEF HeapInv
    <2>2. CASE a \in objects
      <3>1. /\ a.start \in Nat /\ a.size \in Nat
            /\ a.start >= FRAME * HEAP /\ a.start + a.size <= top
        BY <2>2 DEF HeapInv, HeapTypeOK, ObjectsAreDisjoint
      <3> QED BY <3>1, <1>1, <1>2
    <2> QED BY <2>1, <2>2, <1>2
  <1>8. top' >= FRAME * HEAP
    BY <1>1, <1>2, <1>3 DEF HeapInv
  <1> QED BY <1>4, <1>6, <1>7, <1>8 DEF HeapInv, ObjectsAreDisjoint, BytesOf

LEMMA HeapInvHolds == MemorySpec => []HeapInv
  <1>1. MemoryInit => HeapInv
    BY HeapAssumption DEF MemoryInit, HeapInv, HeapTypeOK, ObjectsAreDisjoint
  <1>2. HeapInv /\ [MemoryNext]_memory_vars => HeapInv'
    <2> SUFFICES ASSUME HeapInv, [MemoryNext]_memory_vars PROVE HeapInv'
      OBVIOUS
    <2>1. CASE Alloc
      <3>1. PICK layout \in Layouts : HeapAlloc(layout.size, layout.align)
        BY <2>1 DEF Alloc
      <3>2. layout.size \in Nat /\ layout.align \in Nat \ {0}
        BY HeapAssumption
      <3>3. stack' \subseteq objects' /\ ist' \in Nat
        BY <2>1, <3>1 DEF Alloc, HeapAlloc, HeapInv, HeapTypeOK
      <3> QED BY <3>1, <3>2, <3>3, AllocKeeps
    <2>2. CASE GdtInit
      <3>1. IST_STACK \in Nat /\ HeapAlloc(IST_STACK, 1)
        BY <2>2, HeapAssumption DEF GdtInit
      <3>2. Aligned(1) \in Nat
        BY AlignedIsAbove DEF HeapInv, HeapTypeOK
      <3>3. stack' \subseteq objects' /\ ist' \in Nat
        BY <2>2, <3>2 DEF GdtInit, HeapAlloc
      <3> QED BY <3>1, <3>3, AllocKeeps
    <2>3. CASE UNCHANGED heap_vars
      BY <2>3 DEF heap_vars, HeapInv, HeapTypeOK, ObjectsAreDisjoint, BytesOf
    <2> QED BY <2>1, <2>2, <2>3 DEF MemoryNext, memory_vars
  <1> QED BY <1>1, <1>2, PTL DEF MemorySpec

-----------------------------------------------------------------------------
\* Objects that the kernel's heap has returned never share a byte.
THEOREM HeapObjectsAreDisjoint == MemorySpec => []ObjectsAreDisjoint
  <1>1. HeapInv => ObjectsAreDisjoint
    BY DEF HeapInv
  <1> QED BY <1>1, HeapInvHolds, PTL

\* Frames under the heap are given out only if no run of that length is free below
\* it: a run below the heap would start below the run that meets the heap, which is
\* the lowest.
THEOREM HeapMemoryIsLast == MemorySpec /\ Ordered(map) => HeapIsMetLast
  <1> DEFINE Lowest ==
        Ordered(map) => \A run \in held' \ held : \A start \in FramesOf(segments) :
            start < run.start => ~FreeRun(start, run.pages)
             Later ==
        Ordered(map) => \A run \in held' \ held : MeetsHeap(run) =>
            \A start \in FramesOf(segments) :
                start + run.pages <= HEAP => ~FreeRun(start, run.pages)
  <1>1. FrameInv /\ FrameInv' /\ [Lowest]_vars => [Later]_memory_vars
    <2> SUFFICES ASSUME FrameInv, FrameInv', [Lowest]_vars, Ordered(map),
                        NEW run \in held' \ held, MeetsHeap(run),
                        NEW start \in FramesOf(segments), start + run.pages <= HEAP,
                        FreeRun(start, run.pages)
                 PROVE  FALSE
      OBVIOUS
    <2>1. run.start \in Nat /\ run.pages \in Nat
      BY DEF FrameInv, TypeOK, Runs
    <2>2. start \in Nat
      BY InFramesOf DEF FrameInv, TypeOK
    <2>3. PICK frame \in run.start..(run.start + run.pages - 1) : frame >= HEAP
      BY DEF MeetsHeap, Frames, end_frame
    <2>4. start < run.start
      BY <2>1, <2>2, <2>3, HeapAssumption
    <2>5. ~UNCHANGED vars
      BY DEF vars
    <2> QED BY <2>4, <2>5
  <1>2. []FrameInv /\ [][Lowest]_vars => [][Later]_memory_vars
    BY <1>1, PTL
  <1>3. MemorySpec /\ Ordered(map) => []FrameInv
    BY IsFrameAllocator, FrameInvHolds, PTL
  <1>4. MemorySpec /\ Ordered(map) => [][Lowest]_vars
    BY IsFrameAllocator, LowestIsTaken, PTL DEF LowestRun
  <1> QED BY <1>2, <1>3, <1>4, PTL DEF HeapIsMetLast
=============================================================================
