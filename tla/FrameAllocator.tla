--------------------------- MODULE FrameAllocator ---------------------------
(* kernel/src/memory/frame.rs: physical frames are kept as a list of free     *)
(* segments.  Callers get single frames (Frame), or runs of frames for DMA,   *)
(* which drivers/provider.rs gives back one frame at a time, taking the lock  *)
(* of the allocator for each.                                                 *)
EXTENDS Integers, Sequences, SequencesExt

CONSTANTS
    Maps,     \* the lists of CONVENTIONAL segments that firmware may report
    DmaPages, \* lengths of the runs that drivers ask for
    MaxHeld   \* bound on the number of allocations at one time

Segment(start, pages) == [start |-> start, pages |-> pages]
end_frame(segment) == segment.start + segment.pages - 1

\* Ascending and with a gap between neighbours, the order that deallocate keeps.
Ordered(segs) ==
    /\ \A i \in 1..Len(segs) : segs[i].start \in Nat /\ segs[i].pages \in Nat \ {0}
    /\ \A i, j \in 1..Len(segs) : i < j => end_frame(segs[i]) + 1 < segs[j].start

\* Firmware reports no frame twice, but need not report segments in ascending order.
Disjoint(segs) ==
    \A i, j \in 1..Len(segs) : i < j =>
        end_frame(segs[i]) < segs[j].start \/ end_frame(segs[j]) < segs[i].start

Runs == [start : Nat, pages : Nat \ {0}]

ASSUME FrameAssumption ==
    /\ \A map \in Maps : map \in Seq(Runs) /\ Disjoint(map)
    /\ DmaPages \subseteq Nat \ {0}
    /\ MaxHeld \in Nat

VARIABLES
    map,      \* what the firmware reported
    segments, \* FrameAllocator::segments
    held,     \* runs that callers have
    freeing   \* rest of the runs that are being given back

vars == <<map, segments, held, freeing>>

Frames(segment) == segment.start..end_frame(segment)
FramesOf(segs) == UNION {Frames(segs[i]) : i \in 1..Len(segs)}
FramesIn(runs) == UNION {Frames(run) : run \in runs}

TypeOK ==
    /\ map \in Maps
    /\ segments \in Seq(Runs)
    /\ held \subseteq Runs
    /\ freeing \subseteq Runs

-----------------------------------------------------------------------------
least(S) == CHOOSE x \in S : \A y \in S : x <= y

\* Mutant: a run is cut off like a single frame.
CutOne(segs, id, pages) ==
    IF segs[id].pages = pages THEN RemoveAt(segs, id)
    ELSE [segs EXCEPT ![id] = Segment(@.start + 1, @.pages - pages)]

\* The first pages of segment id are taken; an empty segment is removed.
Cut(segs, id, pages) ==
    IF segs[id].pages = pages THEN RemoveAt(segs, id)
    ELSE [segs EXCEPT ![id] = Segment(@.start + pages, @.pages - pages)]

\* Segments that can serve a run of this many pages.
Fitting(segs, pages) == {i \in 1..Len(segs) : segs[i].pages >= pages}

\* Mutant: a segment that ends just before the frame is passed over.
StopsAfter(segs, addr) == {i \in 1..Len(segs) : segs[i].start >= addr + 1}

\* Segments at which the loop of deallocate stops: the frame follows, precedes or
\* lies below the segment.
Stops(segs, addr) ==
    {i \in 1..Len(segs) : end_frame(segs[i]) + 1 = addr \/ segs[i].start >= addr + 1}

\* Mutants: neighbours are not joined; one of them is dropped.
MergeNever(segs, id) == segs
MergeDrops(segs, id) ==
    IF id \in 1..(Len(segs) - 1) /\ end_frame(segs[id]) + 1 = segs[id + 1].start
    THEN RemoveAt(segs, id + 1) ELSE segs

\* Neighbours id and id + 1 become one segment if they touch.
MergeAt(segs, id) ==
    IF id \in 1..(Len(segs) - 1) /\ end_frame(segs[id]) + 1 = segs[id + 1].start
    THEN RemoveAt([segs EXCEPT ![id].pages = @ + segs[id + 1].pages], id + 1)
    ELSE segs

deallocate(segs, addr) ==
    IF Stops(segs, addr) = {} THEN Append(segs, Segment(addr, 1))
    ELSE LET i == least(Stops(segs, addr))
         IN  IF end_frame(segs[i]) + 1 = addr
             THEN MergeAt([segs EXCEPT ![i].pages = @ + 1], i)
             ELSE IF segs[i].start = addr + 1
             THEN MergeAt([segs EXCEPT ![i] = Segment(addr, @.pages + 1)], i - 1)
             ELSE InsertAt(segs, i, Segment(addr, 1))

-----------------------------------------------------------------------------
\* memory::init
Init ==
    /\ map \in Maps
    /\ segments = map
    /\ held = {}
    /\ freeing = {}

\* allocate
Allocate ==
    /\ Len(segments) > 0
    /\ held' = held \cup {Segment(segments[1].start, 1)}
    /\ segments' = Cut(segments, 1, 1)
    /\ UNCHANGED <<map, freeing>>

\* alloc_range, from virtio_dma_alloc
AllocRange(pages) ==
    LET id == least(Fitting(segments, pages))
    IN  /\ Fitting(segments, pages) # {}
        /\ held' = held \cup {Segment(segments[id].start, pages)}
        /\ segments' = Cut(segments, id, pages)
        /\ UNCHANGED <<map, freeing>>

\* Frame::drop, or virtio_dma_dealloc before its first round.
Free(run) ==
    /\ run \in held
    /\ held' = held \ {run}
    /\ freeing' = freeing \cup {run}
    /\ UNCHANGED <<map, segments>>

\* One round of virtio_dma_dealloc, under the lock.
Dealloc(run) ==
    /\ run \in freeing
    /\ segments' = deallocate(segments, run.start)
    /\ freeing' = (freeing \ {run}) \cup
                  (IF run.pages = 1 THEN {} ELSE {Segment(run.start + 1, run.pages - 1)})
    /\ UNCHANGED <<map, held>>

Bounded == Cardinality(held) + Cardinality(freeing) < MaxHeld

Next ==
    \/ Bounded /\ Allocate
    \/ \E pages \in DmaPages : Bounded /\ AllocRange(pages)
    \/ \E run \in held : Free(run)
    \/ \E run \in freeing : Dealloc(run)

Spec == Init /\ [][Next]_vars

-----------------------------------------------------------------------------
\* No frame is in two places: no two callers have it, and none that a caller has
\* or has yet to give back is in a free segment.
FramesAreExclusive ==
    /\ \A r, s \in held \cup freeing : r # s => Frames(r) \cap Frames(s) = {}
    /\ held \cap freeing = {}
    /\ FramesOf(segments) \cap FramesIn(held \cup freeing) = {}

\* No frame is lost or made up: the free segments, the runs that callers have and
\* those on their way back are all the memory that the firmware reported.
NoFrameLost == FramesOf(segments) \cup FramesIn(held \cup freeing) = FramesOf(map)

\* deallocate puts each frame where it belongs and joins it with its neighbours.
SegmentsOrdered == Ordered(segments)

\* The frames from start on are free, as many as a run of this length has.
FreeRun(start, pages) == start..(start + pages - 1) \subseteq FramesOf(segments)

\* With a memory map in ascending order alloc_range fails only if memory has no free
\* run of that length: runs given back frame by frame, in any order and interleaved,
\* do not leave it split.
FailsOnlyWithoutRun ==
    Ordered(map) =>
        \A pages \in DmaPages :
            Fitting(segments, pages) = {} =>
                ~\E start \in FramesOf(segments) : FreeRun(start, pages)

\* With a memory map in ascending order the run that a caller gets is the lowest free
\* run of its length, whatever was given back before: high memory, where the kernel's
\* heap is, is used last.
LowestRun ==
    [][Ordered(map) =>
        \A run \in held' \ held : \A start \in FramesOf(segments) :
            start < run.start => ~FreeRun(start, run.pages)]_vars
=============================================================================
