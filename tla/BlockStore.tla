----------------------------- MODULE BlockStore -----------------------------
(* What the block cache of fs/src/cafs/cache.rs promises its users: a disk    *)
(* of blocks, each changed only by the one user who has it open for writing.  *)
(* A write is seen by every later access.  It becomes durable at some later   *)
(* moment (eviction, flush, or the end of the mount), never in the middle of  *)
(* an update, and a crash forgets it only if it had not become durable.       *)
CONSTANTS
    Blocks, \* the blocks of the device
    Data    \* the contents a block can have

VARIABLES
    content, \* what a reader of block b sees
    stable,  \* what a crash leaves of block b
    writing  \* the blocks that are open for writing

vars == <<content, stable, writing>>

TypeOK ==
    /\ content \in [Blocks -> Data]
    /\ stable \in [Blocks -> Data]
    /\ writing \subseteq Blocks

Init ==
    /\ stable \in [Blocks -> Data]
    /\ content = stable
    /\ writing = {}

Open(b) ==
    /\ b \notin writing
    /\ writing' = writing \cup {b}
    /\ UNCHANGED <<content, stable>>

Write(b, d) ==
    /\ b \in writing
    /\ content' = [content EXCEPT ![b] = d]
    /\ UNCHANGED <<stable, writing>>

Close(b) ==
    /\ writing' = writing \ {b}
    /\ UNCHANGED <<content, stable>>

\* The blocks of B become durable together.
Persist(B) ==
    /\ B \cap writing = {}
    /\ stable' = [b \in Blocks |-> IF b \in B THEN content[b] ELSE stable[b]]
    /\ UNCHANGED <<content, writing>>

Crash ==
    /\ content' = stable
    /\ writing' = {}
    /\ UNCHANGED stable

Next ==
    \/ \E b \in Blocks : Open(b) \/ Close(b)
    \/ \E b \in Blocks, d \in Data : Write(b, d)
    \/ \E B \in SUBSET Blocks : Persist(B)
    \/ Crash

Spec == Init /\ [][Next]_vars
=============================================================================
