------------------------------- MODULE Bitmap -------------------------------
(* fs/src/cafs/bitmap.rs: a bitmap of inodes or data blocks that fills several *)
(* blocks of 64-bit words.  alloc and free_count visit the blocks one by one,  *)
(* each under the lock of its own cache block, so other calls come in between. *)
EXTENDS Integers, FiniteSets

CONSTANTS
    Threads,
    Blocks,    \* blocks of the bitmap
    BLOCK_BITS, \* bits of a block, 4096 in the code
    WordBits,  \* bits of a word, 64 in the code
    MaxChanges \* other calls completed while one scan is under way

ASSUME BitmapAssumption ==
    /\ Blocks \in Nat
    /\ WordBits \in Nat \ {0}
    /\ BLOCK_BITS \in Nat \ {0}
    /\ BLOCK_BITS % WordBits = 0
    /\ MaxChanges \in Nat

VARIABLES
    bitmap,  \* the set bits
    scan,    \* what each thread is doing, and the next block it will look at
    holds,   \* the bits a caller got from alloc and has not passed to dealloc
    taken,   \* history: bits set by others since the thread's call began
    freed    \* history: bits cleared by others since then

vars == <<bitmap, scan, holds, taken, freed>>

total_count == Blocks * BLOCK_BITS
Bits == 0..(total_count - 1)
Ops == {"idle", "alloc", "none", "count", "counted"}
Idle == [op |-> "idle", block |-> 0, count |-> 0]

TypeOK ==
    /\ bitmap \subseteq Bits
    /\ scan \in [Threads -> [op : Ops, block : 0..Blocks, count : Nat]]
    /\ holds \in [Threads -> SUBSET Bits]
    /\ taken \in [Threads -> Nat]
    /\ freed \in [Threads -> Nat]

Words == 0..((BLOCK_BITS \div WordBits) - 1)
Bit(block, word, inner) == block * BLOCK_BITS + word * WordBits + inner

\* Mutant: the position in the word is that of its first bit.
decomposeWord(bit) ==
    [block_pos |-> bit \div BLOCK_BITS,
     bits64_pos |-> (bit % BLOCK_BITS) \div WordBits,
     inner_pos |-> 0]

\* The fields of decompose.
decompose(bit) ==
    [block_pos |-> bit \div BLOCK_BITS,
     bits64_pos |-> (bit % BLOCK_BITS) \div WordBits,
     inner_pos |-> (bit % BLOCK_BITS) % WordBits]

\* The word is not u64::MAX.
HasRoom(block, word) == \E i \in 0..(WordBits - 1) : Bit(block, word, i) \notin bitmap

IsFirst(x, S) == x \in S /\ \A y \in S : x <= y

\* Mutant: the first bit, set or not.
FoundFirst(block, word, inner) == word = 0 /\ inner = 0

\* The bit that alloc finds in a block: the trailing_ones of its first word
\* that is not full.
Found(block, word, inner) ==
    /\ IsFirst(word, {w \in Words : HasRoom(block, w)})
    /\ IsFirst(inner, {i \in 0..(WordBits - 1) : Bit(block, word, i) \notin bitmap})

\* Mutant: only the first word of a block is looked at.
RoomFirst(block) == HasRoom(block, 0)

Room(block) == \E w \in Words : HasRoom(block, w)

Scanning(t) == scan[t].op \in {"alloc", "none", "count", "counted"}
Tell(counter, t) ==
    [u \in Threads |-> IF u # t /\ Scanning(u) THEN counter[u] + 1 ELSE counter[u]]
MayTell(t) ==
    \A u \in Threads \ {t} : Scanning(u) => taken[u] + freed[u] < MaxChanges

-----------------------------------------------------------------------------
Init ==
    /\ bitmap = {}
    /\ scan = [t \in Threads |-> Idle]
    /\ holds = [t \in Threads |-> {}]
    /\ taken = [t \in Threads |-> 0]
    /\ freed = [t \in Threads |-> 0]

Begin(t, op) ==
    /\ scan[t] = Idle
    /\ scan' = [scan EXCEPT ![t].op = op]
    /\ UNCHANGED <<bitmap, holds, taken, freed>>

\* alloc looks at its next block and takes a bit of it.
AllocHere(t) ==
    /\ scan[t].op = "alloc"
    /\ scan[t].block < Blocks
    /\ MayTell(t)
    /\ \E w \in Words, i \in 0..(WordBits - 1) :
          LET bit == Bit(scan[t].block, w, i)
          IN  /\ Found(scan[t].block, w, i)
              /\ bitmap' = bitmap \cup {bit}
              /\ holds' = [holds EXCEPT ![t] = @ \cup {bit}]
    /\ scan' = [scan EXCEPT ![t] = Idle]
    /\ taken' = [Tell(taken, t) EXCEPT ![t] = 0]
    /\ freed' = [freed EXCEPT ![t] = 0]

\* The block is full.
AllocNext(t) ==
    /\ scan[t].op = "alloc"
    /\ scan[t].block < Blocks
    /\ ~Room(scan[t].block)
    /\ scan' = [scan EXCEPT ![t].block = @ + 1]
    /\ UNCHANGED <<bitmap, holds, taken, freed>>

\* alloc returns None.
AllocNone(t) ==
    /\ scan[t].op = "alloc"
    /\ scan[t].block = Blocks
    /\ scan' = [scan EXCEPT ![t].op = "none"]
    /\ UNCHANGED <<bitmap, holds, taken, freed>>

\* dealloc of a bit that the caller has; the assertion holds by BitsAreHeld.
dealloc(t, bit) ==
    LET p == decompose(bit)
    IN  /\ scan[t] = Idle
        /\ bit \in holds[t]
        /\ MayTell(t)
        /\ bitmap' = bitmap \ {Bit(p.block_pos, p.bits64_pos, p.inner_pos)}
        /\ holds' = [holds EXCEPT ![t] = @ \ {bit}]
        /\ freed' = Tell(freed, t)
        /\ UNCHANGED <<scan, taken>>

\* Mutant: the ones are counted.
Ones(block) ==
    Cardinality({p \in Words \X (0..(WordBits - 1)) : Bit(block, p[1], p[2]) \in bitmap})

\* The zeros of a block, summed over its words.
Zeros(block) ==
    Cardinality({p \in Words \X (0..(WordBits - 1)) : Bit(block, p[1], p[2]) \notin bitmap})

\* free_count adds up the next block.
CountBlock(t) ==
    /\ scan[t].op = "count"
    /\ scan[t].block < Blocks
    /\ scan' = [scan EXCEPT ![t].block = @ + 1,
                            ![t].count = @ + Zeros(scan[t].block)]
    /\ UNCHANGED <<bitmap, holds, taken, freed>>

CountDone(t) ==
    /\ scan[t].op = "count"
    /\ scan[t].block = Blocks
    /\ scan' = [scan EXCEPT ![t].op = "counted"]
    /\ UNCHANGED <<bitmap, holds, taken, freed>>

\* The caller of alloc or free_count has seen its result.
Return(t) ==
    /\ scan[t].op \in {"none", "counted"}
    /\ scan' = [scan EXCEPT ![t] = Idle]
    /\ taken' = [taken EXCEPT ![t] = 0]
    /\ freed' = [freed EXCEPT ![t] = 0]
    /\ UNCHANGED <<bitmap, holds>>

Next ==
    \E t \in Threads :
        \/ \E op \in {"alloc", "count"} : Begin(t, op)
        \/ AllocHere(t)
        \/ AllocNext(t)
        \/ AllocNone(t)
        \/ \E bit \in holds[t] : dealloc(t, bit)
        \/ CountBlock(t)
        \/ CountDone(t)
        \/ Return(t)

Spec == Init /\ [][Next]_vars

-----------------------------------------------------------------------------
\* No two callers of alloc have the same bit, even when their scans interleave.
Exclusive == \A t, u \in Threads : t # u => holds[t] \cap holds[u] = {}

\* The set bits are exactly those that callers have, so the assertion in dealloc
\* holds for every bit that came from alloc, and no bit is lost.
BitsAreHeld == bitmap = UNION {holds[t] : t \in Threads}

\* alloc returns None only when the bitmap is full, unless another caller freed
\* a bit while it was scanning (it does not look at a block twice).
NoneMeansFull ==
    \A t \in Threads : scan[t].op = "none" => freed[t] > 0 \/ bitmap = Bits

\* free_count is off by no more than the number of bits that changed while it
\* was adding up the blocks.
CountIsClose ==
    \A t \in Threads :
        scan[t].op = "counted" =>
            LET free == Cardinality(Bits \ bitmap)
            IN  /\ scan[t].count <= free + taken[t]
                /\ free <= scan[t].count + freed[t]
=============================================================================
