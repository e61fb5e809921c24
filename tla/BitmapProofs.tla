---------------------------- MODULE BitmapProofs ----------------------------
(* Bits that alloc hands out are exclusive, whatever the number of threads,   *)
(* blocks, words and bits, and None means full.                               *)
EXTENDS Bitmap, FiniteSetTheorems, TLAPS

-----------------------------------------------------------------------------
\* Positions

LEMMA DivMod ==
    ASSUME NEW n \in Nat, NEW d \in Nat, d > 0
    PROVE  /\ n \div d \in Nat /\ n % d \in 0..(d - 1)
           /\ n = (n \div d) * d + (n % d)
  BY SMT

LEMMA TimesMonotone ==
    ASSUME NEW a \in Nat, NEW b \in Nat, NEW d \in Nat, a <= b
    PROVE  a * d \in Nat /\ b * d \in Nat /\ a * d <= b * d
  <1>1. b - a \in Nat
    OBVIOUS
  <1>2. (b - a) * d >= 0
    BY <1>1
  <1>3. b * d = a * d + (b - a) * d
    OBVIOUS
  <1> QED BY <1>2, <1>3

\* A block is a whole number of words.
LEMMA WordsFill ==
    /\ BLOCK_BITS \in Nat /\ BLOCK_BITS > 0 /\ WordBits \in Nat /\ WordBits > 0
    /\ BLOCK_BITS \div WordBits \in Nat
    /\ BLOCK_BITS = (BLOCK_BITS \div WordBits) * WordBits
  BY BitmapAssumption, DivMod

\* decompose finds the place of a bit, and Bit puts it together again.
LEMMA DecomposeBit ==
    ASSUME NEW bit \in Bits
    PROVE  LET p == decompose(bit)
           IN  /\ p.block_pos \in 0..(Blocks - 1)
               /\ p.bits64_pos \in Words
               /\ p.inner_pos \in 0..(WordBits - 1)
               /\ Bit(p.block_pos, p.bits64_pos, p.inner_pos) = bit
  <1> DEFINE b == bit \div BLOCK_BITS
             r == bit % BLOCK_BITS
             w == r \div WordBits
             i == r % WordBits
             n == BLOCK_BITS \div WordBits
  <1>1. bit \in Nat /\ bit < Blocks * BLOCK_BITS /\ Blocks \in Nat
    BY BitmapAssumption, WordsFill DEF Bits, total_count
  <1>2. b \in Nat /\ r \in Nat /\ r < BLOCK_BITS /\ bit = b * BLOCK_BITS + r
    BY <1>1, WordsFill, DivMod
  <1>3. w \in Nat /\ i \in 0..(WordBits - 1) /\ r = w * WordBits + i
    BY <1>2, WordsFill, DivMod, Zenon
  <1>4. n \in Nat /\ BLOCK_BITS = n * WordBits
    BY WordsFill
  <1> HIDE DEF b, r, w, i, n
  <1>5. b < Blocks
    <2> SUFFICES ASSUME Blocks <= b PROVE FALSE
      BY <1>1, <1>2
    <2>1. Blocks * BLOCK_BITS <= b * BLOCK_BITS
      BY <1>1, <1>2, WordsFill, TimesMonotone
    <2>2. b * BLOCK_BITS \in Nat /\ Blocks * BLOCK_BITS \in Nat
      BY <1>1, <1>2, WordsFill
    <2> QED BY <1>1, <1>2, <2>1, <2>2
  <1>6. w < n
    <2> SUFFICES ASSUME n <= w PROVE FALSE
      BY <1>3, <1>4
    <2>1. n * WordBits <= w * WordBits
      BY <1>3, <1>4, WordsFill, TimesMonotone
    <2> QED BY <1>2, <1>3, <1>4, <2>1, WordsFill
  <1>7. b * BLOCK_BITS + w * WordBits + i = bit
    BY <1>1, <1>2, <1>3, WordsFill
  <1> QED BY <1>1, <1>2, <1>3, <1>4, <1>5, <1>6, <1>7
          DEF decompose, Bit, Words, b, r, w, i, n

\* Every place that alloc can find is a bit of the bitmap.
LEMMA BitInRange ==
    ASSUME NEW b \in 0..(Blocks - 1), NEW w \in Words, NEW i \in 0..(WordBits - 1)
    PROVE  Bit(b, w, i) \in Bits
  <1> DEFINE n == BLOCK_BITS \div WordBits
  <1>1. /\ Blocks \in Nat /\ b \in Nat /\ b < Blocks
        /\ n \in Nat /\ w \in Nat /\ w < n
        /\ i \in Nat /\ i < WordBits /\ BLOCK_BITS = n * WordBits
    BY BitmapAssumption, WordsFill DEF Words
  <1> HIDE DEF n
  <1>2. (w + 1) * WordBits <= n * WordBits
    BY <1>1, WordsFill, TimesMonotone
  <1>3. w * WordBits + i \in Nat /\ w * WordBits + i < BLOCK_BITS
    BY <1>1, <1>2, WordsFill
  <1>4. (b + 1) * BLOCK_BITS <= Blocks * BLOCK_BITS
    BY <1>1, WordsFill, TimesMonotone
  <1> QED BY <1>1, <1>3, <1>4, WordsFill DEF Bit, Bits, total_count

-----------------------------------------------------------------------------
\* The inductive invariant

\* Unless a bit was freed behind its back, the blocks that a scan for a clear bit
\* has passed are full; and a scan that found nothing has passed all of them.
ScannedFull ==
    \A t \in Threads :
        /\ scan[t].op \in {"alloc", "none"} /\ freed[t] = 0 =>
              \A b \in 0..(scan[t].block - 1), w \in Words, i \in 0..(WordBits - 1) :
                  Bit(b, w, i) \in bitmap
        /\ scan[t].op = "none" => scan[t].block = Blocks

BitmapInv == TypeOK /\ Exclusive /\ BitsAreHeld /\ ScannedFull

LEMMA InitBitmapInv == Init => BitmapInv
  BY BitmapAssumption
  DEF Init, BitmapInv, TypeOK, Exclusive, BitsAreHeld, ScannedFull, Idle, Ops

LEMMA ZerosType == \A block : Zeros(block) \in Nat
  <1> TAKE block
  <1> DEFINE I == 0..(WordBits - 1)
             Z == {p \in Words \X I : Bit(block, p[1], p[2]) \notin bitmap}
  <1>1. IsFiniteSet(Words) /\ IsFiniteSet(I)
    <2>1. (BLOCK_BITS \div WordBits) - 1 \in Int /\ WordBits - 1 \in Int
      BY WordsFill
    <2> QED BY <2>1, FS_Interval DEF Words
  <1>2. IsFiniteSet(Words \X I)
    BY <1>1, FS_Product, Zenon
  <1>3. IsFiniteSet(Z)
    BY <1>2, FS_Subset
  <1> QED BY <1>3, FS_CardinalityType DEF Zeros

\* Counting the changes of other threads keeps a counter's type.
LEMMA TellType ==
    ASSUME NEW c \in [Threads -> Nat], NEW t \in Threads
    PROVE  Tell(c, t) \in [Threads -> Nat]
  BY DEF Tell

\* The bit alloc finds is clear, so nobody has it.
LEMMA AllocHereKeeps ==
    ASSUME BitmapInv, NEW t \in Threads, AllocHere(t)
    PROVE  BitmapInv'
  <1> USE DEF BitmapInv
  <1>1. PICK w \in Words, i \in 0..(WordBits - 1) :
              /\ Found(scan[t].block, w, i)
              /\ bitmap' = bitmap \cup {Bit(scan[t].block, w, i)}
              /\ holds' = [holds EXCEPT ![t] = @ \cup {Bit(scan[t].block, w, i)}]
    BY Zenon DEF AllocHere
  <1> DEFINE bit == Bit(scan[t].block, w, i)
  <1>2. bit \in Bits /\ bit \notin bitmap
    <2>1. scan[t].block \in 0..(Blocks - 1)
      BY BitmapAssumption DEF TypeOK, AllocHere
    <2> QED BY <1>1, <2>1, BitInRange DEF Found, IsFirst
  <1> HIDE DEF bit
  <1>3. bitmap' = bitmap \cup {bit} /\ holds' = [holds EXCEPT ![t] = @ \cup {bit}]
    BY <1>1 DEF bit
  <1>4. \A u \in Threads : bit \notin holds[u]
    BY <1>2 DEF BitsAreHeld
  <1>5. TypeOK'
    <2>1. bitmap' \subseteq Bits /\ holds' \in [Threads -> SUBSET Bits]
      BY <1>2, <1>3 DEF TypeOK
    <2>2. scan' \in [Threads -> [op : Ops, block : 0..Blocks, count : Nat]]
      BY BitmapAssumption DEF TypeOK, AllocHere, Idle, Ops
    <2>3. Tell(taken, t) \in [Threads -> Nat]
      BY TellType DEF TypeOK
    <2>4. taken' \in [Threads -> Nat] /\ freed' \in [Threads -> Nat]
      BY <2>3 DEF TypeOK, AllocHere
    <2> QED BY <2>1, <2>2, <2>4 DEF TypeOK
  <1>6. Exclusive'
    BY <1>3, <1>4 DEF Exclusive, TypeOK
  <1>7. BitsAreHeld'
    <2>1. \A x : x \in UNION {holds'[u] : u \in Threads} <=> \E u \in Threads : x \in holds'[u]
      OBVIOUS
    <2>2. \A x : x \in bitmap <=> \E u \in Threads : x \in holds[u]
      BY DEF BitsAreHeld
    <2>3. \A x : x \in bitmap' <=> \E u \in Threads : x \in holds'[u]
      BY <1>3, <2>2 DEF TypeOK
    <2> QED BY <2>1, <2>3 DEF BitsAreHeld
  <1>8. ScannedFull'
    <2> SUFFICES ASSUME NEW u \in Threads
                 PROVE  /\ scan'[u].op \in {"alloc", "none"} /\ freed'[u] = 0 =>
                              \A b \in 0..(scan'[u].block - 1), v \in Words, j \in 0..(WordBits - 1) :
                                  Bit(b, v, j) \in bitmap'
                        /\ scan'[u].op = "none" => scan'[u].block = Blocks
      BY DEF ScannedFull, Bit, Words
    <2>1. CASE u = t
      BY <2>1 DEF AllocHere, TypeOK, Idle
    <2>2. CASE u # t
      <3>1. scan'[u] = scan[u] /\ freed'[u] = freed[u]
        BY <2>2 DEF AllocHere, TypeOK
      <3> QED BY <1>3, <3>1 DEF ScannedFull
    <2> QED BY <2>1, <2>2
  <1> QED BY <1>5, <1>6, <1>7, <1>8

\* Only the caller that has the bit loses it; every scan under way is told.
LEMMA deallocKeeps ==
    ASSUME BitmapInv, NEW t \in Threads, NEW bit \in holds[t], dealloc(t, bit)
    PROVE  BitmapInv'
  <1> USE DEF BitmapInv
  <1>1. bit \in Bits
    BY DEF TypeOK
  <1>2. bitmap' = bitmap \ {bit} /\ holds' = [holds EXCEPT ![t] = @ \ {bit}]
    BY <1>1, DecomposeBit DEF dealloc
  <1>3. \A u \in Threads : u # t => bit \notin holds[u]
    BY DEF Exclusive
  <1>4. TypeOK'
    <2>1. bitmap' \subseteq Bits /\ holds' \in [Threads -> SUBSET Bits]
      BY <1>2 DEF TypeOK
    <2>2. freed' \in [Threads -> Nat] /\ taken' \in [Threads -> Nat]
      BY TellType DEF TypeOK, dealloc
    <2> QED BY <2>1, <2>2 DEF TypeOK, dealloc
  <1>5. Exclusive'
    BY <1>2 DEF Exclusive, TypeOK
  <1>6. BitsAreHeld'
    <2>1. \A x : x \in UNION {holds'[u] : u \in Threads} <=> \E u \in Threads : x \in holds'[u]
      OBVIOUS
    <2>2. \A x : x \in bitmap <=> \E u \in Threads : x \in holds[u]
      BY DEF BitsAreHeld
    <2>3. \A x : x \in bitmap' <=> \E u \in Threads : x \in holds'[u]
      BY <1>2, <1>3, <2>2 DEF TypeOK
    <2> QED BY <2>1, <2>3 DEF BitsAreHeld
  <1>7. ScannedFull'
    <2> SUFFICES ASSUME NEW u \in Threads
                 PROVE  /\ ~(scan'[u].op \in {"alloc", "none"} /\ freed'[u] = 0)
                        /\ scan'[u].op = "none" => scan'[u].block = Blocks
      BY DEF ScannedFull
    <2>1. scan' = scan /\ scan[t].op = "idle"
      BY DEF dealloc, Idle
    <2>2. scan[u].op \in {"alloc", "none"} => freed'[u] = freed[u] + 1
      BY <2>1 DEF dealloc, Tell, Scanning
    <2>3. freed[u] \in Nat
      BY DEF TypeOK
    <2> QED BY <2>1, <2>2, <2>3 DEF ScannedFull
  <1> QED BY <1>4, <1>5, <1>6, <1>7

\* The other steps leave the bits alone; a scan goes on only from a full block.
LEMMA ScanKeeps ==
    ASSUME BitmapInv, NEW t \in Threads,
           \/ \E op \in {"alloc", "count"} : Begin(t, op)
           \/ AllocNext(t) \/ AllocNone(t)
           \/ CountBlock(t) \/ CountDone(t) \/ Return(t)
    PROVE  BitmapInv'
  <1> USE DEF BitmapInv
  <1>1. bitmap' = bitmap /\ holds' = holds
    BY DEF Begin, AllocNext, AllocNone, CountBlock, CountDone, Return
  <1>2. Exclusive' /\ BitsAreHeld'
    BY <1>1 DEF Exclusive, BitsAreHeld
  <1>3. \A u \in Threads : u # t => scan'[u] = scan[u] /\ freed'[u] = freed[u]
    BY DEF Begin, AllocNext, AllocNone, CountBlock, CountDone, Return, TypeOK
  <1>4. scan[t] \in [op : Ops, block : 0..Blocks, count : Nat] /\ Blocks \in Nat
    BY BitmapAssumption DEF TypeOK
  <1> DEFINE FullBelow(n) ==
               \A b \in 0..(n - 1), w \in Words, i \in 0..(WordBits - 1) :
                   Bit(b, w, i) \in bitmap
             Others == \A u \in Threads : u # t =>
                         /\ scan'[u].op \in {"alloc", "none"} /\ freed'[u] = 0
                              => FullBelow(scan'[u].block)
                         /\ scan'[u].op = "none" => scan'[u].block = Blocks
             Self == /\ scan'[t].op \in {"alloc", "none"} /\ freed'[t] = 0
                          => FullBelow(scan'[t].block)
                     /\ scan'[t].op = "none" => scan'[t].block = Blocks
  <1>5. Others
    BY <1>3 DEF ScannedFull
  <1>6. (scan[t].op \in {"alloc", "none"} /\ freed[t] = 0 => FullBelow(scan[t].block))
    BY DEF ScannedFull
  <1> HIDE DEF FullBelow
  <1>7. Others /\ Self => ScannedFull'
    BY <1>1 DEF ScannedFull, FullBelow, Bit, Words
  <1> DEFINE ScanType == /\ scan' \in [Threads -> [op : Ops, block : 0..Blocks, count : Nat]]
                         /\ taken' \in [Threads -> Nat] /\ freed' \in [Threads -> Nat]
  <1>8. ScanType => TypeOK'
    BY <1>1 DEF TypeOK
  <1> SUFFICES Self /\ ScanType
    BY <1>2, <1>5, <1>7, <1>8
  <1>9. CASE \E op \in {"alloc", "count"} : Begin(t, op)
    <2>1. PICK op \in {"alloc", "count"} : Begin(t, op)
      BY <1>9
    <2>2. scan'[t] = [op |-> op, block |-> 0, count |-> 0]
      BY <1>4, <2>1 DEF Begin, Idle, TypeOK
    <2>3. FullBelow(0)
      BY DEF FullBelow
    <2>4. ScanType
      BY <1>4, <2>1 DEF Begin, TypeOK, Ops
    <2> QED BY <2>2, <2>3, <2>4
  <1>10. CASE AllocNext(t)
    <2>1. scan'[t] = [scan[t] EXCEPT !.block = @ + 1] /\ freed' = freed
          /\ scan[t].op = "alloc" /\ scan[t].block < Blocks
      BY <1>4, <1>10 DEF AllocNext, TypeOK
    <2>2. freed[t] = 0 => FullBelow(scan[t].block + 1)
      <3>1. \A w \in Words, i \in 0..(WordBits - 1) : Bit(scan[t].block, w, i) \in bitmap
        BY <1>10 DEF AllocNext, Room, HasRoom
      <3> QED BY <1>4, <1>6, <2>1, <3>1 DEF FullBelow
    <2>3. scan'[t].op = "alloc" /\ scan'[t].block = scan[t].block + 1
      BY <1>4, <2>1
    <2>4. ScanType
      BY <1>4, <1>10, <2>1 DEF AllocNext, TypeOK
    <2> QED BY <2>1, <2>2, <2>3, <2>4
  <1>11. CASE AllocNone(t)
    <2>1. scan'[t] = [scan[t] EXCEPT !.op = "none"] /\ freed' = freed
          /\ scan[t].op = "alloc" /\ scan[t].block = Blocks
      BY <1>4, <1>11 DEF AllocNone, TypeOK
    <2>2. ScanType
      BY <1>4, <1>11 DEF AllocNone, TypeOK, Ops
    <2> QED BY <1>4, <1>6, <2>1, <2>2
  <1>12. CASE CountBlock(t)
    <2>1. Zeros(scan[t].block) \in Nat
      BY ZerosType
    <2> HIDE DEF Self
    <2>2. scan'[t].op = "count"
      BY <1>4, <1>12 DEF CountBlock, TypeOK
    <2>3. ScanType
      <3> DEFINE z == Zeros(scan[t].block)
                 r == [scan[t] EXCEPT !.block = @ + 1, !.count = @ + z]
      <3>1. z \in Nat
        BY <2>1
      <3> HIDE DEF z
      <3>2. scan[t].block + 1 \in 0..Blocks /\ scan[t].count + z \in Nat
        BY <1>4, <1>12, <3>1 DEF CountBlock
      <3>3. r \in [op : Ops, block : 0..Blocks, count : Nat]
        BY <1>4, <3>2, Zenon
      <3>4. scan' = [scan EXCEPT ![t] = r]
        BY <1>12, Zenon DEF CountBlock, z, TypeOK
      <3> QED BY <1>12, <3>3, <3>4, ZenonT(30) DEF CountBlock, TypeOK
    <2> QED BY <2>2, <2>3 DEF Self
  <1>13. CASE CountDone(t)
    <2>1. scan'[t].op = "counted"
      BY <1>4, <1>13 DEF CountDone, TypeOK
    <2>2. ScanType
      BY <1>4, <1>13 DEF CountDone, TypeOK, Ops
    <2> QED BY <2>1, <2>2
  <1>14. CASE Return(t)
    <2>1. scan'[t].op = "idle"
      BY <1>4, <1>14 DEF Return, TypeOK, Idle
    <2>2. ScanType
      BY <1>4, <1>14 DEF Return, TypeOK, Ops, Idle
    <2> QED BY <2>1, <2>2
  <1> QED BY <1>9, <1>10, <1>11, <1>12, <1>13, <1>14

LEMMA BitmapInvariant == Spec => []BitmapInv
  <1>1. BitmapInv /\ [Next]_vars => BitmapInv'
    <2> SUFFICES ASSUME BitmapInv, [Next]_vars
                 PROVE  BitmapInv'
      OBVIOUS
    <2>1. CASE UNCHANGED vars
      BY <2>1 DEF vars, BitmapInv, TypeOK, Exclusive, BitsAreHeld, ScannedFull, Bit, Words
    <2>2. CASE Next
      BY <2>2, AllocHereKeeps, deallocKeeps, ScanKeeps DEF Next
    <2> QED BY <2>1, <2>2
  <1> QED BY <1>1, InitBitmapInv, PTL DEF Spec

-----------------------------------------------------------------------------
\* Bitmap::alloc never hands the same bit to two callers, however their scans
\* over the blocks of the bitmap interleave.
THEOREM AllocIsExclusive == Spec => []Exclusive
  <1>1. BitmapInv => Exclusive
    BY DEF BitmapInv
  <1> QED BY <1>1, BitmapInvariant, PTL

\* The set bits of the bitmap are those that callers have: the assertion in
\* Bitmap::dealloc cannot fail for a bit that alloc returned.
THEOREM SetBitsAreHeld == Spec => []BitsAreHeld
  <1>1. BitmapInv => BitsAreHeld
    BY DEF BitmapInv
  <1> QED BY <1>1, BitmapInvariant, PTL

\* Bitmap::alloc returns None only when every bit is set, unless a bit was freed
\* while it scanned.
THEOREM NoneOnlyWhenFull == Spec => []NoneMeansFull
  <1>1. BitmapInv => NoneMeansFull
    <2> SUFFICES ASSUME BitmapInv, NEW t \in Threads, scan[t].op = "none", ~(freed[t] > 0)
                 PROVE  bitmap = Bits
      BY DEF NoneMeansFull
    <2>1. freed[t] = 0
      BY DEF BitmapInv, TypeOK
    <2>2. \A b \in 0..(Blocks - 1), w \in Words, i \in 0..(WordBits - 1) :
              Bit(b, w, i) \in bitmap
      BY <2>1 DEF BitmapInv, ScannedFull
    <2>3. \A x \in Bits : x \in bitmap
      BY <2>2, DecomposeBit
    <2> QED BY <2>3, Zenon DEF BitmapInv, TypeOK
  <1> QED BY <1>1, BitmapInvariant, PTL
=============================================================================
