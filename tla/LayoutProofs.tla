---------------------------- MODULE LayoutProofs ----------------------------
(* The block counts of CAFS are right for every block size, every number of   *)
(* direct entries and every width of index blocks.                            *)
EXTENDS Layout, TLAPS

-----------------------------------------------------------------------------
\* Arithmetic

\* CeilDiv(x, d) is the least number of pieces of length d that cover x.
LEMMA CeilDivBounds ==
    ASSUME NEW x \in Nat, NEW d \in Nat, d > 0
    PROVE  /\ CeilDiv(x, d) \in Nat
           /\ x <= CeilDiv(x, d) * d
           /\ (CeilDiv(x, d) - 1) * d < x
  <1> DEFINE n == x + d - 1
             q == n \div d
  <1>1. n \in Nat
    OBVIOUS
  <1>2. q \in Nat /\ q * d <= n /\ n < (q + 1) * d
    <2>1. q \in Int /\ n % d \in 0..(d - 1) /\ n = d * q + (n % d)
      BY <1>1, SMT
    <2>2. q * d <= n /\ n < (q + 1) * d
      BY <2>1, <1>1, SMT
    <2>3. q >= 0
      BY <2>1, <1>1, SMT
    <2> QED BY <2>1, <2>2, <2>3
  <1> HIDE DEF q
  <1>3. x <= q * d /\ (q - 1) * d < x
    BY <1>2, SMT
  <1>4. q = CeilDiv(x, d)
    BY DEF q, CeilDiv
  <1> QED BY <1>2, <1>3, <1>4

\* A common positive factor can be dropped from a strict inequality.
LEMMA CancelFactor ==
    ASSUME NEW a \in Int, NEW b \in Int, NEW d \in Nat, d > 0, a * d < b * d
    PROVE  a < b
  <1> SUFFICES ASSUME b <= a PROVE FALSE
    OBVIOUS
  <1>1. PICK k \in Nat : a = b + k
    <2> WITNESS a - b \in Nat
    <2> QED OBVIOUS
  <1>2. a * d = b * d + k * d
    BY <1>1, SMT
  <1>3. k * d >= 0
    BY SMT
  <1> QED BY <1>2, <1>3, SMT

LEMMA CeilDivMonotone ==
    ASSUME NEW x \in Nat, NEW y \in Nat, x <= y, NEW d \in Nat, d > 0
    PROVE  CeilDiv(x, d) <= CeilDiv(y, d)
  <1> DEFINE p == CeilDiv(x, d)
             q == CeilDiv(y, d)
  <1>1. p \in Nat /\ (p - 1) * d < x
    BY CeilDivBounds
  <1>2. q \in Nat /\ y <= q * d
    BY CeilDivBounds
  <1> HIDE DEF p, q
  <1>3. (p - 1) * d < q * d
    <2>1. (p - 1) * d \in Int /\ q * d \in Int
      BY <1>1, <1>2
    <2> QED BY <1>1, <1>2, <2>1
  <1>4. p - 1 < q
    BY CancelFactor, <1>1, <1>2, <1>3
  <1> QED BY <1>1, <1>2, <1>4 DEF p, q

LEMMA CeilDivZero ==
    ASSUME NEW x \in Nat, NEW d \in Nat, d > 0
    PROVE  x > 0 => CeilDiv(x, d) > 0
  <1>1. CeilDiv(x, d) \in Nat /\ x <= CeilDiv(x, d) * d
    BY CeilDivBounds
  <1> QED BY <1>1, SMT

\* If c blocks of d bytes cover x, and p blocks of n times d bytes do too, each
\* as few as possible, then p nodes of n entries are what the c blocks need.
LEMMA CeilDivNested ==
    ASSUME NEW x \in Nat, NEW d \in Nat, d > 0, x > 0
    PROVE  Fits(CeilDiv(x, d), CeilDiv(x, INDIRECT_LEN * d))
  <1> DEFINE e == INDIRECT_LEN * d
             c == CeilDiv(x, d)
             p == CeilDiv(x, e)
  <1>1. INDIRECT_LEN \in Nat /\ INDIRECT_LEN > 0
    BY LevelAssumption
  <1>2. e \in Nat /\ e > 0
    BY <1>1
  <1>3. c \in Nat /\ x <= c * d /\ (c - 1) * d < x
    BY CeilDivBounds
  <1> HIDE DEF e
  <1>4. p \in Nat /\ x <= p * e /\ (p - 1) * e < x
    BY CeilDivBounds, <1>2
  <1> HIDE DEF c, p
  <1>5. p * e = (p * INDIRECT_LEN) * d /\ (p - 1) * e = ((p - 1) * INDIRECT_LEN) * d
    BY <1>1, <1>4 DEF e
  <1>6. p * INDIRECT_LEN \in Int /\ (p - 1) * INDIRECT_LEN \in Int /\ c - 1 \in Int
    BY <1>1, <1>3, <1>4
  <1>7. c - 1 < p * INDIRECT_LEN
    <2>1. (c - 1) * d < (p * INDIRECT_LEN) * d
      BY <1>3, <1>4, <1>5, <1>6
    <2> QED BY <2>1, <1>6, CancelFactor
  <1>8. (p - 1) * INDIRECT_LEN < c
    <2>1. ((p - 1) * INDIRECT_LEN) * d < c * d
      BY <1>3, <1>4, <1>5, <1>6
    <2> QED BY <2>1, <1>3, <1>6, CancelFactor
  <1>9. c <= p * INDIRECT_LEN
    BY <1>3, <1>6, <1>7
  <1> QED BY <1>8, <1>9 DEF Fits, c, p, e

\* The sizes at which the tree grows by a level, in ascending order.
LEMMA LevelBounds ==
    /\ BLOCK_SIZE \in Nat /\ BLOCK_SIZE > 0
    /\ BLOCK_TABLE_INDIRECT_MAX \in Nat /\ BLOCK_TABLE_INDIRECT_MAX >= BLOCK_SIZE
    /\ BLOCK_DIRECTORY_INDIRECT_MAX \in Nat
    /\ BLOCK_DIRECTORY_INDIRECT_MAX >= BLOCK_TABLE_INDIRECT_MAX
    /\ L3_INDIRECT_MAX \in Nat /\ L3_INDIRECT_MAX >= BLOCK_DIRECTORY_INDIRECT_MAX
    /\ L4_INDIRECT_MAX \in Nat /\ L4_INDIRECT_MAX >= L3_INDIRECT_MAX
    /\ DIRECT_MAX \in Nat
    /\ BLOCK_TABLE_MAX = DIRECT_MAX + BLOCK_TABLE_INDIRECT_MAX
    /\ BLOCK_DIRECTORY_MAX = DIRECT_MAX + BLOCK_DIRECTORY_INDIRECT_MAX
    /\ L3_MAX = DIRECT_MAX + L3_INDIRECT_MAX
    /\ L4_MAX = DIRECT_MAX + L4_INDIRECT_MAX
    /\ BLOCK_TABLE_INDIRECT_MAX = INDIRECT_LEN * BLOCK_SIZE
    /\ BLOCK_DIRECTORY_INDIRECT_MAX = INDIRECT_LEN * BLOCK_TABLE_INDIRECT_MAX
    /\ L3_INDIRECT_MAX = INDIRECT_LEN * BLOCK_DIRECTORY_INDIRECT_MAX
    /\ L4_INDIRECT_MAX = INDIRECT_LEN * L3_INDIRECT_MAX
  <1>1. /\ BLOCK_SIZE \in Nat /\ BLOCK_SIZE > 0
        /\ DIRECT_COUNT \in Nat
        /\ INDIRECT_LEN \in Nat /\ INDIRECT_LEN > 1
    BY LevelAssumption
  <1>2. ASSUME NEW m \in Nat PROVE INDIRECT_LEN * m \in Nat /\ INDIRECT_LEN * m >= m
    BY <1>1
  <1>3. DIRECT_MAX \in Nat
    BY <1>1 DEF DIRECT_MAX
  <1>4. /\ BLOCK_TABLE_INDIRECT_MAX = INDIRECT_LEN * BLOCK_SIZE
        /\ BLOCK_DIRECTORY_INDIRECT_MAX = INDIRECT_LEN * BLOCK_TABLE_INDIRECT_MAX
        /\ L3_INDIRECT_MAX = INDIRECT_LEN * BLOCK_DIRECTORY_INDIRECT_MAX
        /\ L4_INDIRECT_MAX = INDIRECT_LEN * L3_INDIRECT_MAX
    BY <1>1 DEF BLOCK_TABLE_INDIRECT_MAX, BLOCK_DIRECTORY_INDIRECT_MAX,
                L3_INDIRECT_MAX, L4_INDIRECT_MAX
  <1>5. /\ BLOCK_TABLE_INDIRECT_MAX \in Nat /\ BLOCK_TABLE_INDIRECT_MAX >= BLOCK_SIZE
        /\ BLOCK_DIRECTORY_INDIRECT_MAX \in Nat
        /\ BLOCK_DIRECTORY_INDIRECT_MAX >= BLOCK_TABLE_INDIRECT_MAX
    BY <1>1, <1>2, <1>4
  <1>6. /\ L3_INDIRECT_MAX \in Nat /\ L3_INDIRECT_MAX >= BLOCK_DIRECTORY_INDIRECT_MAX
        /\ L4_INDIRECT_MAX \in Nat /\ L4_INDIRECT_MAX >= L3_INDIRECT_MAX
    BY <1>2, <1>4, <1>5
  <1> QED BY <1>1, <1>3, <1>4, <1>5, <1>6
          DEF BLOCK_TABLE_MAX, BLOCK_DIRECTORY_MAX, L3_MAX, L4_MAX

\* A node that covers x by itself is the only one of its level.
LEMMA CeilDivOne ==
    ASSUME NEW x \in Nat, NEW d \in Nat, d > 0, x > 0, x <= d
    PROVE  CeilDiv(x, d) = 1
  <1> DEFINE q == CeilDiv(x, d)
  <1>1. q \in Nat /\ x <= q * d /\ (q - 1) * d < x
    BY CeilDivBounds
  <1> HIDE DEF q
  <1>2. (q - 1) * d < 1 * d
    BY <1>1
  <1>3. q - 1 < 1
    BY <1>1, <1>2, CancelFactor
  <1>4. q # 0
    BY <1>1
  <1> QED BY <1>1, <1>3, <1>4 DEF q

-----------------------------------------------------------------------------
\* The block counts

\* How many index blocks a size calls for, one line for each height of the tree.
LEMMA IndexCount ==
    ASSUME NEW s \in Nat
    PROVE  LET x == s - DIRECT_MAX
               t == CeilDiv(x, BLOCK_TABLE_INDIRECT_MAX)
               d == CeilDiv(x, BLOCK_DIRECTORY_INDIRECT_MAX)
               l == CeilDiv(x, L3_INDIRECT_MAX)
           IN  /\ s <= DIRECT_MAX => index_count(s) = 0
               /\ s > DIRECT_MAX /\ s <= BLOCK_TABLE_MAX => index_count(s) = 1
               /\ s > BLOCK_TABLE_MAX /\ s <= BLOCK_DIRECTORY_MAX => index_count(s) = 1 + t
               /\ s > BLOCK_DIRECTORY_MAX /\ s <= L3_MAX => index_count(s) = 1 + d + t
               /\ s > L3_MAX => index_count(s) = 1 + l + d + t
               /\ s > DIRECT_MAX => x \in Nat /\ x > 0 /\ t \in Nat /\ d \in Nat /\ l \in Nat
  <1> DEFINE x == s - DIRECT_MAX
             t == CeilDiv(x, BLOCK_TABLE_INDIRECT_MAX)
             d == CeilDiv(x, BLOCK_DIRECTORY_INDIRECT_MAX)
             l == CeilDiv(x, L3_INDIRECT_MAX)
  <1>1. s > DIRECT_MAX => x \in Nat /\ x > 0 /\ indirect_size(s) = x
    BY LevelBounds DEF indirect_size
  <1>2. s > DIRECT_MAX => t \in Nat /\ d \in Nat /\ l \in Nat
    BY LevelBounds, CeilDivBounds, <1>1
  <1>3. CASE s <= DIRECT_MAX
    BY <1>3, LevelBounds DEF index_count, index_block_count, index_blocks
  <1>4. CASE s > DIRECT_MAX /\ s <= BLOCK_TABLE_MAX
    BY <1>1, <1>2, <1>4, LevelBounds DEF index_count, index_block_count, index_blocks
  <1>5. CASE s > BLOCK_TABLE_MAX /\ s <= BLOCK_DIRECTORY_MAX
    BY <1>1, <1>2, <1>5, LevelBounds DEF index_count, index_block_count, index_blocks
  <1>6. CASE s > BLOCK_DIRECTORY_MAX /\ s <= L3_MAX
    BY <1>1, <1>2, <1>6, LevelBounds DEF index_count, index_block_count, index_blocks
  <1>7. CASE s > L3_MAX
    BY <1>1, <1>2, <1>7, LevelBounds DEF index_count, index_block_count, index_blocks
  <1> QED BY <1>3, <1>4, <1>5, <1>6, <1>7, LevelBounds

\* Meta::index_blocks never asks for fewer index blocks for a larger file.
LEMMA IndexCountMonotone ==
    ASSUME NEW a \in Nat, NEW b \in Nat, a <= b
    PROVE  /\ index_count(a) \in Nat
           /\ index_count(b) \in Nat
           /\ index_count(a) <= index_count(b)
  <1> DEFINE T(s) == CeilDiv(s - DIRECT_MAX, BLOCK_TABLE_INDIRECT_MAX)
             D(s) == CeilDiv(s - DIRECT_MAX, BLOCK_DIRECTORY_INDIRECT_MAX)
             L(s) == CeilDiv(s - DIRECT_MAX, L3_INDIRECT_MAX)
             Count(s) ==
               /\ s <= DIRECT_MAX => index_count(s) = 0
               /\ s > DIRECT_MAX /\ s <= BLOCK_TABLE_MAX => index_count(s) = 1
               /\ s > BLOCK_TABLE_MAX /\ s <= BLOCK_DIRECTORY_MAX => index_count(s) = 1 + T(s)
               /\ s > BLOCK_DIRECTORY_MAX /\ s <= L3_MAX => index_count(s) = 1 + D(s) + T(s)
               /\ s > L3_MAX => index_count(s) = 1 + L(s) + D(s) + T(s)
               /\ s > DIRECT_MAX => T(s) \in Nat /\ D(s) \in Nat /\ L(s) \in Nat
  <1>1. Count(a) /\ Count(b)
    BY IndexCount
  <1>2. a > DIRECT_MAX => T(a) <= T(b) /\ D(a) <= D(b) /\ L(a) <= L(b)
    BY CeilDivMonotone, LevelBounds
  <1> HIDE DEF T, D, L
  <1> QED BY <1>1, <1>2, LevelBounds

\* The same for the data blocks.
LEMMA DataBlocksMonotone ==
    ASSUME NEW a \in Nat, NEW b \in Nat, a <= b
    PROVE  /\ data_blocks(a) \in Nat
           /\ data_blocks(b) \in Nat
           /\ data_blocks(a) <= data_blocks(b)
  BY LevelBounds, CeilDivBounds, CeilDivMonotone, Zenon DEF data_blocks

\* The first DIRECT_MAX bytes take DIRECT_COUNT blocks, the others as many as
\* they would take alone.
LEMMA DataBlocksBeyondDirect ==
    ASSUME NEW s \in Nat, s > DIRECT_MAX
    PROVE  data_blocks(s) - DIRECT_COUNT = CeilDiv(s - DIRECT_MAX, BLOCK_SIZE)
  <1> DEFINE x == s - DIRECT_MAX
             p == CeilDiv(s, BLOCK_SIZE)
             q == CeilDiv(x, BLOCK_SIZE)
  <1>1. x \in Nat /\ DIRECT_COUNT \in Nat /\ DIRECT_MAX = DIRECT_COUNT * BLOCK_SIZE
        /\ BLOCK_SIZE \in Nat /\ BLOCK_SIZE > 0
    BY LevelBounds, LevelAssumption DEF DIRECT_MAX
  <1>2. p \in Nat /\ s <= p * BLOCK_SIZE /\ (p - 1) * BLOCK_SIZE < s
    BY <1>1, CeilDivBounds
  <1>3. q \in Nat /\ x <= q * BLOCK_SIZE /\ (q - 1) * BLOCK_SIZE < x
    BY <1>1, CeilDivBounds
  <1>4. s = x + DIRECT_COUNT * BLOCK_SIZE
    BY <1>1
  <1> HIDE DEF p, q, x
  <1>5. p - 1 < q + DIRECT_COUNT
    <2>1. (p - 1) * BLOCK_SIZE < (q + DIRECT_COUNT) * BLOCK_SIZE
      BY <1>1, <1>2, <1>3, <1>4
    <2> QED BY <1>1, <1>2, <1>3, <2>1, CancelFactor
  <1>6. q + DIRECT_COUNT - 1 < p
    <2>1. (q + DIRECT_COUNT - 1) * BLOCK_SIZE < p * BLOCK_SIZE
      BY <1>1, <1>2, <1>3, <1>4
    <2>2. q + DIRECT_COUNT - 1 \in Int
      BY <1>1, <1>3
    <2> QED BY <1>1, <1>2, <2>1, <2>2, CancelFactor
  <1>7. p - DIRECT_COUNT = q
    BY <1>1, <1>2, <1>3, <1>5, <1>6
  <1> QED BY <1>7 DEF data_blocks, p, q, x

-----------------------------------------------------------------------------
\* The invariants

LEMMA SizesAreNat == \A s \in Sizes : s \in Nat /\ s <= L4_MAX
  BY LayoutAssumption, LevelBounds

\* Meta::forward leaves the size that it is given in the inode.
LEMMA ForwardSize ==
    ASSUME NEW s, NEW info, NEW index, NEW data
    PROVE  forward(s, info, index, data).meta.size = s
  BY DEF forward

\* The size of an inode is one that a caller asked for.
LEMMA SizeIsAsked == Spec => [](meta.size \in Sizes)
  <1>1. Init => meta.size \in Sizes
    BY LayoutAssumption DEF Init, EmptyMeta
  <1>2. meta.size \in Sizes /\ [Next]_vars => (meta.size \in Sizes)'
    <2> SUFFICES ASSUME meta.size \in Sizes, [Next]_vars
                 PROVE  meta.size' \in Sizes
      OBVIOUS
    <2>1. ASSUME NEW n \in Sizes, extend(n)
          PROVE  meta.size' \in Sizes
      <3>1. PICK index, data : meta' = forward(n, index_blocks(n), index, data).meta
        BY <2>1 DEF extend
      <3> QED BY <3>1, ForwardSize
    <2>2. ASSUME NEW n \in Sizes, shrink(n)
          PROVE  meta.size' \in Sizes
      <3>1. PICK index, data : meta' = forward(n, index_blocks(n), index, data).meta
        BY <2>2 DEF shrink
      <3> QED BY <3>1, ForwardSize
    <2>3. CASE clear_size
      BY <2>3, LayoutAssumption DEF clear_size, EmptyMeta
    <2>4. CASE OtherAlloc \/ (\E id \in others : OtherFree(id)) \/ UNCHANGED vars
      BY <2>4 DEF OtherAlloc, OtherFree, vars
    <2> QED BY <2>1, <2>2, <2>3, <2>4 DEF Next
  <1> QED BY <1>1, <1>2, PTL DEF Spec

\* Between any two sizes the counts differ by natural numbers.
LEMMA DifferenceIsNat ==
    ASSUME NEW a \in Nat, NEW b \in Nat, a <= b
    PROVE  Difference(a, b).data >= 0 /\ Difference(a, b).index >= 0
  BY DataBlocksMonotone, IndexCountMonotone DEF Difference

\* Whatever sequence of sizes is written to a file, no subtraction of block
\* counts in CAFS::write or Meta::shrink underflows.
THEOREM CountsNeverUnderflow == Spec => []NoUnderflow
  <1>1. meta.size \in Sizes => NoUnderflow
    BY SizesAreNat, LevelBounds, DifferenceIsNat DEF NoUnderflow
  <1> QED BY <1>1, SizeIsAsked, PTL

\* The tree that Meta::index_blocks lays out for any size up to L4_MAX has one
\* root, and each of its levels is as wide as the level below needs.
LEMMA LevelsFitAnySize ==
    meta.size \in Nat /\ meta.size <= L4_MAX => LevelsFit
  <1> SUFFICES ASSUME NEW size \in Nat, size = meta.size, size <= L4_MAX
               PROVE  LevelsFit
    OBVIOUS
  <1> DEFINE x == size - DIRECT_MAX
             b == CeilDiv(x, BLOCK_SIZE)
             t == CeilDiv(x, BLOCK_TABLE_INDIRECT_MAX)
             d == CeilDiv(x, BLOCK_DIRECTORY_INDIRECT_MAX)
             l == CeilDiv(x, L3_INDIRECT_MAX)
             i == index_blocks(size)
  <1>1. CASE size <= DIRECT_MAX
    <2>1. /\ i.l4 = 0 /\ i.l3 = 0 /\ i.block_directory = 0 /\ i.block_table = 0
          /\ i.direct = data_blocks(size)
      BY <1>1, LevelBounds DEF index_blocks
    <2>2. data_blocks(size) \in Nat
      BY DataBlocksMonotone
    <2> QED BY <2>1, <2>2 DEF LevelsFit
  <1>2. CASE size > DIRECT_MAX
    <2>1. x \in Nat /\ x > 0 /\ indirect_size(size) = x /\ i.direct = DIRECT_COUNT
      BY <1>2, LevelBounds DEF indirect_size, index_blocks
    <2>2. /\ t \in Nat /\ t > 0 /\ Fits(b, t)
          /\ d \in Nat /\ d > 0 /\ Fits(t, d)
          /\ l \in Nat /\ l > 0 /\ Fits(d, l)
      <3> DEFINE M == {BLOCK_TABLE_INDIRECT_MAX, BLOCK_DIRECTORY_INDIRECT_MAX, L3_INDIRECT_MAX}
      <3>1. \A m \in M : m \in Nat /\ m > 0
        BY LevelBounds
      <3>2. \A m \in M : CeilDiv(x, m) \in Nat
        BY <2>1, <3>1, CeilDivBounds, Zenon
      <3>3. t \in Nat /\ d \in Nat /\ l \in Nat
        BY <3>2, Zenon
      <3>4. t > 0 /\ d > 0 /\ l > 0
        BY <2>1, LevelBounds, CeilDivZero
      <3>5. Fits(b, t)
        BY <2>1, LevelBounds, CeilDivNested
      <3>6. Fits(t, d)
        BY <2>1, LevelBounds, CeilDivNested
      <3>7. Fits(d, l)
        BY <2>1, LevelBounds, CeilDivNested
      <3> QED BY <3>3, <3>4, <3>5, <3>6, <3>7
    <2>3. data_blocks(size) - i.direct = b
      BY <1>2, <2>1, DataBlocksBeyondDirect
    <2>4. /\ x <= BLOCK_TABLE_INDIRECT_MAX => t = 1
          /\ x <= BLOCK_DIRECTORY_INDIRECT_MAX => d = 1
          /\ x <= L3_INDIRECT_MAX => l = 1
      BY <2>1, LevelBounds, CeilDivOne
    <2>5. Fits(l, 1)
      <3>1. CeilDiv(x, INDIRECT_LEN * L3_INDIRECT_MAX) = 1
        BY <2>1, LevelBounds, CeilDivOne
      <3> QED BY <2>1, <3>1, LevelBounds, CeilDivNested
    <2> HIDE DEF b, t, d, l
    <2>6. CASE size > L3_MAX
      <3>1. i.l4 = 1 /\ i.l3 = l /\ i.block_directory = d /\ i.block_table = t
        BY <2>1, <2>6, LevelBounds DEF index_blocks, t, d, l
      <3> QED BY <2>2, <2>3, <2>5, <3>1 DEF LevelsFit
    <2>7. CASE size > BLOCK_DIRECTORY_MAX /\ size <= L3_MAX
      <3>1. i.l4 = 0 /\ i.l3 = 1 /\ i.block_directory = d /\ i.block_table = t
        BY <2>1, <2>7, LevelBounds DEF index_blocks, t, d, l
      <3>2. l = 1
        BY <2>4, <2>7, LevelBounds
      <3> QED BY <2>2, <2>3, <3>1, <3>2 DEF LevelsFit
    <2>8. CASE size > BLOCK_TABLE_MAX /\ size <= BLOCK_DIRECTORY_MAX
      <3>1. i.l4 = 0 /\ i.l3 = 0 /\ i.block_directory = 1 /\ i.block_table = t
        BY <2>1, <2>8, LevelBounds DEF index_blocks, t, d, l
      <3>2. d = 1
        BY <2>4, <2>8, LevelBounds
      <3> QED BY <2>2, <2>3, <3>1, <3>2 DEF LevelsFit
    <2>9. CASE size <= BLOCK_TABLE_MAX
      <3>1. i.l4 = 0 /\ i.l3 = 0 /\ i.block_directory = 0 /\ i.block_table = 1
        BY <1>2, <2>1, <2>9, LevelBounds DEF index_blocks, t, d, l
      <3>2. t = 1
        BY <2>4, <2>9, LevelBounds
      <3> QED BY <2>2, <2>3, <3>1, <3>2 DEF LevelsFit
    <2> QED BY <2>6, <2>7, <2>8, <2>9, LevelBounds
  <1> QED BY <1>1, <1>2, LevelBounds

\* Whatever sequence of sizes is written to a file, Meta::forward can fill the
\* tree that Meta::index_blocks asks for.
THEOREM TreeAlwaysFits == Spec => []LevelsFit
  <1>1. meta.size \in Sizes => LevelsFit
    BY SizesAreNat, LevelsFitAnySize
  <1> QED BY <1>1, SizeIsAsked, PTL
=============================================================================
