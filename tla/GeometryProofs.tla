--------------------------- MODULE GeometryProofs ---------------------------
(* Every inode and every data block that CAFS can hand out has its place on   *)
(* the device, for every device and every number of inode bitmap blocks.      *)
EXTENDS Geometry, TLAPS

LEMMA DivMod ==
    ASSUME NEW n \in Nat, NEW d \in Nat, d > 0
    PROVE  /\ n \div d \in Nat /\ n % d \in 0..(d - 1)
           /\ n = (n \div d) * d + (n % d)
  BY SMT

LEMMA TimesMonotone ==
    ASSUME NEW a \in Nat, NEW b \in Nat, NEW d \in Nat, a <= b
    PROVE  a * d \in Nat /\ b * d \in Nat /\ a * d <= b * d
  <1>1. b - a \in Nat
    OBVIOUS
  <1>2. (b - a) * d >= 0
    BY <1>1
  <1>3. b * d = a * d + (b - a) * d
    OBVIOUS
  <1> QED BY <1>2, <1>3

\* A common positive factor can be dropped from a strict inequality.
LEMMA CancelFactor ==
    ASSUME NEW a \in Nat, NEW b \in Nat, NEW d \in Nat, d > 0, a * d < b * d
    PROVE  a < b
  <1> SUFFICES ASSUME b <= a PROVE FALSE
    OBVIOUS
  <1>1. b * d <= a * d /\ a * d \in Nat /\ b * d \in Nat
    BY TimesMonotone
  <1> QED BY <1>1

\* A block holds a whole number of inodes.
LEMMA InodesFill ==
    /\ inodes_per_block \in Nat /\ inodes_per_block > 0
    /\ BLOCK_SIZE = inodes_per_block * MetaSize
    /\ BLOCK_SIZE \in Nat /\ BLOCK_SIZE > 0
    /\ MetaSize \in Nat /\ MetaSize > 0
    /\ BLOCK_BITS \in Nat /\ BLOCK_BITS > 0
  <1>1. /\ BLOCK_SIZE \in Nat /\ BLOCK_SIZE > 0
        /\ MetaSize \in Nat /\ MetaSize > 0
        /\ BLOCK_BITS \in Nat /\ BLOCK_BITS > 0
        /\ BLOCK_SIZE % MetaSize = 0
    BY GeometryAssumption
  <1>2. inodes_per_block \in Nat /\ BLOCK_SIZE = inodes_per_block * MetaSize
    BY <1>1, DivMod DEF inodes_per_block
  <1>3. inodes_per_block # 0
    BY <1>1, <1>2
  <1> QED BY <1>1, <1>2, <1>3

\* The inode area has room for all the inodes of the bitmap.
LEMMA InodeAreaRoom ==
    ASSUME NEW ibb \in Nat
    PROVE  /\ inode_area_blocks(ibb) \in Nat
           /\ ibb * BLOCK_BITS \in Nat
           /\ ibb * BLOCK_BITS <= inode_area_blocks(ibb) * inodes_per_block
  <1> DEFINE m == ibb * BLOCK_BITS
             n == m * MetaSize + BLOCK_SIZE - 1
             a == n \div BLOCK_SIZE
  <1>1. m \in Nat
    BY InodesFill
  <1> HIDE DEF m
  <1>2. m * MetaSize \in Nat
    BY <1>1, InodesFill
  <1>3. n \in Nat
    BY <1>2, InodesFill
  <1>4. a \in Nat /\ n % BLOCK_SIZE \in 0..(BLOCK_SIZE - 1)
        /\ n = a * BLOCK_SIZE + (n % BLOCK_SIZE)
    BY <1>3, InodesFill, DivMod
  <1> HIDE DEF a
  <1>5. m * MetaSize <= a * BLOCK_SIZE
    <2>1. a * BLOCK_SIZE \in Nat
      BY <1>4, InodesFill
    <2> QED BY <1>2, <1>4, <2>1, InodesFill
  <1>6. a * BLOCK_SIZE = (a * inodes_per_block) * MetaSize
    BY <1>4, InodesFill
  <1>7. m <= a * inodes_per_block
    <2> SUFFICES ASSUME a * inodes_per_block < m PROVE FALSE
      BY <1>1, <1>4, InodesFill
    <2>1. a * inodes_per_block \in Nat
      BY <1>4, InodesFill
    <2>2. (a * inodes_per_block + 1) * MetaSize <= m * MetaSize
      BY <1>1, <2>1, InodesFill, TimesMonotone
    <2>3. (a * inodes_per_block + 1) * MetaSize = (a * inodes_per_block) * MetaSize + MetaSize
      BY <2>1, InodesFill
    <2> DEFINE c == (a * inodes_per_block) * MetaSize
               e == m * MetaSize
    <2>4. c \in Nat /\ e \in Nat
      BY <1>2, <2>1, InodesFill
    <2>5. c + MetaSize <= e /\ e <= c
      BY <1>5, <1>6, <2>2, <2>3
    <2> HIDE DEF c, e
    <2> QED BY <2>4, <2>5, InodesFill
  <1> QED BY <1>1, <1>4, <1>7 DEF inode_area_blocks, a, m

-----------------------------------------------------------------------------
\* The inductive invariant: the superblock divides the device without a gap, its
\* data area is what the data bitmap covers and less than a bitmap block more,
\* and the CAFS in memory is the one the superblock describes.
SuperOK ==
    super_block.magic =>
        LET s == super_block
        IN  /\ s \in SuperBlocks
            /\ s.inode_area_blocks = inode_area_blocks(s.inode_bitmap_blocks)
            /\ 1 + s.inode_bitmap_blocks + s.inode_area_blocks
                 + s.data_bitmap_blocks + s.data_area_blocks = device
            /\ s.data_bitmap_blocks * BLOCK_BITS <= s.data_area_blocks
            /\ s.data_area_blocks <= s.data_bitmap_blocks * BLOCK_BITS + BLOCK_BITS

FsOK ==
    fs.live =>
        LET s == super_block
            start == 1 + s.inode_bitmap_blocks + s.inode_area_blocks
        IN  /\ s.magic
            /\ fs = [live |-> TRUE,
                     inode_bitmap |-> Bitmap(1, s.inode_bitmap_blocks),
                     data_bitmap |-> Bitmap(start, s.data_bitmap_blocks),
                     inode_area_start_block |-> 1 + s.inode_bitmap_blocks,
                     data_area_start_block |-> start + s.data_bitmap_blocks]

GeometryInv == TypeOK /\ SuperOK /\ FsOK

LEMMA InitGeometryInv == Init => GeometryInv
  BY DEF Init, GeometryInv, TypeOK, SuperOK, FsOK, NoFs, NoSuperBlock

LEMMA initKeeps ==
    ASSUME GeometryInv, NEW ibb \in InodeBlocks, init(ibb)
    PROVE  GeometryInv'
  <1> DEFINE iab == inode_area_blocks(ibb)
             total == device - 1 - (ibb + iab)
             dbb == total \div (BLOCK_BITS + 1)
             s == [magic |-> TRUE, total_blocks |-> device,
                   inode_bitmap_blocks |-> ibb, inode_area_blocks |-> iab,
                   data_bitmap_blocks |-> dbb, data_area_blocks |-> total - dbb]
  <1>1. ibb \in Nat /\ device \in Nat /\ device' = device
    BY GeometryAssumption DEF GeometryInv, TypeOK, init, NoOverflow, data_total_blocks, data_bitmap_blocks
  <1>2. iab \in Nat
    BY <1>1, InodeAreaRoom
  <1> HIDE DEF iab
  <1>3. total \in Nat
    BY <1>1, <1>2 DEF init, NoOverflow, data_total_blocks, data_bitmap_blocks, iab
  <1>4. /\ dbb \in Nat
        /\ dbb * (BLOCK_BITS + 1) <= total
        /\ total <= dbb * (BLOCK_BITS + 1) + BLOCK_BITS
    BY <1>3, InodesFill, DivMod
  <1>5. super_block' = s
    BY DEF init, NoOverflow, data_total_blocks, data_bitmap_blocks, iab
  <1> HIDE DEF dbb
  <1>6. dbb * (BLOCK_BITS + 1) = dbb * BLOCK_BITS + dbb /\ dbb * BLOCK_BITS \in Nat
    BY <1>4, InodesFill
  <1> HIDE DEF total
  <1>7. total - dbb \in Nat /\ dbb * BLOCK_BITS <= total - dbb
        /\ total - dbb <= dbb * BLOCK_BITS + BLOCK_BITS
    BY <1>3, <1>4, <1>6, InodesFill
  <1>8. s \in SuperBlocks
    BY <1>1, <1>2, <1>4, <1>7 DEF SuperBlocks
  <1>9. SuperOK'
    <2>1. 1 + ibb + iab + dbb + (total - dbb) = device
      BY <1>1, <1>2, <1>3, <1>4 DEF total
    <2> QED BY <1>1, <1>5, <1>7, <1>8, <2>1 DEF SuperOK, iab
  <1>10. fs' = [live |-> TRUE,
                inode_bitmap |-> Bitmap(1, ibb),
                data_bitmap |-> Bitmap(1 + ibb + iab, dbb),
                inode_area_start_block |-> 1 + ibb,
                data_area_start_block |-> 1 + ibb + iab + dbb]
    <2>1. fs' = [live |-> TRUE,
                 inode_bitmap |-> Bitmap(1, ibb),
                 data_bitmap |-> Bitmap(1 + (ibb + iab), dbb),
                 inode_area_start_block |-> 1 + ibb,
                 data_area_start_block |-> 1 + (ibb + iab) + dbb]
      BY DEF init, NoOverflow, data_total_blocks, data_bitmap_blocks, iab, dbb, total
    <2>2. 1 + (ibb + iab) = 1 + ibb + iab
      BY <1>1, <1>2
    <2> QED BY <2>1, <2>2, Zenon
  <1>11. FsOK'
    BY <1>5, <1>10 DEF FsOK, Bitmap
  <1>12. TypeOK'
    <2>1. fs' \in FileSystems
      <3>1. 1 + ibb + iab \in Nat /\ 1 + ibb + iab + dbb \in Nat /\ 1 + ibb \in Nat
        BY <1>1, <1>2, <1>4
      <3> QED BY <1>1, <1>4, <1>10, <3>1 DEF FileSystems, Bitmap
    <2> QED BY <1>1, <1>5, <1>8, <2>1 DEF TypeOK, GeometryInv
  <1> QED BY <1>9, <1>11, <1>12 DEF GeometryInv

LEMMA openKeeps ==
    ASSUME GeometryInv, open
    PROVE  GeometryInv'
  <1> DEFINE s == super_block
             start == 1 + s.inode_bitmap_blocks + s.inode_area_blocks
  <1>1. super_block' = super_block /\ device' = device /\ s.magic /\ s \in SuperBlocks
    BY DEF open, GeometryInv, SuperOK
  <1>2. /\ s.inode_bitmap_blocks \in Nat /\ s.inode_area_blocks \in Nat
        /\ s.data_bitmap_blocks \in Nat
    BY <1>1 DEF SuperBlocks
  <1>3. fs' = [live |-> TRUE,
               inode_bitmap |-> Bitmap(1, s.inode_bitmap_blocks),
               data_bitmap |-> Bitmap(start, s.data_bitmap_blocks),
               inode_area_start_block |-> 1 + s.inode_bitmap_blocks,
               data_area_start_block |-> start + s.data_bitmap_blocks]
    <2>1. 1 + (s.inode_bitmap_blocks + s.inode_area_blocks) = start
      BY <1>2
    <2> QED BY <2>1, Zenon DEF open
  <1>4. fs' \in FileSystems
    <2>1. start \in Nat /\ start + s.data_bitmap_blocks \in Nat
      BY <1>2
    <2> QED BY <1>2, <1>3, <2>1 DEF FileSystems, Bitmap
  <1>5. SuperOK' /\ FsOK'
    BY <1>1, <1>3, Zenon DEF GeometryInv, SuperOK, FsOK, Bitmap, inode_area_blocks, SuperBlocks
  <1> QED BY <1>1, <1>4, <1>5, Zenon DEF GeometryInv, TypeOK, SuperBlocks

LEMMA GeometryInvariant == Spec => []GeometryInv
  <1>1. GeometryInv /\ [Next]_vars => GeometryInv'
    <2> SUFFICES ASSUME GeometryInv, [Next]_vars
                 PROVE  GeometryInv'
      OBVIOUS
    <2>1. CASE Close
      BY <2>1, Zenon DEF Close, GeometryInv, TypeOK, SuperOK, FsOK, NoFs, SuperBlocks, FileSystems,
                  inode_area_blocks
    <2>2. CASE UNCHANGED vars
      BY <2>2, Zenon DEF vars, GeometryInv, TypeOK, SuperOK, FsOK, SuperBlocks, FileSystems,
                  inode_area_blocks, Bitmap
    <2> QED BY <2>1, <2>2, initKeeps, openKeeps DEF Next
  <1> QED BY <1>1, InitGeometryInv, PTL DEF Spec

\* What the invariant says of a file system in memory.
LEMMA LiveFacts ==
    ASSUME GeometryInv, fs.live
    PROVE  LET s == super_block
               start == 1 + s.inode_bitmap_blocks + s.inode_area_blocks
           IN  /\ s.inode_bitmap_blocks \in Nat /\ s.inode_area_blocks \in Nat
               /\ s.data_bitmap_blocks \in Nat /\ s.data_area_blocks \in Nat
               /\ s.inode_area_blocks = inode_area_blocks(s.inode_bitmap_blocks)
               /\ start + s.data_bitmap_blocks + s.data_area_blocks = device
               /\ s.data_bitmap_blocks * BLOCK_BITS <= s.data_area_blocks
               /\ s.data_area_blocks <= s.data_bitmap_blocks * BLOCK_BITS + BLOCK_BITS
               /\ fs.inode_bitmap = Bitmap(1, s.inode_bitmap_blocks)
               /\ fs.data_bitmap = Bitmap(start, s.data_bitmap_blocks)
               /\ fs.inode_area_start_block = 1 + s.inode_bitmap_blocks
               /\ fs.data_area_start_block = start + s.data_bitmap_blocks
  <1> DEFINE s == super_block
             start == 1 + s.inode_bitmap_blocks + s.inode_area_blocks
  <1>1. /\ s.magic
        /\ fs = [live |-> TRUE,
                 inode_bitmap |-> Bitmap(1, s.inode_bitmap_blocks),
                 data_bitmap |-> Bitmap(start, s.data_bitmap_blocks),
                 inode_area_start_block |-> 1 + s.inode_bitmap_blocks,
                 data_area_start_block |-> start + s.data_bitmap_blocks]
    BY DEF GeometryInv, FsOK
  <1>2. /\ s \in SuperBlocks
        /\ s.inode_area_blocks = inode_area_blocks(s.inode_bitmap_blocks)
        /\ start + s.data_bitmap_blocks + s.data_area_blocks = device
        /\ s.data_bitmap_blocks * BLOCK_BITS <= s.data_area_blocks
        /\ s.data_area_blocks <= s.data_bitmap_blocks * BLOCK_BITS + BLOCK_BITS
    BY <1>1 DEF GeometryInv, SuperOK
  <1>3. /\ s.inode_bitmap_blocks \in Nat /\ s.inode_area_blocks \in Nat
        /\ s.data_bitmap_blocks \in Nat /\ s.data_area_blocks \in Nat
    BY <1>2 DEF SuperBlocks
  <1>4. /\ fs.inode_bitmap = Bitmap(1, s.inode_bitmap_blocks)
        /\ fs.data_bitmap = Bitmap(start, s.data_bitmap_blocks)
        /\ fs.inode_area_start_block = 1 + s.inode_bitmap_blocks
        /\ fs.data_area_start_block = start + s.data_bitmap_blocks
    BY <1>1
  <1> QED BY <1>2, <1>3, <1>4

-----------------------------------------------------------------------------
\* Whoever opened or made the file system, inode_pos_of places every inode that
\* the inode bitmap can hand out inside the inode area.
THEOREM InodesHavePlace == Spec => []InodesInPlace
  <1>1. GeometryInv => InodesInPlace
    <2> SUFFICES ASSUME GeometryInv, fs.live,
                        NEW id \in 0..(total_count(fs.inode_bitmap) - 1)
                 PROVE  LET pos == inode_pos_of(id)
                        IN  /\ pos.block_id >= fs.inode_bitmap.start_block_id
                                               + fs.inode_bitmap.blocks
                            /\ pos.block_id < fs.data_bitmap.start_block_id
                            /\ pos.offset + MetaSize <= BLOCK_SIZE
      BY DEF InodesInPlace
    <2> DEFINE ibb == super_block.inode_bitmap_blocks
               iab == super_block.inode_area_blocks
               q == id \div inodes_per_block
               r == id % inodes_per_block
    <2>1. /\ ibb \in Nat /\ iab \in Nat /\ iab = inode_area_blocks(ibb)
          /\ fs.inode_bitmap = Bitmap(1, ibb)
          /\ fs.data_bitmap = Bitmap(1 + ibb + iab, super_block.data_bitmap_blocks)
          /\ fs.inode_area_start_block = 1 + ibb
      BY LiveFacts
    <2>2. id \in Nat /\ id < ibb * BLOCK_BITS /\ ibb * BLOCK_BITS \in Nat
      BY <2>1, InodesFill DEF total_count, Bitmap
    <2>3. q \in Nat /\ r \in 0..(inodes_per_block - 1) /\ id = q * inodes_per_block + r
      BY <2>2, InodesFill, DivMod
    <2> HIDE DEF q, r
    <2>4. q < iab
      <3>1. ibb * BLOCK_BITS <= iab * inodes_per_block
        BY <2>1, InodeAreaRoom
      <3>2. q * inodes_per_block < iab * inodes_per_block
        <4>1. q * inodes_per_block \in Nat /\ iab * inodes_per_block \in Nat
          BY <2>1, <2>3, InodesFill
        <4> QED BY <2>2, <2>3, <3>1, <4>1, InodesFill
      <3> QED BY <2>1, <2>3, <3>2, InodesFill, CancelFactor
    <2>5. r * MetaSize + MetaSize <= BLOCK_SIZE
      <3>1. (r + 1) * MetaSize <= inodes_per_block * MetaSize
        BY <2>3, InodesFill, TimesMonotone
      <3>2. (r + 1) * MetaSize = r * MetaSize + MetaSize
        BY <2>3, InodesFill
      <3> QED BY <3>1, <3>2, InodesFill
    <2> QED BY <2>1, <2>3, <2>4, <2>5 DEF inode_pos_of, Bitmap, q, r
  <1> QED BY <1>1, GeometryInvariant, PTL

\* Every block that alloc_data can return exists on the device and belongs to
\* the data area.
THEOREM DataHasPlace == Spec => []DataInPlace
  <1>1. GeometryInv => DataInPlace
    <2> SUFFICES ASSUME GeometryInv, fs.live,
                        NEW bit \in 0..(total_count(fs.data_bitmap) - 1)
                 PROVE  /\ data_block(bit) < device
                        /\ data_block(bit) >= fs.data_bitmap.start_block_id
                                              + fs.data_bitmap.blocks
      BY DEF DataInPlace
    <2> DEFINE s == super_block
               start == 1 + s.inode_bitmap_blocks + s.inode_area_blocks
    <2>1. /\ s.inode_bitmap_blocks \in Nat /\ s.inode_area_blocks \in Nat
          /\ s.data_bitmap_blocks \in Nat /\ s.data_area_blocks \in Nat
          /\ fs.data_bitmap = Bitmap(start, s.data_bitmap_blocks)
          /\ fs.data_area_start_block = start + s.data_bitmap_blocks
          /\ start + s.data_bitmap_blocks + s.data_area_blocks = device
          /\ s.data_bitmap_blocks * BLOCK_BITS <= s.data_area_blocks
      BY LiveFacts
    <2>2. bit \in Nat /\ bit < s.data_area_blocks
      <3>1. s.data_bitmap_blocks * BLOCK_BITS \in Nat
        BY <2>1, InodesFill
      <3> QED BY <2>1, <3>1 DEF total_count, Bitmap
    <2> QED BY <2>1, <2>2 DEF data_block, Bitmap
  <1> QED BY <1>1, GeometryInvariant, PTL

\* CAFS::init gives the data bitmap as many blocks as the device can use.
THEOREM WasteIsSmall == Spec => []LittleWaste
  <1>1. GeometryInv => LittleWaste
    <2> SUFFICES ASSUME GeometryInv, fs.live
                 PROVE  device - data_block(total_count(fs.data_bitmap)) <= BLOCK_BITS
      BY DEF LittleWaste
    <2> DEFINE s == super_block
               start == 1 + s.inode_bitmap_blocks + s.inode_area_blocks
    <2>1. /\ s.inode_bitmap_blocks \in Nat /\ s.inode_area_blocks \in Nat
          /\ s.data_bitmap_blocks \in Nat /\ s.data_area_blocks \in Nat
          /\ fs.data_bitmap = Bitmap(start, s.data_bitmap_blocks)
          /\ fs.data_area_start_block = start + s.data_bitmap_blocks
          /\ start + s.data_bitmap_blocks + s.data_area_blocks = device
          /\ s.data_area_blocks <= s.data_bitmap_blocks * BLOCK_BITS + BLOCK_BITS
      BY LiveFacts
    <2>2. s.data_bitmap_blocks * BLOCK_BITS \in Nat
      BY <2>1, InodesFill
    <2> QED BY <2>1, <2>2, InodesFill DEF data_block, total_count, Bitmap
  <1> QED BY <1>1, GeometryInvariant, PTL
=============================================================================
