------------------------------ MODULE Geometry ------------------------------
(* fs/src/cafs/mod.rs: how CAFS::init divides a device into superblock, inode *)
(* bitmap, inode area, data bitmap and data area, how CAFS::open finds them   *)
(* again from the superblock, and where inodes and data blocks are placed.    *)
EXTENDS Integers

CONSTANTS
    BLOCK_SIZE, \* 512 in the code
    BLOCK_BITS, \* 8 * BLOCK_SIZE in the code
    MetaSize,   \* size_of::<Meta>(), 512 in the code
    Devices,    \* the numbers of blocks a device may have
    InodeBlocks \* the numbers of inode bitmap blocks callers ask for

ASSUME GeometryAssumption ==
    /\ BLOCK_BITS \in Nat \ {0}
    /\ MetaSize \in Nat \ {0}
    /\ BLOCK_SIZE \in Nat \ {0}
    /\ BLOCK_SIZE % MetaSize = 0
    /\ Devices \subseteq Nat
    /\ InodeBlocks \subseteq Nat \ {0}

VARIABLES
    device,      \* blocks of the device at hand
    super_block, \* its SuperBlock, or NoSuperBlock
    fs           \* the fields of the CAFS in memory, or NoFs

vars == <<device, super_block, fs>>

NoSuperBlock == [magic |-> FALSE]
NoFs == [live |-> FALSE]

\* A Bitmap: its first block and its number of blocks.
Bitmap(start_block_id, blocks) == [start_block_id |-> start_block_id, blocks |-> blocks]
total_count(bitmap) == bitmap.blocks * BLOCK_BITS

inode_area_blocks(ibb) == (ibb * BLOCK_BITS * MetaSize + BLOCK_SIZE - 1) \div BLOCK_SIZE

SuperBlocks ==
    [magic : {TRUE}, total_blocks : Nat, inode_bitmap_blocks : Nat,
     inode_area_blocks : Nat, data_bitmap_blocks : Nat, data_area_blocks : Nat]
FileSystems ==
    [live : {TRUE},
     inode_bitmap : [start_block_id : Nat, blocks : Nat],
     data_bitmap : [start_block_id : Nat, blocks : Nat],
     inode_area_start_block : Nat, data_area_start_block : Nat]

TypeOK ==
    /\ device \in Devices
    /\ super_block \in SuperBlocks \cup {NoSuperBlock}
    /\ fs \in FileSystems \cup {NoFs}

-----------------------------------------------------------------------------
\* A device without a file system.
Init ==
    /\ device \in Devices
    /\ super_block = NoSuperBlock
    /\ fs = NoFs

\* Mutant: the data bitmap has a bit for every block, its own included.
bitmap_for_all(n) == (n + BLOCK_BITS - 1) \div BLOCK_BITS

\* The blocks after the inode area, and how many of them are the data bitmap.
data_total_blocks(ibb) == device - 1 - (ibb + inode_area_blocks(ibb))
data_bitmap_blocks(n) == n \div (BLOCK_BITS + 1)

\* The subtraction of unsigned numbers does not overflow.
NoOverflow(n) == n >= 0

\* CAFS::init; it stops on the subtraction when the inodes alone do not fit.
init(ibb) ==
    LET iab == inode_area_blocks(ibb)
        inode_total_blocks == ibb + iab
        total == data_total_blocks(ibb)
        dbb == data_bitmap_blocks(total)
    IN  /\ ~fs.live
        /\ NoOverflow(total)
        /\ super_block' = [magic |-> TRUE, total_blocks |-> device,
                           inode_bitmap_blocks |-> ibb, inode_area_blocks |-> iab,
                           data_bitmap_blocks |-> dbb,
                           data_area_blocks |-> total - dbb]
        /\ fs' = [live |-> TRUE,
                  inode_bitmap |-> Bitmap(1, ibb),
                  data_bitmap |-> Bitmap(1 + inode_total_blocks, dbb),
                  inode_area_start_block |-> 1 + ibb,
                  data_area_start_block |-> 1 + inode_total_blocks + dbb]
        /\ UNCHANGED device

\* CAFS::open on a device that init has written.
open ==
    LET inode_total_blocks == super_block.inode_bitmap_blocks + super_block.inode_area_blocks
    IN  /\ ~fs.live
        /\ super_block.magic
        /\ fs' = [live |-> TRUE,
                  inode_bitmap |-> Bitmap(1, super_block.inode_bitmap_blocks),
                  data_bitmap |-> Bitmap(1 + inode_total_blocks, super_block.data_bitmap_blocks),
                  inode_area_start_block |-> 1 + super_block.inode_bitmap_blocks,
                  data_area_start_block |-> 1 + inode_total_blocks
                                              + super_block.data_bitmap_blocks]
        /\ UNCHANGED <<device, super_block>>

\* The CAFS is dropped; the device stays.
Close ==
    /\ fs.live
    /\ fs' = NoFs
    /\ UNCHANGED <<device, super_block>>

Next == open \/ Close \/ \E ibb \in InodeBlocks : init(ibb)

Spec == Init /\ [][Next]_vars

-----------------------------------------------------------------------------
\* CAFS::inode_pos_of
inodes_per_block == BLOCK_SIZE \div MetaSize

\* Mutant: one inode to a block, whatever its size.
inode_pos_one(id) == [block_id |-> fs.inode_area_start_block + id, offset |-> 0]

inode_pos_of(id) ==
    [block_id |-> fs.inode_area_start_block + (id \div inodes_per_block),
     offset |-> (id % inodes_per_block) * MetaSize]

\* The block that CAFS::alloc_data returns for a bit of the data bitmap.
data_block(bit) == bit + fs.data_area_start_block

\* Every inode that the inode bitmap can hand out lies, as a whole, in a block
\* after that bitmap and before the data bitmap.
InodesInPlace ==
    fs.live =>
        \A id \in 0..(total_count(fs.inode_bitmap) - 1) :
            LET pos == inode_pos_of(id)
            IN  /\ pos.block_id >= fs.inode_bitmap.start_block_id + fs.inode_bitmap.blocks
                /\ pos.block_id < fs.data_bitmap.start_block_id
                /\ pos.offset + MetaSize <= BLOCK_SIZE

\* Every block that the data bitmap can hand out exists on the device (the
\* assertion of BlockDevice implementations) and lies after that bitmap, so that
\* file contents never overwrite the superblock, an inode or a bitmap.
DataInPlace ==
    fs.live =>
        \A bit \in 0..(total_count(fs.data_bitmap) - 1) :
            /\ data_block(bit) < device
            /\ data_block(bit) >= fs.data_bitmap.start_block_id + fs.data_bitmap.blocks

\* The data bitmap leaves fewer blocks of the device unused than one more of its
\* blocks would make usable.
LittleWaste ==
    fs.live => device - data_block(total_count(fs.data_bitmap)) <= BLOCK_BITS
=============================================================================
