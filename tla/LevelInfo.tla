----------------------------- MODULE LevelInfo ------------------------------
(* fs/src/cafs/layout.rs: how many data and index blocks a file of a given    *)
(* size needs.  A file has DIRECT_COUNT direct blocks; the rest hangs under   *)
(* one indirect block, the root of a tree of up to four levels (BlockTable,   *)
(* BlockDirectory, L3, L4) whose nodes have INDIRECT_LEN entries.             *)
EXTENDS Integers

CONSTANTS
    BLOCK_SIZE,   \* bytes of a block, 512 in the code
    DIRECT_COUNT, \* 36 in the code
    INDIRECT_LEN  \* BLOCK_SIZE / 8 - 1 in the code

ASSUME LevelAssumption ==
    /\ BLOCK_SIZE \in Nat \ {0}
    /\ DIRECT_COUNT \in Nat \ {0}
    /\ INDIRECT_LEN \in Nat \ {0, 1}

\* Mutant: division that rounds down.
FloorDiv(a, b) == a \div b

CeilDiv(a, b) == (a + b - 1) \div b

DIRECT_MAX == DIRECT_COUNT * BLOCK_SIZE
BLOCK_TABLE_INDIRECT_MAX == INDIRECT_LEN * BLOCK_SIZE
BLOCK_DIRECTORY_INDIRECT_MAX == INDIRECT_LEN * INDIRECT_LEN * BLOCK_SIZE
L3_INDIRECT_MAX == INDIRECT_LEN * INDIRECT_LEN * INDIRECT_LEN * BLOCK_SIZE
L4_INDIRECT_MAX ==
    INDIRECT_LEN * INDIRECT_LEN * INDIRECT_LEN * INDIRECT_LEN * BLOCK_SIZE
BLOCK_TABLE_MAX == DIRECT_MAX + BLOCK_TABLE_INDIRECT_MAX
BLOCK_DIRECTORY_MAX == DIRECT_MAX + BLOCK_DIRECTORY_INDIRECT_MAX
L3_MAX == DIRECT_MAX + L3_INDIRECT_MAX
L4_MAX == DIRECT_MAX + L4_INDIRECT_MAX

\* Meta::_data_blocks
data_blocks(size) == CeilDiv(size, BLOCK_SIZE)

indirect_size(size) == IF size >= DIRECT_MAX THEN size - DIRECT_MAX ELSE 0

\* Mutant: the tables below an L4 root are not counted.
index_blocks_bare(size) ==
    LET ind == indirect_size(size)
        block_table_len == CeilDiv(ind, BLOCK_TABLE_INDIRECT_MAX)
        block_directory_len == CeilDiv(ind, BLOCK_DIRECTORY_INDIRECT_MAX)
        l3_len == CeilDiv(ind, L3_INDIRECT_MAX)
        Info(l4, l3, dir, table) ==
            [l4 |-> l4, l3 |-> l3, block_directory |-> dir, block_table |-> table,
             direct |-> IF size > DIRECT_MAX THEN DIRECT_COUNT ELSE data_blocks(size)]
    IN  CASE size > L3_MAX -> Info(1, l3_len, block_directory_len, 0)
          [] size > BLOCK_DIRECTORY_MAX /\ size <= L3_MAX ->
                Info(0, 1, block_directory_len, block_table_len)
          [] size > BLOCK_TABLE_MAX /\ size <= BLOCK_DIRECTORY_MAX ->
                Info(0, 0, 1, block_table_len)
          [] size > DIRECT_MAX /\ size <= BLOCK_TABLE_MAX -> Info(0, 0, 0, 1)
          [] size <= DIRECT_MAX -> Info(0, 0, 0, 0)

\* Meta::index_blocks
index_blocks(size) ==
    LET ind == indirect_size(size)
        block_table_len == CeilDiv(ind, BLOCK_TABLE_INDIRECT_MAX)
        block_directory_len == CeilDiv(ind, BLOCK_DIRECTORY_INDIRECT_MAX)
        l3_len == CeilDiv(ind, L3_INDIRECT_MAX)
        Info(l4, l3, dir, table) ==
            [l4 |-> l4, l3 |-> l3, block_directory |-> dir, block_table |-> table,
             direct |-> IF size > DIRECT_MAX THEN DIRECT_COUNT ELSE data_blocks(size)]
    IN  CASE size > L3_MAX -> Info(1, l3_len, block_directory_len, block_table_len)
          [] size > BLOCK_DIRECTORY_MAX /\ size <= L3_MAX ->
                Info(0, 1, block_directory_len, block_table_len)
          [] size > BLOCK_TABLE_MAX /\ size <= BLOCK_DIRECTORY_MAX ->
                Info(0, 0, 1, block_table_len)
          [] size > DIRECT_MAX /\ size <= BLOCK_TABLE_MAX -> Info(0, 0, 0, 1)
          [] size <= DIRECT_MAX -> Info(0, 0, 0, 0)

\* Mutant: the L4 block is not counted.
CountWithoutL4(info) == info.l3 + info.block_directory + info.block_table

\* LevelInfo::index_block_count
index_block_count(info) ==
    info.l4 + info.l3 + info.block_directory + info.block_table

index_count(size) == index_block_count(index_blocks(size))

\* The blocks that CAFS::write allocates to make a file of size small one of size
\* large, and that Meta::shrink collects the other way round.
Difference(small, large) ==
    [data |-> data_blocks(large) - data_blocks(small),
     index |-> index_count(large) - index_count(small)]
=============================================================================
