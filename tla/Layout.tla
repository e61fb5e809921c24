------------------------------- MODULE Layout -------------------------------
(* fs/src/cafs/layout.rs: the on-disk inode.  Meta holds the size, the direct *)
(* block ids and the id of the root of the index tree; extend, shrink and     *)
(* clear_size rebuild the tree from the flat lists of index and data ids.     *)
(* The caller hands extend the new ids and gets back the ids that shrink and  *)
(* clear_size give up; blocks that the caller uses elsewhere come and go too. *)
EXTENDS LevelInfo, Sequences, SequencesExt

CONSTANTS
    Sizes,    \* the sizes callers ask for
    MaxId,    \* block ids are 1..MaxId; 0 is the superblock
    MaxOthers \* blocks used elsewhere at a time

ASSUME LayoutAssumption ==
    /\ Sizes \subseteq 0..L4_MAX
    /\ 0 \in Sizes
    /\ MaxId \in Nat
    /\ MaxOthers \in Nat

VARIABLES
    meta,   \* Meta: size, direct, indirect
    ib,     \* what the blocks of the index tree hold
    given,  \* ids handed to this inode and not given back
    others  \* ids the caller uses for something else

vars == <<meta, ib, given, others>>

Ids == 0..MaxId
BlockTable == 0 \* IndirectBlockType: 1 is BlockDirectory, 2 is L3, 3 is L4
IndirectBlock == [type : 0..3, entries : [1..INDIRECT_LEN -> Ids]]
\* Stands for whatever a block outside the tree holds: read as an index block
\* it leads nowhere, so a tree that still pointed to one would lose blocks.
NotIndirect == [type |-> BlockTable, entries |-> [j \in 1..INDIRECT_LEN |-> 0]]

NonZero(s) == SelectSeq(s, LAMBDA x : x # 0)
Ascending(S) == SelectSeq([i \in 1..MaxId |-> i], LAMBDA i : i \in S)

TypeOK ==
    /\ meta \in [size : Sizes, direct : [1..DIRECT_COUNT -> Ids], indirect : Ids]
    /\ ib \in [Ids -> IndirectBlock]
    /\ given \subseteq 1..MaxId
    /\ others \subseteq 1..MaxId

-----------------------------------------------------------------------------
\* Mutant: the last entry of an index block is not visited.
ChildrenButLast(tree, nodes) ==
    LET len == INDIRECT_LEN - 1
        Node(j) == tree[nodes[((j - 1) \div len) + 1]]
    IN  NonZero([j \in 1..(Len(nodes) * len) |-> Node(j).entries[((j - 1) % len) + 1]])

\* The non-zero entries of the given index blocks, in order.
Children(tree, nodes) ==
    LET Node(j) == tree[nodes[((j - 1) \div INDIRECT_LEN) + 1]]
    IN  NonZero([j \in 1..(Len(nodes) * INDIRECT_LEN) |->
                    Node(j).entries[((j - 1) % INDIRECT_LEN) + 1]])

\* IndirectBlock::to_vec on the block id: the index ids below it, and the data
\* ids.  The type stored in a block says what its entries are.  The code visits
\* the tree depth first, which gives the same data ids in the same order as
\* this level by level visit does (blocks sorts the index ids).
to_vec(tree, id) ==
    LET Inner(nodes) == SelectSeq(nodes, LAMBDA i : tree[i].type # BlockTable)
        Tables(nodes) == SelectSeq(nodes, LAMBDA i : tree[i].type = BlockTable)
        below1 == Children(tree, Inner(<<id>>))
        below2 == Children(tree, Inner(below1))
        below3 == Children(tree, Inner(below2))
        index == below1 \o below2 \o below3
    IN  [index |-> index, data |-> Children(tree, Tables(<<id>> \o index))]

\* Mutant: the data ids are sorted, too.
BlocksSorted(m, tree) ==
    LET below == to_vec(tree, m.indirect)
        data == NonZero(m.direct) \o (IF m.indirect = 0 THEN <<>> ELSE below.data)
    IN  [index |-> IF m.indirect = 0 THEN <<>>
                   ELSE SortSeq(<<m.indirect>> \o below.index, <),
         data |-> SortSeq(data, <)]

\* Meta::blocks: all index ids, sorted, and all data ids in file order.
blocks(m, tree) ==
    LET direct == NonZero(m.direct)
        below == to_vec(tree, m.indirect)
    IN  IF m.indirect = 0
        THEN [index |-> <<>>, data |-> direct]
        ELSE [index |-> SortSeq(<<m.indirect>> \o below.index, <),
              data |-> direct \o below.data]

\* Mutant: the number of blocks below an entry grows by INDIRECT_LEN per level.
DivisorLinear(type) == IF type = 0 THEN 1 ELSE INDIRECT_LEN * type

\* Data blocks below each entry of an index block.
Divisor(type) == INDIRECT_LEN ^ type

\* IndirectBlock::get_block_id and Meta::get_block_id; -1 is None.
get_block_id(m, tree, inner_id) ==
    LET seek[depth \in 0..3, i \in Ids, n \in Nat] ==
            LET b == tree[i]
                next == b.entries[(n \div Divisor(b.type)) + 1]
            IN  IF b.type = BlockTable \/ depth = 0 THEN next
                ELSE seek[depth - 1, next, n % Divisor(b.type)]
    IN  IF data_blocks(m.size) <= inner_id THEN -1
        ELSE IF inner_id < DIRECT_COUNT THEN m.direct[inner_id + 1]
        ELSE seek[3, m.indirect, inner_id - DIRECT_COUNT]

\* The iterator ids.chain(repeat(0)): its n items after the first skip ones.
Take(ids, skip, n) ==
    SubSeq(ids \o [j \in 1..(skip + n) |-> 0], skip + 1, skip + n)

\* The nodes of one level: the k-th gets the k-th INDIRECT_LEN children.
Level(type, nodes, children) ==
    [i \in ToSet(nodes) |->
        LET k == CHOOSE n \in 1..Len(nodes) : /\ nodes[n] = i
                                              /\ \A o \in (n + 1)..Len(nodes) : nodes[o] # i
        IN  [type |-> type,
             entries |-> Take(children, (k - 1) * INDIRECT_LEN, INDIRECT_LEN)]]

\* Meta::forward: lay the ids out as direct entries and index tree.
forward(size, info, index, data) ==
    LET l4 == Take(index, 0, info.l4)
        l3 == Take(index, info.l4, info.l3)
        l2 == Take(index, info.l4 + info.l3, info.block_directory)
        l1 == Take(index, info.l4 + info.l3 + info.block_directory, info.block_table)
        rest == Take(data, DIRECT_COUNT, Len(l1) * INDIRECT_LEN)
        root == CASE info.l4 = 1 -> l4
                  [] info.l4 # 1 /\ info.l3 = 1 -> l3
                  [] info.l4 # 1 /\ info.l3 # 1 /\ info.block_directory = 1 -> l2
                  [] OTHER -> l1
        direct == Take(data, 0, DIRECT_COUNT)
    IN  IF indirect_size(size) = 0
        THEN [meta |-> [size |-> size, direct |-> direct, indirect |-> 0],
              ib |-> [i \in Ids |-> NotIndirect]]
        ELSE [meta |-> [size |-> size, direct |-> direct, indirect |-> root[1]],
              ib |-> Level(0, l1, rest) @@ Level(1, l2, l1) @@ Level(2, l3, l2)
                     @@ Level(3, NonZero(l4), l3) @@ [i \in Ids |-> NotIndirect]]

-----------------------------------------------------------------------------
Blocks == blocks(meta, ib)
Free == 1..MaxId \ (given \cup others)
EmptyMeta == [size |-> 0, direct |-> [j \in 1..DIRECT_COUNT |-> 0], indirect |-> 0]

Init ==
    /\ meta = EmptyMeta
    /\ ib = [i \in Ids |-> NotIndirect]
    /\ given = {}
    /\ others = {}

\* Meta::extend; CAFS::write allocates the data ids, lowest first, then the
\* index ids.
extend(new_size) ==
    LET info == index_blocks(new_size)
        nd == Difference(meta.size, new_size).data
        ni == Difference(meta.size, new_size).index
    IN  /\ meta.size < new_size
        /\ nd + ni <= Cardinality(Free)
        /\ \E b \in {Blocks}, ids \in {Ascending(Free)} :
              \E index \in {b.index \o SubSeq(ids, nd + 1, nd + ni)},
                 data \in {b.data \o SubSeq(ids, 1, nd)} :
                /\ meta' = forward(new_size, info, index, data).meta
                /\ ib' = forward(new_size, info, index, data).ib
                /\ given' = given \cup ToSet(SubSeq(ids, 1, nd + ni))
        /\ UNCHANGED others

\* Meta::shrink: gives back the last data ids and the highest index ids.
shrink(new_size) ==
    LET info == index_blocks(new_size)
        nd == Difference(new_size, meta.size).data
        ni == Difference(new_size, meta.size).index
    IN  /\ meta.size > new_size
        /\ \E b \in {Blocks} :
              \E index \in {SubSeq(b.index, 1, Len(b.index) - ni)},
                 data \in {SubSeq(b.data, 1, Len(b.data) - nd)} :
                /\ meta' = forward(new_size, info, index, data).meta
                /\ ib' = forward(new_size, info, index, data).ib
                /\ given' = given \ (   ToSet(SubSeq(b.index, Len(index) + 1, Len(b.index)))
                                     \cup ToSet(SubSeq(b.data, Len(data) + 1, Len(b.data))))
        /\ UNCHANGED others

\* Meta::clear_size: gives back every block.
clear_size ==
    /\ meta' = EmptyMeta
    /\ ib' = [i \in Ids |-> NotIndirect]
    /\ \E b \in {Blocks} : given' = given \ (ToSet(b.index) \cup ToSet(b.data))
    /\ UNCHANGED others

\* Other files take the lowest free block and return it.
OtherAlloc ==
    /\ Cardinality(others) < MaxOthers
    /\ Free # {}
    /\ others' = others \cup {Ascending(Free)[1]}
    /\ UNCHANGED <<meta, ib, given>>

OtherFree(id) ==
    /\ others' = others \ {id}
    /\ UNCHANGED <<meta, ib, given>>

Next ==
    \/ \E n \in Sizes : extend(n)
    \/ \E n \in Sizes : shrink(n)
    \/ clear_size
    \/ OtherAlloc
    \/ \E id \in others : OtherFree(id)

Spec == Init /\ [][Next]_vars

-----------------------------------------------------------------------------
\* Correctness

\* The tree holds exactly the blocks the size calls for: as many data and index
\* ids as data_blocks and index_blocks say, no id twice, and all of them, and no
\* others, are the ids the inode was given and has not given back.  So no id is
\* leaked by a rebuild, and none is given back while the tree still uses it.
TreeMatchesSize ==
    LET b == Blocks
        own == ToSet(b.index) \cup ToSet(b.data)
    IN  /\ Len(b.data) = data_blocks(meta.size)
        /\ Len(b.index) = index_count(meta.size)
        /\ Cardinality(own) = Len(b.data) + Len(b.index)
        /\ own = given
        /\ own \cap others = {}

\* Meta::get_block_id, which descends the tree by division, and Meta::blocks,
\* which walks it, agree on every block of the file and on where it ends.
LookupAgrees ==
    LET data == Blocks.data
    IN  \A i \in 0..(2 + Len(data)) :
            get_block_id(meta, ib, i) = IF i < Len(data) THEN data[i + 1] ELSE -1

\* A file keeps its blocks: whatever extend, shrink or clear_size does to the
\* height of the tree, the data ids of the part that remains stay the same and
\* in the same order.
DataOrderKept ==
    [][\/ IsPrefix(Blocks.data, Blocks'.data)
       \/ IsPrefix(Blocks'.data, Blocks.data)]_vars

\* forward never runs out of index ids, so the zeros that pad its list are never
\* taken for a block: block 0, the superblock, is not written as an index block.
SuperblockSafe == ib[0] = NotIndirect

\* The subtractions of block counts in CAFS::write and Meta::shrink, which are
\* of type u64, do not go below zero, whatever the size was and will be: a larger
\* file never needs fewer index blocks, although the tree gets another height.
NoUnderflow ==
    \A n \in 0..L4_MAX :
        /\ meta.size < n => Difference(meta.size, n).data >= 0
                           /\ Difference(meta.size, n).index >= 0
        /\ meta.size > n => Difference(n, meta.size).data >= 0
                           /\ Difference(n, meta.size).index >= 0

\* parents index blocks are what children entries need: they have room for all
\* of them and none of them is empty.
Fits(children, parents) ==
    /\ children <= parents * INDIRECT_LEN
    /\ (parents - 1) * INDIRECT_LEN < children

\* The tree that Meta::index_blocks describes is one that Meta::forward can fill:
\* there is exactly one root, each level is exactly as wide as the level below it
\* needs, and the tables have room for the data blocks that are not direct.
LevelsFit ==
    LET i == index_blocks(meta.size)
        rest == data_blocks(meta.size) - i.direct
    IN  /\ i.l4 > 0 => i.l4 = 1 /\ Fits(i.l3, i.l4)
        /\ i.l3 > 0 => (i.l4 > 0 \/ i.l3 = 1) /\ Fits(i.block_directory, i.l3)
        /\ i.block_directory > 0 => /\ (i.l3 > 0 \/ i.block_directory = 1)
                                    /\ Fits(i.block_table, i.block_directory)
        /\ i.block_table > 0 => /\ (i.block_directory > 0 \/ i.block_table = 1)
                                /\ Fits(rest, i.block_table)
        /\ i.block_table = 0 => rest = 0
=============================================================================
