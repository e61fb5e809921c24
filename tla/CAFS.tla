-------------------------------- MODULE CAFS --------------------------------
(* fs/src/cafs/mod.rs: the file system's calls, create, write, read and       *)
(* remount, made by several threads.  Each takes several steps, under the     *)
(* locks of the inode cache, of an inode and of bitmap blocks.                *)
(*                                                                            *)
(* Contents are sequences of units, BLOCK_SIZE of them to a block; the units  *)
(* of the root directory are the inode numbers of its entries (DirCodec has   *)
(* their bytes).  Files are small enough for direct blocks (Layout has the    *)
(* index tree).  Blocks are read and written through the cache (BlockCache    *)
(* shows that it is transparent), and bits are allocated in one step (Bitmap  *)
(* shows that interleaved scans are exclusive).                               *)
EXTENDS Integers, Sequences, FiniteSets

CONSTANTS
    Threads,
    INODE_CACHE_SIZE, \* 32 in the code
    BLOCK_SIZE,       \* units of a block
    Inodes,           \* bits of the inode bitmap
    DataBits,         \* bits of the data bitmap
    DataStart,        \* data_area_start_block
    Files             \* the contents that callers write to files

ASSUME CAFSAssumption ==
    /\ IsFiniteSet(Threads)
    /\ {INODE_CACHE_SIZE, BLOCK_SIZE, Inodes, DataBits, DataStart} \subseteq Nat \ {0}
    /\ Files \subseteq Seq(Nat)

VARIABLES
    inode_bitmap, \* set bits
    data_bitmap,  \* set bits
    meta,         \* inode number -> Meta on disk: size and data block ids
    data,         \* data block id -> its units
    inode_cache,  \* the Vec of Arcs
    inode,        \* Arc -> the CaInode it points to
    thread,       \* thread -> where it is, and its local variables
    panicked,     \* "no", or which panic stopped the system
    shadow,       \* history: inode number -> what was last written to it
    created,      \* history: the inodes that create entered into the directory
    mounted,      \* history: the inodes that create has made since the last mount
    overlap,      \* history: two create calls were under way at the same time
    freed         \* history: a write has given blocks back

vars == <<inode_bitmap, data_bitmap, meta, data, inode_cache, inode, thread,
          panicked, shadow, created, mounted, overlap, freed>>
disk == <<inode_bitmap, data_bitmap, meta, data>>
history == <<shadow, created, mounted, overlap, freed>>

Root == 0
Numbers == 0..(Inodes - 1)
BlockIds == DataStart..(DataStart + DataBits - 1)
Arcs == 1..(INODE_CACHE_SIZE + Cardinality(Threads))
NoArc == 0
Unit == 0..(Inodes - 1) \cup UNION {{f[k] : k \in DOMAIN f} : f \in Files}
Contents == Seq(Unit)
Metas == [size : Nat, blocks : Seq(BlockIds)]
Empty == [size |-> 0, blocks |-> <<>>]
NoInode == [number |-> Root, size |-> 0, blocks |-> <<>>]
Idle == [pc |-> "idle", op |-> "none", number |-> Root, meta |-> NoArc,
         parent |-> NoArc, handle |-> NoArc, contents |-> <<>>]

TypeOK ==
    /\ inode_bitmap \subseteq Numbers
    /\ data_bitmap \subseteq 0..(DataBits - 1)
    /\ meta \in [Numbers -> Metas]
    /\ data \in [BlockIds -> [1..BLOCK_SIZE -> Unit]]
    /\ inode_cache \in Seq(Arcs)
    /\ Len(inode_cache) <= INODE_CACHE_SIZE
    /\ inode \in [Arcs -> [number : Numbers, size : Nat, blocks : Seq(BlockIds)]]
    /\ thread \in [Threads ->
           [pc : {"idle", "add", "parent", "contents", "get", "lock", "fill", "add_again", "data"},
            op : {"none", "create", "write", "read"}, number : Numbers,
            meta : Arcs \cup {NoArc}, parent : Arcs \cup {NoArc},
            handle : Arcs \cup {NoArc}, contents : Contents]]
    /\ panicked \in {"no", "inode block", "data block", "InodeCache", "dealloc"}
    /\ shadow \in [Numbers -> Contents]
    /\ created \in Seq(Numbers)
    /\ mounted \subseteq Numbers
    /\ overlap \in BOOLEAN
    /\ freed \in BOOLEAN

-----------------------------------------------------------------------------
\* Arc::strong_count: the entries of the cache and the local variables.
strong_count(a) ==
    Cardinality({k \in 1..Len(inode_cache) : inode_cache[k] = a})
    + Cardinality({t \in Threads : thread[t].meta = a})
    + Cardinality({t \in Threads : thread[t].parent = a})
    + Cardinality({t \in Threads : thread[t].handle = a})

Refs(queue, th) ==
    {queue[k] : k \in 1..Len(queue)}
    \cup UNION {{th[t].meta, th[t].parent, th[t].handle} : t \in Threads}
\* A CaInode lives as long as some Arc points to it.
Dropped(inodes, queue, th) ==
    [a \in Arcs |-> IF a \in Refs(queue, th) THEN inodes[a] ELSE NoInode]
NewArc == CHOOSE a \in Arcs : /\ a \notin Refs(inode_cache, thread)
                              /\ \A b \in Arcs : b < a => b \in Refs(inode_cache, thread)

\* Some thread is inside write, with the inode's lock.
WriteLocked(a) == \E t \in Threads : thread[t].pc = "fill" /\ thread[t].handle = a

least(S) == CHOOSE x \in S : \A y \in S : x <= y

\* Vec::swap_remove
swap_remove(s, k) ==
    SubSeq([s EXCEPT ![k] = s[Len(s)]], 1, Len(s) - 1)

\* Mutants: the reference count is not looked at; an entry to evict is not
\* looked for.
EvictableAny == 1..Len(inode_cache)
FullAnyway == Len(inode_cache) = INODE_CACHE_SIZE

\* The cache after making room for one more entry, as add_inode_cache and cainode
\* do; Full when all of its entries are in use.
Evictable == {k \in 1..Len(inode_cache) : strong_count(inode_cache[k]) = 1}
Full == Len(inode_cache) = INODE_CACHE_SIZE /\ Evictable = {}
Substituted ==
    IF Len(inode_cache) = INODE_CACHE_SIZE
    THEN swap_remove(inode_cache, least(Evictable)) ELSE inode_cache

Panic(why) ==
    /\ panicked' = why
    /\ UNCHANGED <<disk, inode_cache, inode, thread, history>>

\* Mutant: a last block that is not full is not counted.
data_blocks_floor(size) == size \div BLOCK_SIZE

data_blocks(size) == (size + BLOCK_SIZE - 1) \div BLOCK_SIZE

\* Inode::data for an inode with these fields.
Data(i) ==
    LET whole == [k \in 1..(Len(i.blocks) * BLOCK_SIZE) |->
                     data[i.blocks[((k - 1) \div BLOCK_SIZE) + 1]][((k - 1) % BLOCK_SIZE) + 1]]
        last == IF i.size % BLOCK_SIZE # 0 THEN i.size % BLOCK_SIZE ELSE BLOCK_SIZE
    IN  IF i.blocks = <<>> THEN <<>>
        ELSE SubSeq(whole, 1, (Len(i.blocks) - 1) * BLOCK_SIZE + last)

-----------------------------------------------------------------------------
\* CAFS::init: the root directory has inode 0 and is cached.
Init ==
    /\ inode_bitmap = {Root}
    /\ data_bitmap = {}
    /\ meta = [n \in Numbers |-> Empty]
    /\ data = [b \in BlockIds |-> [k \in 1..BLOCK_SIZE |-> 0]]
    /\ inode_cache = <<1>>
    /\ inode = [a \in Arcs |-> NoInode]
    /\ thread = [t \in Threads |-> Idle]
    /\ panicked = "no"
    /\ shadow = [n \in Numbers |-> <<>>]
    /\ created = <<>>
    /\ mounted = {}
    /\ overlap = FALSE
    /\ freed = FALSE

\* create, first step: alloc_inode_meta takes an inode number and initializes its
\* Meta (CaInode::new).
CreateBegin(t) ==
    LET number == least(Numbers \ inode_bitmap)
        arc == NewArc
    IN  /\ thread[t] = Idle
        /\ Numbers \ inode_bitmap # {}
        /\ inode_bitmap' = inode_bitmap \cup {number}
        /\ meta' = [meta EXCEPT ![number] = Empty]
        /\ inode' = [inode EXCEPT ![arc] = [number |-> number, size |-> 0, blocks |-> <<>>]]
        /\ thread' = [thread EXCEPT ![t] = [Idle EXCEPT !.pc = "add", !.op = "create",
                                                       !.meta = arc]]
        /\ mounted' = mounted \cup {number}
        /\ overlap' = (overlap \/ \E u \in Threads : thread[u].op = "create")
        /\ UNCHANGED <<data_bitmap, data, inode_cache, panicked, shadow, created, freed>>

CreateNoInode(t) ==
    /\ thread[t] = Idle
    /\ Numbers \ inode_bitmap = {}
    /\ Panic("inode block")

\* add_inode_cache, which create calls twice for its new inode: in
\* alloc_inode_meta, and after writing the directory.  The second time create
\* then returns, and its Arcs are dropped.
AddInodeCache(t) ==
    LET queue == Append(Substituted, thread[t].meta)
        th == [thread EXCEPT ![t] = IF @.pc = "add" THEN [@ EXCEPT !.pc = "parent"] ELSE Idle]
    IN  /\ thread[t].pc \in {"add", "add_again"}
        /\ ~Full
        /\ inode_cache' = queue
        /\ thread' = th
        /\ inode' = Dropped(inode, queue, th)
        /\ UNCHANGED <<disk, panicked, history>>

AddPanics(t) ==
    /\ thread[t].pc \in {"add", "add_again"}
    /\ Full
    /\ Panic("InodeCache")

\* What a thread does with the Arc that cainode returns.
Got(t, arc) ==
    [thread EXCEPT ![t] =
        IF @.pc = "parent" THEN [@ EXCEPT !.pc = "contents", !.parent = arc]
        ELSE [@ EXCEPT !.pc = IF thread[t].op = "read" THEN "data" ELSE "lock",
                       !.handle = arc]]

\* cainode finds the inode in the cache.  It reads the number of each entry up to
\* there, and so waits for the writers of those.
GetCached(t) ==
    /\ thread[t].pc \in {"parent", "get"}
    /\ \E k \in 1..Len(inode_cache) :
          /\ inode[inode_cache[k]].number = thread[t].number
          /\ \A j \in 1..(k - 1) : inode[inode_cache[j]].number # thread[t].number
          /\ \A j \in 1..k : ~WriteLocked(inode_cache[j])
          /\ thread' = Got(t, inode_cache[k])
    /\ UNCHANGED <<disk, inode_cache, inode, panicked, history>>

NotCached(t) ==
    /\ thread[t].pc \in {"parent", "get"}
    /\ \A k \in 1..Len(inode_cache) : /\ inode[inode_cache[k]].number # thread[t].number
                                      /\ ~WriteLocked(inode_cache[k])

\* cainode loads the inode (CaInode::from), in place of one that is not in use.
GetLoaded(t) ==
    LET number == thread[t].number
        queue == Append(Substituted, NewArc)
        th == Got(t, NewArc)
        loaded == [number |-> number, size |-> meta[number].size, blocks |-> meta[number].blocks]
    IN  /\ NotCached(t)
        /\ ~Full
        /\ inode_cache' = queue
        /\ thread' = th
        /\ inode' = Dropped([inode EXCEPT ![NewArc] = loaded], queue, th)
        /\ UNCHANGED <<disk, panicked, history>>

GetPanics(t) ==
    /\ NotCached(t)
    /\ Full
    /\ Panic("InodeCache")

\* Mutant: the entry replaces the directory's contents.
CreateContentsAnew(t) ==
    /\ thread[t].pc = "contents"
    /\ ~WriteLocked(thread[t].parent)
    /\ thread' = [thread EXCEPT ![t].pc = "get",
                                ![t].contents = <<inode[thread[t].meta].number>>]
    /\ UNCHANGED <<disk, inode_cache, inode, panicked, history>>

\* create reads the directory and adds its entry to what it read.
CreateContents(t) ==
    LET parent == thread[t].parent
    IN  /\ thread[t].pc = "contents"
        /\ ~WriteLocked(parent)
        /\ thread' = [thread EXCEPT ![t].pc = "get",
                                    ![t].contents = Append(Data(inode[parent]),
                                                           inode[thread[t].meta].number)]
        /\ UNCHANGED <<disk, inode_cache, inode, panicked, history>>

\* A caller writes to, or reads, a file that create has returned.
CallWrite(t, number, contents) ==
    /\ thread[t] = Idle
    /\ thread' = [thread EXCEPT ![t] = [Idle EXCEPT !.pc = "get", !.op = "write",
                                                   !.number = number, !.contents = contents]]
    /\ UNCHANGED <<disk, inode_cache, inode, panicked, history>>

CallRead(t, number) ==
    /\ thread[t] = Idle
    /\ thread' = [thread EXCEPT ![t] = [Idle EXCEPT !.pc = "get", !.op = "read",
                                                   !.number = number]]
    /\ UNCHANGED <<disk, inode_cache, inode, panicked, history>>

\* Inode::data and the end of a read; what it returns is Data(inode[handle]).
ReadData(t) ==
    LET th == [thread EXCEPT ![t] = Idle]
    IN  /\ thread[t].pc = "data"
        /\ ~WriteLocked(thread[t].handle)
        /\ thread' = th
        /\ inode' = Dropped(inode, inode_cache, th)
        /\ UNCHANGED <<disk, inode_cache, panicked, history>>

-----------------------------------------------------------------------------
\* CAFS::write, with the inode's lock from here to WriteFill.  First, under the
\* lock of the Meta's block, the file gets the blocks that its new size needs.
CanLock(t) == thread[t].pc = "lock" /\ ~WriteLocked(thread[t].handle)
Number(t) == thread[t].number
NewSize(t) == Len(thread[t].contents)
BeginFill(t) == thread' = [thread EXCEPT ![t].pc = "fill"]


FreeBits == SelectSeq([k \in 1..DataBits |-> k - 1], LAMBDA b : b \notin data_bitmap)
Missing(t) == data_blocks(NewSize(t)) - data_blocks(meta[Number(t)].size)

\* alloc_data for each block that is missing, and Meta::extend.
WriteExtend(t) ==
    LET bits == SubSeq(FreeBits, 1, Missing(t))
        ids == [k \in 1..Len(bits) |-> bits[k] + DataStart]
    IN  /\ CanLock(t)
        /\ meta[Number(t)].size < NewSize(t)
        /\ Missing(t) <= Len(FreeBits)
        /\ data_bitmap' = data_bitmap \cup {bits[k] : k \in 1..Len(bits)}
        /\ meta' = [meta EXCEPT ![Number(t)] = [size |-> NewSize(t), blocks |-> @.blocks \o ids]]
        /\ BeginFill(t)
        /\ UNCHANGED <<inode_bitmap, data, inode_cache, inode, panicked, history>>

WriteNoBlock(t) ==
    /\ CanLock(t)
    /\ meta[Number(t)].size < NewSize(t)
    /\ Missing(t) > Len(FreeBits)
    /\ Panic("data block")

WriteSameSize(t) ==
    /\ CanLock(t)
    /\ meta[Number(t)].size = NewSize(t)
    /\ BeginFill(t)
    /\ UNCHANGED <<disk, inode_cache, inode, panicked, history>>

\* The ids that Meta::shrink collects.
Collected(t) ==
    LET blocks == meta[Number(t)].blocks
    IN  {blocks[k] : k \in (data_blocks(NewSize(t)) + 1)..Len(blocks)}

\* The bits that write passes to dealloc: the block ids themselves.
Deallocated(t) == Collected(t)

Shrinks(t) == CanLock(t) /\ meta[Number(t)].size > NewSize(t)
InBitmap(t) == Deallocated(t) \cap (0..(DataBits - 1))

\* Meta::shrink, and dealloc of bits that are set.
ShrinkMeta(t) ==
    /\ Shrinks(t)
    /\ InBitmap(t) \subseteq data_bitmap
    /\ data_bitmap' = data_bitmap \ Deallocated(t)
    /\ meta' = [meta EXCEPT ![Number(t)] =
                   [size |-> NewSize(t), blocks |-> SubSeq(@.blocks, 1, data_blocks(NewSize(t)))]]
    /\ freed' = (freed \/ Deallocated(t) # {})
    /\ BeginFill(t)
    /\ UNCHANGED <<inode_bitmap, inode_cache, inode, panicked, shadow, created, mounted, overlap>>

WriteShrink(t) ==
    /\ ShrinkMeta(t)
    /\ InBitmap(t) = Deallocated(t)
    /\ UNCHANGED data

\* A bit beyond the bitmap is looked for in the data area after it; if it happens
\* to be set there, some data changes.
WriteStray(t) ==
    /\ ShrinkMeta(t)
    /\ InBitmap(t) # Deallocated(t)
    /\ \E b \in BlockIds, k \in 1..BLOCK_SIZE, u \in Unit : data' = [data EXCEPT ![b][k] = u]

\* The assertion in dealloc fails: the bit is not set.
WriteAsserts(t) ==
    /\ Shrinks(t)
    /\ InBitmap(t) # Deallocated(t) \/ ~(InBitmap(t) \subseteq data_bitmap)
    /\ Panic("dealloc")

\* Then write fills the blocks, updates the CaInode and lets go of the lock.
WriteFill(t) ==
    LET number == Number(t)
        contents == thread[t].contents
        handle == thread[t].handle
        blocks == meta[number].blocks
        At(k) == IF k <= Len(contents) THEN contents[k] ELSE 0
        Filled(i) == [k \in 1..BLOCK_SIZE |-> At((i - 1) * BLOCK_SIZE + k)]
        Last(b) == CHOOSE i \in 1..Len(blocks) :
                       blocks[i] = b /\ \A j \in (i + 1)..Len(blocks) : blocks[j] # b
        th == [thread EXCEPT ![t] = IF @.op = "write" THEN Idle
                                    ELSE [@ EXCEPT !.pc = "add_again", !.handle = NoArc]]
    IN  /\ thread[t].pc = "fill"
        /\ data' = [b \in BlockIds |-> IF \E i \in 1..Len(blocks) : blocks[i] = b
                                       THEN Filled(Last(b)) ELSE data[b]]
        /\ thread' = th
        /\ inode' = Dropped([inode EXCEPT ![handle].size = Len(contents),
                                          ![handle].blocks = blocks], inode_cache, th)
        /\ shadow' = [shadow EXCEPT ![number] = contents]
        /\ created' = IF thread[t].op = "create"
                      THEN Append(created, inode[thread[t].meta].number) ELSE created
        /\ UNCHANGED <<inode_bitmap, data_bitmap, meta, inode_cache, panicked, mounted, overlap, freed>>

\* The file system is dropped, which writes back the block cache, and opened
\* again: the inode cache is empty.
Remount ==
    /\ \A t \in Threads : thread[t] = Idle
    /\ inode_cache # <<>>
    /\ inode_cache' = <<>>
    /\ inode' = [a \in Arcs |-> NoInode]
    /\ mounted' = {}
    /\ UNCHANGED <<disk, thread, panicked, shadow, created, overlap, freed>>

Returned == {created[k] : k \in 1..Len(created)}
            \ {inode[thread[t].meta].number : t \in {u \in Threads : thread[u].op = "create"}}

Step(t) ==
    \/ CreateBegin(t) \/ CreateNoInode(t)
    \/ AddInodeCache(t) \/ AddPanics(t)
    \/ GetCached(t) \/ GetLoaded(t) \/ GetPanics(t)
    \/ CreateContents(t)
    \/ \E n \in Returned, c \in Files : CallWrite(t, n, c)
    \/ \E n \in Returned \cup {Root} : CallRead(t, n)
    \/ ReadData(t)
    \/ WriteExtend(t) \/ WriteNoBlock(t) \/ WriteSameSize(t)
    \/ WriteShrink(t) \/ WriteStray(t) \/ WriteAsserts(t)
    \/ WriteFill(t)

Next ==
    /\ panicked = "no"
    /\ Remount \/ \E t \in Threads : Step(t)

Spec == Init /\ [][Next]_vars

-----------------------------------------------------------------------------
\* Correctness

Filling(number) == \E t \in Threads : thread[t].pc = "fill" /\ thread[t].number = number
Owned(number) == {meta[number].blocks[k] : k \in 1..Len(meta[number].blocks)}


\* There is one CaInode for an inode, whatever is evicted and loaded in between,
\* and unless it is being written it is what the disk says; also after blocks were
\* given back.
CachedInodeFresh ==
    \A a, b \in Refs(inode_cache, thread) \ {NoArc} :
        /\ inode[a].number = inode[b].number => a = b
        /\ ~WriteLocked(a) => LET m == meta[inode[a].number]
                               IN  inode[a].size = m.size /\ inode[a].blocks = m.blocks

\* An inode that no write is filling reads back as what was last written to it, until
\* a write gives blocks back.
ContentsKept ==
    ~freed => \A n \in inode_bitmap : ~Filling(n) => Data(meta[n]) = shadow[n]

\* If no two create calls were ever under way at the same time, and no write has given
\* blocks back, the directory lists exactly the created inodes, in the order of their creation.
DirectoryComplete ==
    ~overlap /\ ~freed /\ ~Filling(Root) => Data(meta[Root]) = created

\* Create leaves its new inode twice in the inode cache, where it cannot be
\* substituted any more.  So the cache runs out of entries, but not before they are
\* all in use or such: an inode from before the mount that no call uses makes room.
PanicNeedsCreates ==
    LET left == {k \in 1..Len(inode_cache) : inode_cache[k] \notin Refs(<<>>, thread)}
    IN  panicked = "InodeCache" =>
            /\ \A k \in left : inode[inode_cache[k]].number \in mounted
            /\ Cardinality(left) <= 2 * Cardinality(mounted)

\* bitmap.rs:90 asserts in dealloc that the bit is set.
DeallocAssertion == panicked # "dealloc"
=============================================================================
