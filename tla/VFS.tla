-------------------------------- MODULE VFS ---------------------------------
(* fs/src/vfs: paths, and the tree of DirEntry objects that caches the names  *)
(* of the file system.  VFS::create makes an inode, which CAFS enters into    *)
(* the contents of the parent on disk, and then adds a DirEntry to the tree;  *)
(* VFS::new builds the tree from the bytes on disk.  CAFS::create is two      *)
(* steps here, the one that reads the parent's contents and the one that      *)
(* writes them back.                                                          *)
EXTENDS DirCodec, FiniteSets, SequencesExt

CONSTANTS
    Threads,
    Names, \* components of paths
    Order, \* the root's inode number, and those that the bitmap hands out, in order
    Paths  \* the paths that callers use, as sequences of names

ASSUME VFSAssumption ==
    /\ IsInjective(Order)
    /\ Range(Order) \subseteq u64
    /\ Order[1] = [i \in 1..8 |-> 0]
    /\ Paths \subseteq Seq(Names) \ {<<>>}

VARIABLES
    name,     \* inode number -> name in its Meta; the root's is NoName
    contents, \* inode number -> the bytes of its data
    inodes,   \* inode numbers in use
    dentry,   \* the DirEntry objects; the first is the root, parents come first
    thread,   \* thread -> where it is, and its local variables
    entered,  \* history: inode number -> the numbers that its data should have, in order
    overlap,  \* history: two creates in the same parent were under way at once
    misplaced \* history: a parent was a file

vars == <<name, contents, inodes, dentry, thread, entered, overlap, misplaced>>

Root == Order[1]
NoName == "/"
None == -1
Numbers == Range(Order)
Entry(n, number, parent) == [name |-> n, inode_number |-> number, parent |-> parent]
Idle == [pc |-> "idle", dir |-> 0, number |-> Root, contents |-> <<>>, entered |-> <<>>]

TypeOK ==
    /\ name \in [Numbers -> Names \cup {NoName}]
    /\ DOMAIN contents = Numbers /\ DOMAIN entered = Numbers
    /\ inodes \subseteq Numbers
    /\ dentry \in Seq([name : Names \cup {NoName}, inode_number : Numbers, parent : Nat])
    /\ \A d \in 2..Len(dentry) : dentry[d].parent \in 1..(d - 1)
    /\ overlap \in BOOLEAN /\ misplaced \in BOOLEAN

\* Inode::is_file; CAFS makes only files, the root is the only directory.
is_file(number) == number # Root

-----------------------------------------------------------------------------
\* subdirs of a DirEntry with this name, in the order of the Vec.
Subdirs(tree, d, n) == {e \in 1..Len(tree) : tree[e].parent = d /\ tree[e].name = n}

least(S) == CHOOSE x \in S : \A y \in S : x <= y

\* Mutant: the last match.
LastSubdir(tree, d, n) ==
    CHOOSE x \in Subdirs(tree, d, n) : \A y \in Subdirs(tree, d, n) : x >= y

\* The match that find_dentry takes.
FirstSubdir(tree, d, n) == least(Subdirs(tree, d, n))

\* find_dentry: follow the names from the root, taking the first match; None
\* stands for Error::NotExist.
find_dentry(tree, dirs) ==
    LET at[k \in 0..Len(dirs)] ==
            IF k = 0 THEN 1
            ELSE IF at[k - 1] = None \/ Subdirs(tree, at[k - 1], dirs[k]) = {} THEN None
            ELSE FirstSubdir(tree, at[k - 1], dirs[k])
    IN  at[Len(dirs)]

\* The inode that read_unstable and write act on, if there is one.
Resolve(tree, path) ==
    LET d == find_dentry(tree, path)
    IN  IF d = None THEN {} ELSE {tree[d].inode_number}

\* parse_path
parents(path) == SubSeq(path, 1, Len(path) - 1)
last(path) == path[Len(path)]

\* Mutant: the entries from last to first.
sub_inodes_reversed(number) ==
    IF is_file(number) THEN <<>> ELSE Reverse(Decoded(contents[number]))

\* CAFS::sub_inodes
sub_inodes(number) == IF is_file(number) THEN <<>> ELSE Decoded(contents[number])

RootEntry == Entry(NoName, Root, 0)

\* The tree that VFS::new and read_sub_dentry build: the sub-inodes of the root,
\* and their sub-inodes, of which there are none.
ReadTree ==
    LET subs == sub_inodes(Root)
    IN  <<RootEntry>> \o [k \in 1..Len(subs) |-> Entry(name[subs[k]], subs[k], 1)]

-----------------------------------------------------------------------------
Init ==
    /\ name = [n \in Numbers |-> NoName]
    /\ contents = [n \in Numbers |-> <<>>]
    /\ inodes = {Root}
    /\ dentry = <<RootEntry>>
    /\ thread = [t \in Threads |-> Idle]
    /\ entered = [n \in Numbers |-> <<>>]
    /\ overlap = FALSE
    /\ misplaced = FALSE

\* VFS::create up to where CAFS::create has read the parent's contents.  From here
\* to CreateWrite it has the read lock of the parent's DirEntry.
CreateBegin(t, path) ==
    LET dir == find_dentry(dentry, parents(path))
        number == Order[Cardinality(inodes) + 1]
        parent == dentry[dir].inode_number
    IN  /\ thread[t] = Idle
        /\ dir # None
        /\ Cardinality(inodes) < Len(Order)
        /\ inodes' = inodes \cup {number}
        /\ name' = [name EXCEPT ![number] = last(path)]
        /\ thread' = [thread EXCEPT ![t] = [pc |-> "write", dir |-> dir, number |-> number,
                                            contents |-> Extended(contents[parent], number),
                                            entered |-> Append(entered[parent], number)]]
        /\ overlap' = (overlap \/ \E u \in Threads : thread[u].pc # "idle" /\ thread[u].dir = dir)
        /\ misplaced' = (misplaced \/ is_file(parent))
        /\ UNCHANGED <<contents, dentry, entered>>

\* CAFS::create writes the parent's contents and returns.
CreateWrite(t) ==
    LET parent == dentry[thread[t].dir].inode_number
    IN  /\ thread[t].pc = "write"
        /\ contents' = [contents EXCEPT ![parent] = thread[t].contents]
        /\ entered' = [entered EXCEPT ![parent] = thread[t].entered]
        /\ thread' = [thread EXCEPT ![t].pc = "push", ![t].contents = <<>>, ![t].entered = <<>>]
        /\ UNCHANGED <<name, inodes, dentry, overlap, misplaced>>

\* VFS::create adds the DirEntry, with the write lock of the parent's.
CreatePush(t) ==
    LET dir == thread[t].dir
        number == thread[t].number
    IN  /\ thread[t].pc = "push"
        /\ \A u \in Threads : thread[u].dir = dir => thread[u].pc # "write"
        /\ dentry' = Append(dentry, Entry(name[number], number, dir))
        /\ thread' = [thread EXCEPT ![t] = Idle]
        /\ UNCHANGED <<name, contents, inodes, entered, overlap, misplaced>>

\* The VFS is dropped and made anew.
Remount ==
    /\ \A t \in Threads : thread[t] = Idle
    /\ dentry' = ReadTree
    /\ UNCHANGED <<name, contents, inodes, thread, entered, overlap, misplaced>>

Next ==
    \/ \E t \in Threads : \/ \E path \in Paths : CreateBegin(t, path)
                          \/ CreateWrite(t)
                          \/ CreatePush(t)
    \/ Remount

Spec == Init /\ [][Next]_vars

-----------------------------------------------------------------------------
\* A directory's bytes are read as exactly the numbers that were entered, in the same
\* order: no piece between two zeros, of which sub_inodes takes ten bytes, is shorter,
\* whatever zero bytes the inode numbers have.
RoundTrip ==
    \A n \in Numbers :
        /\ contents[n] # <<>> => \A k \in 1..Len(Split(contents[n])) : Len(Split(contents[n])[k]) = 10
        /\ Decoded(contents[n]) = entered[n]

\* The cached tree and the disk agree: after a remount every path leads to the
\* same inode as before.  Only creates that overlap in one parent, and creates
\* whose parent is a file, break this.
TreeSurvivesRemount ==
    ~overlap /\ ~misplaced /\ (\A t \in Threads : thread[t] = Idle) =>
        \A path \in Paths : Resolve(ReadTree, path) = Resolve(dentry, path)

\* As long as the VFS lives, a path that leads to an inode keeps leading to it,
\* also when other creates, of the same name too, finish in any order.
LookupStable ==
    [][\A path \in Paths :
          Resolve(dentry, path) # {} /\ ~Remount =>
              Resolve(dentry', path) = Resolve(dentry, path)]_vars
=============================================================================
