------------------------ MODULE BlockCacheRefinement ------------------------
(* Proof that BlockCache implements BlockStore: the cache is transparent.     *)
EXTENDS BlockCacheProofs

Cached == {cache[queue[i]] : i \in DOMAIN queue}

\* What a reader sees is the cached copy if there is one, else the disk.
VisibleInv ==
    /\ Visible = [b \in Blocks |-> Visible[b]]
    /\ Cached \subseteq Cache
    /\ \A c \in Cached : Visible[c.block_id] = c.data
    /\ \A c \in Cached : ~c.modified => c.data = disk[c.block_id]
    /\ \A b \in Blocks : (\A c \in Cached : c.block_id # b) => Visible[b] = disk[b]
    /\ \A c, e \in Cached : c.block_id = e.block_id => c = e

LEMMA VisibleFacts == CacheInv => VisibleInv
  <1> SUFFICES ASSUME CacheInv PROVE VisibleInv
    OBVIOUS
  <1>1. \A i \in DOMAIN queue : queue[i] \in Arcs /\ cache[queue[i]] \in Cache
    BY QueueFacts DEF CacheInv
  <1>2. ASSUME NEW i \in DOMAIN queue
        PROVE  Visible[cache[queue[i]].block_id] = cache[queue[i]].data
    <2> DEFINE b == cache[queue[i]].block_id
    <2>1. b \in Blocks /\ Entries(b) = {i}
      BY <1>1 DEF Entries, CacheInv, OneCachePerBlock, Cache
    <2>2. First(Entries(b)) = i
      BY <2>1, FoundInQueue DEF CacheInv
    <2> QED
      BY <2>1, <2>2 DEF Visible
  <1>3. ASSUME NEW b \in Blocks, \A c \in Cached : c.block_id # b
        PROVE  Visible[b] = disk[b]
    BY <1>3 DEF Cached, Visible, Entries
  <1>4. Visible = [b \in Blocks |-> Visible[b]]
    BY DEF Visible
  <1>5. \A c \in Cached : ~c.modified => c.data = disk[c.block_id]
    BY DEF Cached, CacheInv, CleanMatchesDisk
  <1>6. \A c, e \in Cached : c.block_id = e.block_id => c = e
    BY DEF Cached, CacheInv, OneCachePerBlock
  <1>7. Cached \subseteq Cache
    BY <1>1 DEF Cached
  <1> QED
    BY <1>2, <1>3, <1>4, <1>5, <1>6, <1>7 DEF Cached, VisibleInv

\* The same after a step.
LEMMA VisibleFactsPrime == CacheInv' => VisibleInv'
  BY VisibleFacts, PTL

-----------------------------------------------------------------------------
\* The blocks under a write guard

LEMMA WritingKept ==
    ASSUME Locked' = Locked, \A a \in Locked : cache'[a].block_id = cache[a].block_id
    PROVE  Writing' = Writing
  BY DEF Writing

LEMMA SameGuards ==
    ASSUME UNCHANGED stack
    PROVE  Locked' = Locked
  BY DEF Locked, Guards

\* What get hands out is not locked yet.
LEMMA ObtainLocksNothing ==
    ASSUME CacheInv, NEW t \in Threads, NEW a \in Arcs, Obtain(t, a)
    PROVE  Locked' = Locked
  <1> DEFINE h == [arc |-> a, guard |-> "none"]
             n == Len(stack[t])
  <1>1. stack' = [stack EXCEPT ![t] = Append(stack[t], h)]
    BY DEF Obtain
  <1>2. h \in Handle /\ h.guard # "write"
    BY DEF Handle
  <1>3. /\ stack \in [Threads -> Seq(Handle)] /\ stack[t] \in Seq(Handle)
        /\ n \in Nat /\ DOMAIN stack[t] = 1..n
    BY StackFacts DEF CacheInv, TypeOK
  <1> HIDE DEF h
  <1>4. /\ DOMAIN stack'[t] = 1..(n + 1)
        /\ \A i \in 1..n : stack'[t][i] = stack[t][i]
        /\ stack'[t][n + 1] = h
    BY <1>1, <1>2, <1>3, AppendProperties, LenProperties
  <1>5. \A u \in Threads : u # t => stack'[u] = stack[u]
    BY <1>1, <1>3
  <1>6. ASSUME NEW x \in Arcs PROVE Guards(t, x, "write")' = Guards(t, x, "write")
    <2>1. ASSUME NEW i \in 1..(n + 1), stack'[t][i].guard = "write"
          PROVE  i \in 1..n
      BY <1>2, <1>3, <1>4, <2>1
    <2>2. 1..n \subseteq 1..(n + 1)
      BY <1>3
    <2> QED
      BY <1>3, <1>4, <2>1, <2>2 DEF Guards
  <1>7. ASSUME NEW u \in Threads, NEW x \in Arcs
        PROVE  Guards(u, x, "write")' = Guards(u, x, "write")
    BY <1>5, <1>6 DEF Guards
  <1> QED
    BY <1>7 DEF Locked

\* Two write-locked Arcs belong to different blocks.
LEMMA SameBlockSameArc ==
    ASSUME CacheInv, NEW x \in Locked, NEW y \in Locked,
           cache[x].block_id = cache[y].block_id
    PROVE  x = y
  <1>1. InQueue(x) /\ InQueue(y)
    BY DEF Locked, Guards, CacheInv, HeldIsCached
  <1> QED
    BY <1>1 DEF InQueue, CacheInv, OneCachePerBlock

\* A queue entry that nobody is writing to holds a block that is not open.
LEMMA NotWriting ==
    ASSUME CacheInv, NEW i \in DOMAIN queue,
           \A t \in Threads : ~Guards(t, queue[i], "write")
    PROVE  cache[queue[i]].block_id \notin Writing /\ queue[i] \notin Locked
  <1>1. ASSUME NEW a \in Locked, cache[a].block_id = cache[queue[i]].block_id
        PROVE  FALSE
    <2>1. PICK t \in Threads : Guards(t, a, "write")
      BY <1>1 DEF Locked
    <2>2. InQueue(a)
      BY <2>1 DEF Guards, CacheInv, HeldIsCached
    <2>3. PICK j \in DOMAIN queue : queue[j] = a
      BY <2>2 DEF InQueue
    <2>4. j = i
      BY <1>1, <2>3 DEF CacheInv, OneCachePerBlock
    <2> QED
      BY <2>1, <2>3, <2>4
  <1> QED
    BY <1>1 DEF Writing, Locked

-----------------------------------------------------------------------------
\* Writing back one Cache c, which stays cached (flush) or goes (eviction),
\* while all others stay: block c.block_id becomes durable.
LEMMA WriteBackPersists ==
    ASSUME CacheInv, CacheInv', NEW c \in Cached,
           disk' = Synced(disk, c),
           \A e \in Cached : e # c => e \in Cached',
           \A e \in Cached' : e \in Cached \/ (e.block_id = c.block_id /\ e.data = c.data),
           c.block_id \notin Writing, Writing' = Writing
    PROVE  Store!Persist({c.block_id})
  <1> VisibleInv /\ VisibleInv'
    BY VisibleFacts, VisibleFactsPrime
  <1> USE DEF VisibleInv
  <1>1. c \in Cache /\ disk \in [Blocks -> Data]
    BY DEF CacheInv, TypeOK
  <1>2. /\ disk' \in [Blocks -> Data]
        /\ \A b \in Blocks : b # c.block_id => disk'[b] = disk[b]
        /\ c.modified => disk'[c.block_id] = c.data
        /\ ~c.modified => disk' = disk
    BY <1>1, SyncedFacts
  <1>3. c.block_id \in Blocks /\ disk'[c.block_id] = c.data
    BY <1>1, <1>2 DEF Cache
  <1>4. ASSUME NEW b \in Blocks PROVE Visible'[b] = Visible[b]
    <2>1. CASE \E e \in Cached' : e.block_id = b
      <3>1. PICK e \in Cached' : e.block_id = b
        BY <2>1
      <3>2. Visible'[b] = e.data
        BY <3>1
      <3>3. CASE e \in Cached
        BY <3>1, <3>2, <3>3
      <3>4. CASE e.block_id = c.block_id /\ e.data = c.data
        BY <3>1, <3>2, <3>4
      <3> QED
        BY <3>3, <3>4
    <2>2. CASE \A e \in Cached' : e.block_id # b
      <3>1. Visible'[b] = disk'[b]
        BY <2>2
      <3>2. CASE b = c.block_id
        BY <1>3, <3>1, <3>2
      <3>3. CASE b # c.block_id
        <4>1. \A e \in Cached : e.block_id # b
          BY <2>2, <3>3
        <4> QED
          BY <1>2, <3>1, <3>3, <4>1
      <3> QED
        BY <3>2, <3>3
    <2> QED
      BY <2>1, <2>2
  <1>5. Visible' = Visible
    BY <1>4
  <1>6. ASSUME NEW b \in Blocks
        PROVE  disk'[b] = IF b \in {c.block_id} THEN Visible[b] ELSE disk[b]
    BY <1>2, <1>3
  <1>7. disk' = [b \in Blocks |-> IF b \in {c.block_id} THEN Visible[b] ELSE disk[b]]
    BY <1>2, <1>6
  <1> QED
    BY <1>5, <1>7 DEF Store!Persist

LEMMA EvictPersists ==
    ASSUME CacheInv, CacheInv', NEW v \in DOMAIN queue, Unshared(v), stack' = stack,
           disk' = Synced(disk, cache[queue[v]]),
           cache' = [cache EXCEPT ![queue[v]] = Unused],
           queue' = SwapRemove(queue, v)
    PROVE  Store!Persist({cache[queue[v]].block_id})
  <1> DEFINE n == Len(queue)
             c == cache[queue[v]]
  <1>1. /\ n \in Nat /\ DOMAIN queue = 1..n
        /\ \A i \in 1..n : queue[i] \in Arcs
    BY QueueFacts DEF CacheInv
  <1>2. /\ DOMAIN queue' = 1..(n - 1)
        /\ \A k \in 1..(n - 1) : queue'[k] = IF k = v THEN queue[n] ELSE queue[k]
    BY <1>1 DEF SwapRemove
  <1>3. \A i \in 1..n : i # v => queue[i] # queue[v]
    BY <1>1, DistinctArcs
  <1>4. \A i \in 1..n : i # v => cache'[queue[i]] = cache[queue[i]]
    BY <1>1, <1>3 DEF CacheInv, TypeOK
  <1>5. ASSUME NEW e \in Cached, e # c PROVE e \in Cached'
    <2>1. PICK i \in 1..n : e = cache[queue[i]] /\ i # v
      BY <1>1, <1>5 DEF Cached
    <2>2. CASE i = n
      <3>1. v \in 1..(n - 1) /\ queue'[v] = queue[i]
        BY <1>1, <1>2, <2>1, <2>2
      <3> QED
        BY <1>2, <1>4, <2>1, <3>1 DEF Cached
    <2>3. CASE i # n
      <3>1. i \in 1..(n - 1)
        BY <1>1, <2>1, <2>3, BelowLast, Zenon
      <3>2. queue'[i] = queue[i]
        BY <1>2, <2>1, <3>1
      <3> QED
        BY <1>2, <1>4, <2>1, <3>1, <3>2, SMTT(30) DEF Cached
    <2> QED
      BY <2>2, <2>3
  <1>6. ASSUME NEW e \in Cached' PROVE e \in Cached
    <2>1. PICK k \in 1..(n - 1) : e = cache'[queue'[k]]
      BY <1>2 DEF Cached
    <2>2. PICK i \in 1..n : i # v /\ queue'[k] = queue[i]
      BY <1>1, <1>2, <2>1
    <2> QED
      BY <1>1, <1>4, <2>1, <2>2 DEF Cached
  <1>7. c \in Cached
    BY DEF Cached
  <1>8. c.block_id \notin Writing /\ queue[v] \notin Locked
    BY NotWriting DEF Unshared, Holds, Guards
  <1>9. \A a \in Locked : cache'[a] = cache[a]
    BY <1>8 DEF Locked, CacheInv, TypeOK
  <1>10. Writing' = Writing
    BY <1>9, SameGuards, WritingKept, Zenon
  <1> QED
    BY <1>5, <1>6, <1>7, <1>8, <1>10, WriteBackPersists

LEMMA FlushOnePersists ==
    ASSUME CacheInv, CacheInv', NEW t \in Threads, FlushOne(t)
    PROVE  Store!Persist({cache[queue[pos[t]]].block_id})
  <1> DEFINE p == pos[t]
             a == queue[p]
             c == cache[a]
  <1>1. p \in DOMAIN queue /\ a \in Arcs /\ c \in Cache
    BY QueueFacts DEF FlushOne, CacheInv, TypeOK
  <1>2. disk' = Synced(disk, c) /\ cache' = [cache EXCEPT ![a] = Sync(c)] /\ queue' = queue
    BY DEF FlushOne
  <1>3. Sync(c).block_id = c.block_id /\ Sync(c).data = c.data
    BY <1>1 DEF Sync, Cache
  <1>4. \A i \in DOMAIN queue : i # p => cache'[queue[i]] = cache[queue[i]]
    BY <1>1, <1>2, DistinctArcs, QueueFacts DEF CacheInv, TypeOK
  <1>5. cache'[queue[p]] = Sync(c)
    BY <1>1, <1>2 DEF CacheInv, TypeOK
  <1>6. c \in Cached /\ \A e \in Cached : e # c => e \in Cached'
    BY <1>1, <1>2, <1>4 DEF Cached
  <1>7. ASSUME NEW e \in Cached'
        PROVE  e \in Cached \/ (e.block_id = c.block_id /\ e.data = c.data)
    <2>1. PICK i \in DOMAIN queue : e = cache'[queue[i]]
      BY <1>2 DEF Cached
    <2>2. CASE i = p
      BY <1>3, <1>5, <2>1, <2>2
    <2>3. CASE i # p
      BY <1>4, <2>1, <2>3 DEF Cached
    <2> QED
      BY <2>2, <2>3
  <1>8. c.block_id \notin Writing
    BY <1>1, NotWriting DEF FlushOne, CanWrite, CanRead
  <1>9. \A x \in Arcs : cache'[x].block_id = cache[x].block_id
    BY <1>1, <1>2, <1>3 DEF CacheInv, TypeOK
  <1>10. Writing' = Writing
    BY <1>9, SameGuards, WritingKept, Zenon DEF FlushOne, Locked
  <1> QED
    BY <1>2, <1>6, <1>7, <1>8, <1>10, WriteBackPersists

LEMMA LoadInvisible ==
    ASSUME CacheInv, CacheInv', NEW t \in Threads, Load(t)
    PROVE  Visible' = Visible /\ disk' = disk /\ Writing' = Writing
  <1> VisibleInv /\ VisibleInv'
    BY VisibleFacts, VisibleFactsPrime
  <1> USE DEF VisibleInv
  <1> DEFINE n == Len(queue)
             b == want[t].block_id
             c == [block_id |-> b, data |-> disk[b], modified |-> FALSE]
  <1>1. PICK a \in Arcs : /\ ~InQueue(a) /\ cache' = [cache EXCEPT ![a] = c]
                          /\ queue' = Append(queue, a)
                          /\ Obtain(t, a) /\ \A u \in Threads : ~Holds(u, a)
    BY Zenon DEF Load
  <1>2. pc[t] = "load" /\ disk' = disk
    BY DEF Load
  <1>3. n \in Nat /\ DOMAIN queue = 1..n /\ \A i \in 1..n : queue[i] \in Arcs
    BY QueueFacts DEF CacheInv
  <1>4. /\ DOMAIN queue' = 1..(n + 1)
        /\ \A i \in 1..n : queue'[i] = queue[i]
        /\ queue'[n + 1] = a
    BY <1>1, AppendProperties, LenProperties DEF CacheInv, TypeOK
  <1>5. \A i \in 1..n : cache'[queue'[i]] = cache[queue[i]]
    BY <1>1, <1>3, <1>4 DEF InQueue, CacheInv, TypeOK
  <1>6. cache'[queue'[n + 1]] = c
    BY <1>1, <1>4 DEF CacheInv, TypeOK
  <1>7. \A e \in Cached : e \in Cached'
    <2> SUFFICES ASSUME NEW i \in 1..n PROVE cache[queue[i]] \in Cached'
      BY <1>3 DEF Cached
    <2>1. i \in 1..(n + 1)
      BY <1>3
    <2> QED
      BY <1>4, <1>5, <2>1 DEF Cached
  <1>8. \A e \in Cached' : e \in Cached \/ e = c
    <2> SUFFICES ASSUME NEW i \in 1..(n + 1)
                 PROVE  cache'[queue'[i]] \in Cached \/ cache'[queue'[i]] = c
      BY <1>4 DEF Cached
    <2>1. CASE i \in 1..n
      BY <1>3, <1>5, <2>1 DEF Cached
    <2>2. CASE i = n + 1
      BY <1>6, <2>2
    <2> QED
      BY <1>3, <2>1, <2>2
  <1>9. c \in Cached'
    BY <1>3, <1>4, <1>6 DEF Cached
  <1>10. \A e \in Cached : e.block_id # b
    BY <1>2 DEF Cached, CacheInv, LoaderAlone, Entries
  <1>11. ASSUME NEW x \in Blocks PROVE Visible'[x] = Visible[x]
    <2>1. CASE x = b
      BY <1>9, <1>10, <2>1
    <2>2. CASE x # b /\ \E e \in Cached : e.block_id = x
      BY <1>7, <2>2
    <2>3. CASE x # b /\ \A e \in Cached : e.block_id # x
      <3>1. \A e \in Cached' : e.block_id # x
        BY <1>8, <2>3, SMTT(30)
      <3> QED
        BY <1>2, <2>3, <3>1
    <2> QED
      BY <2>1, <2>2, <2>3
  <1>12. \A x \in Locked : x # a
    BY <1>1, Zenon DEF Locked, Guards, Holds
  <1>13. \A x \in Locked : cache'[x] = cache[x]
    BY <1>1, <1>12 DEF Locked, CacheInv, TypeOK
  <1>14. Writing' = Writing
    BY <1>1, <1>13, ObtainLocksNothing, WritingKept, Zenon
  <1> QED
    BY <1>2, <1>11, <1>14

LEMMA ModifyWrites ==
    ASSUME CacheInv, CacheInv', NEW t \in Threads, NEW d \in Data, Modify(t, d)
    PROVE  \E b \in Blocks : Store!Write(b, d)
  <1> VisibleInv /\ VisibleInv'
    BY VisibleFacts, VisibleFactsPrime
  <1> USE DEF VisibleInv
  <1> DEFINE a == Top(stack[t]).arc
             c == [cache[a] EXCEPT !.data = d, !.modified = TRUE]
             b == cache[a].block_id
  <1>1. a \in Arcs /\ cache[a] \in Cache /\ InQueue(a)
    BY StackFacts DEF Modify, Top, Handle, CacheInv, TypeOK, HeldIsCached
  <1>2. cache' = [cache EXCEPT ![a] = c] /\ queue' = queue /\ disk' = disk
    BY DEF Modify
  <1>3. b \in Blocks /\ c.block_id = b /\ c.data = d
    BY <1>1 DEF Cache
  <1> HIDE DEF c
  <1>4. c \in Cached' /\ cache[a] \in Cached
    BY <1>1, <1>2 DEF Cached, InQueue, CacheInv, TypeOK
  <1>5. \A e \in Cached : e # cache[a] => e \in Cached'
    BY <1>1, <1>2, QueueFacts DEF Cached, CacheInv, TypeOK
  <1>6. \A e \in Cached' : e = c \/ e \in Cached
    BY <1>1, <1>2, QueueFacts DEF Cached, CacheInv, TypeOK
  <1>7. ASSUME NEW x \in Blocks
        PROVE  Visible'[x] = IF x = b THEN d ELSE Visible[x]
    <2>1. CASE x = b
      BY <1>3, <1>4, <2>1
    <2>2. CASE x # b /\ \E e \in Cached : e.block_id = x
      BY <1>5, <2>2
    <2>3. CASE x # b /\ \A e \in Cached : e.block_id # x
      BY <1>2, <1>3, <1>6, <2>3
    <2> QED
      BY <2>1, <2>2, <2>3
  <1>8. Visible' = [Visible EXCEPT ![b] = d]
    BY <1>3, <1>7
  <1>9. b \in Writing
    <2>1. Len(stack[t]) \in DOMAIN stack[t]
      BY StackFacts DEF Modify, CacheInv
    <2>2. Guards(t, a, "write")
      BY <2>1 DEF Guards, Modify, Top
    <2> QED
      BY <1>1, <2>2 DEF Writing, Locked
  <1>10. \A x \in Arcs : cache'[x].block_id = cache[x].block_id
    BY <1>1, <1>2, <1>3 DEF CacheInv, TypeOK
  <1>11. Writing' = Writing
    BY <1>10, SameGuards, WritingKept, Zenon DEF Modify, Locked
  <1> QED
    BY <1>2, <1>3, <1>8, <1>9, <1>11, Zenon DEF Store!Write

\* With an empty queue a reader sees the disk.
LEMMA EmptyQueueVisible ==
    ASSUME CacheInv', queue' = <<>>
    PROVE  Visible' = disk'
  <1>1. VisibleInv' /\ Cached' = {}
    BY VisibleFactsPrime DEF Cached
  <1>2. disk' \in [Blocks -> Data]
    BY DEF CacheInv, TypeOK
  <1> QED
    BY <1>1, <1>2 DEF VisibleInv

LEMMA UnmountPersists ==
    ASSUME CacheInv, CacheInv', Unmount
    PROVE  Store!Persist(Blocks)
  <1> VisibleInv
    BY VisibleFacts
  <1> USE DEF VisibleInv
  <1> DEFINE M(b) == {i \in Entries(b) : cache[queue[i]].modified}
  <1>1. disk' = [b \in Blocks |-> IF \E i \in Entries(b) : cache[queue[i]].modified
                                  THEN cache[queue[First(M(b))]].data ELSE disk[b]]
    BY DEF Unmount
  <1>2. ASSUME NEW b \in Blocks PROVE disk'[b] = Visible[b]
    <2>1. CASE \E i \in Entries(b) : cache[queue[i]].modified
      <3>1. M(b) \subseteq Nat /\ M(b) # {}
        BY <2>1, QueueFacts DEF Entries, CacheInv
      <3>2. First(M(b)) \in M(b)
        BY <3>1, FirstIsLeast
      <3>3. disk'[b] = cache[queue[First(M(b))]].data
        BY <1>1, <2>1
      <3>4. cache[queue[First(M(b))]] \in Cached /\ cache[queue[First(M(b))]].block_id = b
        BY <3>2, Zenon DEF Entries, Cached
      <3> QED
        BY <3>3, <3>4, Zenon
    <2>2. CASE ~\E i \in Entries(b) : cache[queue[i]].modified
      <3>1. disk'[b] = disk[b]
        BY <1>1, <2>2
      <3>2. \A c \in Cached : c.block_id = b => ~c.modified
        BY <2>2 DEF Cached, Entries
      <3> QED
        BY <3>1, <3>2
    <2> QED
      BY <2>1, <2>2, SMTT(30)
  <1>3. disk' = [b \in Blocks |-> IF b \in Blocks THEN Visible[b] ELSE disk[b]]
    BY <1>1, <1>2
  <1>4. Visible' = Visible
    BY <1>3, EmptyQueueVisible, ZenonT(30) DEF Unmount
  <1>5. Writing = {} /\ Writing' = {}
    BY DEF Unmount, Writing, Locked, Guards
  <1> QED
    BY <1>3, <1>4, <1>5 DEF Store!Persist

\* .write() opens the block of the Arc it is called on; .read() opens nothing.
LEMMA LockOpens ==
    ASSUME CacheInv, NEW t \in Threads, Lock(t)
    PROVE  Locked' = Locked \/ \E b \in Blocks : b \notin Writing /\ Writing' = Writing \cup {b}
  <1> DEFINE s == stack[t]
             n == Len(s)
             a == Top(s).arc
             h == [arc |-> a, guard |-> want[t].guard]
  <1>1. /\ s \in Seq(Handle) /\ DOMAIN s = 1..n /\ n \in 1..n /\ s[n] \in Handle
        /\ stack \in [Threads -> Seq(Handle)]
    BY StackFacts DEF Lock, LockHasArc, CacheInv, TypeOK
  <1>2. stack' = [stack EXCEPT ![t] = [s EXCEPT ![n] = h]]
    BY DEF Lock
  <1>3. a \in Arcs /\ h.arc = a /\ h.guard = want[t].guard /\ s[n].arc = a
    BY <1>1 DEF Top, Handle
  <1>4. \A u \in Threads : ~Guards(u, a, "write")
    BY DEF Lock, CanWrite, CanRead
  <1> HIDE DEF h
  <1>5. /\ DOMAIN stack'[t] = 1..n
        /\ stack'[t][n] = h
        /\ \A i \in 1..n : i # n => stack'[t][i] = s[i]
    BY <1>1, <1>2
  <1>6. \A u \in Threads : u # t => stack'[u] = stack[u]
    BY <1>1, <1>2
  <1>7. ASSUME NEW x \in Arcs, x # a
        PROVE  Guards(t, x, "write")' = Guards(t, x, "write")
    BY <1>1, <1>3, <1>5, <1>7 DEF Guards
  <1>8. ASSUME NEW x \in Arcs, x # a PROVE x \in Locked' <=> x \in Locked
    BY <1>6, <1>7, <1>8 DEF Locked, Guards
  <1>9. a \notin Locked
    BY <1>4 DEF Locked
  <1>10. cache' = cache
    BY DEF Lock
  <1>11. CASE want[t].guard = "write"
    <2>1. a \in Locked'
      BY <1>1, <1>3, <1>5, <1>11 DEF Locked, Guards
    <2>2. Locked' = Locked \cup {a}
      BY <1>3, <1>8, <2>1 DEF Locked
    <2>3. Writing' = Writing \cup {cache[a].block_id}
      BY <1>10, <2>2 DEF Writing
    <2>4. PICK i \in DOMAIN queue : queue[i] = a
      BY <1>1, <1>3 DEF CacheInv, HeldIsCached, InQueue
    <2>5. cache[a].block_id \notin Writing /\ cache[a].block_id \in Blocks
      BY <1>4, <2>4, NotWriting, QueueFacts DEF CacheInv, Cache
    <2> QED
      BY <2>3, <2>5
  <1>12. CASE want[t].guard # "write"
    <2>1. ASSUME NEW x \in Arcs, x = a, NEW u \in Threads PROVE ~Guards(u, x, "write")'
      <3>1. CASE u = t
        BY <1>1, <1>3, <1>4, <1>5, <1>12, <2>1, <3>1 DEF Guards
      <3>2. CASE u # t
        BY <1>4, <1>6, <2>1, <3>2 DEF Guards
      <3> QED
        BY <3>1, <3>2
    <2>2. a \notin Locked'
      BY <2>1 DEF Locked
    <2> QED
      BY <1>8, <1>9, <2>2 DEF Locked
  <1> QED
    BY <1>11, <1>12

\* Dropping a guard closes at most the block of that guard.
LEMMA ReleaseCloses ==
    ASSUME CacheInv, NEW t \in Threads, Release(t)
    PROVE  \E b \in Blocks : Writing' = Writing \/ Writing' = Writing \ {b}
  <1> DEFINE s == stack[t]
             n == Len(s)
             a == Top(s).arc
             b == cache[a].block_id
  <1>1. /\ s \in Seq(Handle) /\ DOMAIN s = 1..n /\ n \in 1..n /\ s[n] \in Handle
        /\ \A i \in 1..n : s[i] \in Handle
        /\ stack \in [Threads -> Seq(Handle)]
    BY StackFacts DEF Release, CacheInv, TypeOK
  <1>2. /\ Len(Pop(s)) = n - 1 /\ Pop(s) \in Seq(Handle)
        /\ \A i \in 1..(n - 1) : Pop(s)[i] = s[i]
    <2>1. \A i \in 1..(n - 1) : s[i] \in Handle
      BY <1>1
    <2> QED
      BY <1>1, <2>1, SubSeqProperties DEF Pop
  <1>3. stack' = [stack EXCEPT ![t] = Pop(s)]
    BY DEF Release
  <1>4. /\ DOMAIN stack'[t] = 1..(n - 1)
        /\ \A i \in 1..(n - 1) : stack'[t][i] = s[i]
        /\ \A u \in Threads : u # t => stack'[u] = stack[u]
    BY <1>1, <1>2, <1>3, LenProperties
  <1>5. cache' = cache
    BY ReleaseKeeps
  <1>6. a \in Arcs /\ b \in Blocks /\ s[n].arc = a
    BY <1>1 DEF Top, Handle, CacheInv, TypeOK, Cache
  <1>7. ASSUME NEW u \in Threads, NEW x \in Arcs, Guards(u, x, "write")'
        PROVE  Guards(u, x, "write")
    <2>1. CASE u = t
      <3>1. PICK i \in 1..(n - 1) : s[i].arc = x /\ s[i].guard = "write"
        BY <1>4, <1>7, <2>1 DEF Guards
      <3> QED
        BY <1>1, <2>1, <3>1 DEF Guards
    <2>2. CASE u # t
      BY <1>4, <1>7, <2>2 DEF Guards
    <2> QED
      BY <2>1, <2>2
  <1>8. ASSUME NEW u \in Threads, NEW x \in Arcs, x # a, Guards(u, x, "write")
        PROVE  Guards(u, x, "write")'
    <2>1. CASE u = t
      <3>1. PICK i \in 1..n : s[i].arc = x /\ s[i].guard = "write"
        BY <1>1, <1>8, <2>1 DEF Guards
      <3>2. i \in 1..(n - 1)
        BY <1>1, <1>6, <1>8, <3>1
      <3> QED
        BY <1>4, <2>1, <3>1, <3>2 DEF Guards
    <2>2. CASE u # t
      BY <1>4, <1>8, <2>2 DEF Guards
    <2> QED
      BY <2>1, <2>2
  <1>9. Locked' \subseteq Locked /\ Locked \ {a} \subseteq Locked'
    BY <1>7, <1>8 DEF Locked
  <1>10. CASE a \in Locked' \/ a \notin Locked
    <2>1. Locked' = Locked
      BY <1>9, <1>10
    <2> QED
      BY <1>5, <1>6, <2>1 DEF Writing
  <1>11. CASE a \in Locked /\ a \notin Locked'
    <2>1. Locked' = Locked \ {a}
      BY <1>9, <1>11
    <2>2. ASSUME NEW x \in Locked, x # a PROVE cache[x].block_id # b
      BY <1>11, <2>2, SameBlockSameArc
    <2> QED
      BY <1>5, <1>6, <2>1, <2>2 DEF Writing
  <1> QED
    BY <1>10, <1>11

LEMMA StepRefines ==
    ASSUME CacheInv, CacheInv', [Next]_vars
    PROVE  [Store!Next]_(Store!vars)
  <1>0. ASSUME UNCHANGED <<disk, cache, queue>> PROVE Visible' = Visible
    BY <1>0 DEF Visible, Entries
  <1>1. ASSUME UNCHANGED <<disk, cache, queue>>, Locked' = Locked PROVE UNCHANGED Store!vars
    BY <1>0, <1>1, WritingKept DEF Store!vars
  <1>2. ASSUME NEW B \in SUBSET Blocks, Store!Persist(B) PROVE Store!Next
    BY <1>2 DEF Store!Next
  <1>3. ASSUME NEW i \in DOMAIN queue PROVE cache[queue[i]].block_id \in Blocks
    BY QueueFacts DEF CacheInv, Cache
  <1>4. ASSUME NEW t \in Threads, ThreadStep(t) PROVE [Store!Next]_(Store!vars)
    <2>1. CASE \E b \in Blocks, g \in {"read", "write"} : Get(t, b, g)
      <3>1. PICK b \in Blocks, g \in {"read", "write"} : Get(t, b, g)
        BY <2>1
      <3>2. CASE UNCHANGED stack
        BY <1>1, <3>1, <3>2, SameGuards DEF Get
      <3>3. CASE Entries(b) # {} /\ Obtain(t, queue[First(Entries(b))])
        <4>1. Locked' = Locked
          BY <3>3, FoundInQueue, ObtainLocksNothing DEF CacheInv
        <4> QED
          BY <1>1, <3>1, <4>1 DEF Get
      <3> QED
        BY <3>1, <3>2, <3>3 DEF Get
    <2>2. CASE GetAgain(t)
      <3>1. Locked' = Locked
        BY <2>2, FoundInQueue, ObtainLocksNothing DEF GetAgain, CacheInv
      <3> QED
        BY <1>1, <2>2, <3>1 DEF GetAgain
    <2>3. CASE MakeRoom(t)
      <3> DEFINE victims == {i \in DOMAIN queue : Unshared(i)}
      <3>1. CASE UNCHANGED <<disk, cache, queue>>
        BY <1>1, <2>3, <3>1, SameGuards DEF MakeRoom
      <3>2. CASE ~UNCHANGED <<disk, cache, queue>>
        <4>1. /\ victims # {}
              /\ disk' = Synced(disk, cache[queue[First(victims)]])
              /\ cache' = [cache EXCEPT ![queue[First(victims)]] = Unused]
              /\ queue' = SwapRemove(queue, First(victims))
              /\ stack' = stack
          BY <2>3, <3>2 DEF MakeRoom, Absent
        <4>2. victims \subseteq Nat
          BY QueueFacts DEF CacheInv
        <4>3. First(victims) \in DOMAIN queue /\ Unshared(First(victims))
          BY <4>1, <4>2, FirstIsLeast
        <4>4. Store!Persist({cache[queue[First(victims)]].block_id})
          BY <4>1, <4>3, EvictPersists, Zenon
        <4> QED
          BY <1>2, <1>3, <4>3, <4>4
      <3> QED
        BY <3>1, <3>2
    <2>4. CASE Load(t)
      BY <2>4, LoadInvisible DEF Store!vars
    <2>5. CASE Lock(t)
      <3>1. UNCHANGED <<disk, cache, queue>>
        BY <2>5 DEF Lock
      <3>2. CASE Locked' = Locked
        BY <1>1, <3>1, <3>2
      <3>3. CASE \E b \in Blocks : b \notin Writing /\ Writing' = Writing \cup {b}
        BY <1>0, <3>1, <3>3 DEF Store!Next, Store!Open
      <3> QED
        BY <2>5, <3>2, <3>3, LockOpens
    <2>6. CASE \E d \in Data : Modify(t, d)
      BY <2>6, ModifyWrites DEF Store!Next
    <2>7. CASE Release(t)
      <3>1. UNCHANGED <<disk, cache, queue>>
        BY <2>7, ReleaseKeeps, Zenon DEF Release
      <3>2. PICK b \in Blocks : Writing' = Writing \/ Writing' = Writing \ {b}
        BY <2>7, ReleaseCloses
      <3> QED
        BY <1>0, <3>1, <3>2 DEF Store!Next, Store!Close, Store!vars
    <2>8. CASE FlushBegin(t)
      BY <1>1, <2>8, SameGuards DEF FlushBegin
    <2>9. CASE FlushOne(t)
      <3>1. pos[t] \in DOMAIN queue
        BY <2>9, QueueFacts DEF FlushOne, CacheInv, TypeOK
      <3> QED
        BY <1>2, <1>3, <2>9, <3>1, FlushOnePersists, Zenon
    <2>10. CASE FlushEnd(t)
      BY <1>1, <2>10, SameGuards DEF FlushEnd
    <2> QED
      BY <1>4, <2>1, <2>2, <2>3, <2>4, <2>5, <2>6, <2>7, <2>8, <2>9, <2>10 DEF ThreadStep
  <1>5. CASE Unmount
    BY <1>2, <1>5, UnmountPersists
  <1>6. CASE Crash
    <2>1. Writing' = {}
      BY <1>6 DEF Crash, Writing, Locked, Guards
    <2> QED
      BY <1>6, <2>1, EmptyQueueVisible DEF Crash, Store!Next, Store!Crash
  <1>7. CASE UNCHANGED vars
    BY <1>1, <1>7, SameGuards DEF vars
  <1> QED
    BY <1>4, <1>5, <1>6, <1>7 DEF Next

LEMMA InitRefines == ASSUME Init PROVE Store!Init
  <1>1. Writing = {}
    BY DEF Init, Writing, Locked, Guards
  <1> QED
    BY <1>1 DEF Init, Store!Init, Visible, Entries

\* The write-back cache, with its evictions, flushes, unmounts and crashes, is
\* transparent: it implements BlockStore.
THEOREM CacheImplementsStore == Spec => Transparent
  <1>1. Init => Store!Init
    BY InitRefines
  <1>2. CacheInv /\ CacheInv' /\ [Next]_vars => [Store!Next]_(Store!vars)
    BY StepRefines
  <1> QED
    BY <1>1, <1>2, CacheInvariant, PTL DEF Spec, Transparent, Store!Spec
=============================================================================
