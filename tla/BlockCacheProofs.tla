-------------------------- MODULE BlockCacheProofs --------------------------
(* Proofs about BlockCache for any number of threads, blocks and contents,    *)
(* any cache size and any nesting depth.                                      *)
EXTENDS BlockCache, SequenceTheorems, WellFoundedInduction, FiniteSetTheorems, TLAPS

-----------------------------------------------------------------------------
\* Operators

\* Vec::swap_remove yields a shorter sequence of elements of the old one.
LEMMA SwapRemoveType ==
    ASSUME NEW S, NEW q \in Seq(S), NEW i \in 1..Len(q)
    PROVE  /\ SwapRemove(q, i) \in Seq(S)
           /\ Len(SwapRemove(q, i)) = Len(q) - 1
           /\ \A k \in 1..(Len(q) - 1) :
                SwapRemove(q, i)[k] = IF k = i THEN q[Len(q)] ELSE q[k]
  <1> DEFINE r == SwapRemove(q, i)
  <1>1. r \in [1..(Len(q) - 1) -> S]
    BY DEF SwapRemove
  <1>2. Len(q) - 1 \in Nat
    OBVIOUS
  <1>3. r \in Seq(S)
    BY <1>1, <1>2, SeqDef
  <1>4. Len(r) = Len(q) - 1
    BY <1>1, <1>2, <1>3, LenProperties
  <1> QED
    BY <1>3, <1>4 DEF SwapRemove

\* First picks the least index of a non-empty set: iter().find() in the code.
LEMMA FirstIsLeast ==
    ASSUME NEW I, I \subseteq Nat, I # {}
    PROVE  First(I) \in I /\ \A j \in I : First(I) <= j
  <1> DEFINE R == {p \in Nat \X Nat : p[1] < p[2]}
  <1>1. IsWellFoundedOn(R, Nat)
    BY NatLessThanWellFounded DEF OpToRel
  <1>2. PICK x \in I : \A y \in I : ~(<<y, x>> \in R)
    BY <1>1, WFMin, Zenon
  <1>3. \A y \in I : x <= y
    <2> SUFFICES ASSUME NEW y \in I, y < x PROVE FALSE
      BY SMT
    <2>1. <<y, x>> \in Nat \X Nat /\ <<y, x>>[1] < <<y, x>>[2]
      BY SMT
    <2> QED
      BY <1>2, <2>1, Zenon
  <1> QED
    BY <1>3, Zenon DEF First
-----------------------------------------------------------------------------
\* The inductive invariant

\* A thread between eviction and load is alone with the queue, the block it
\* loads is not there, and there is room for it.
LoaderAlone ==
    \A t \in Threads : pc[t] = "load" =>
        /\ Entries(want[t].block_id) = {}
        /\ Len(queue) < CACHE_SIZE
        /\ \A u \in Threads : /\ pc[u] # "flush"
                              /\ pc[u] = "load" => u = t

CacheBound == Len(queue) <= CACHE_SIZE

LockHasArc == \A t \in Threads : pc[t] = "lock" => stack[t] # <<>>

CacheInv ==
    /\ TypeOK
    /\ OneCachePerBlock
    /\ HeldIsCached
    /\ CleanMatchesDisk
    /\ FlushOwes
    /\ LoaderAlone
    /\ CacheBound
    /\ LockHasArc

\* Facts about well-typed states that the steps below keep using.
LEMMA QueueFacts ==
    ASSUME TypeOK
    PROVE  /\ Len(queue) \in Nat
           /\ DOMAIN queue = 1..Len(queue)
           /\ \A i \in DOMAIN queue : queue[i] \in Arcs /\ cache[queue[i]] \in Cache
  BY LenProperties, ElementOfSeq DEF TypeOK

LEMMA StackFacts ==
    ASSUME TypeOK, NEW t \in Threads
    PROVE  /\ stack[t] \in Seq(Handle)
           /\ Len(stack[t]) \in Nat
           /\ DOMAIN stack[t] = 1..Len(stack[t])
           /\ \A i \in DOMAIN stack[t] : stack[t][i] \in Handle
           /\ stack[t] # <<>> => Len(stack[t]) \in DOMAIN stack[t]
  BY LenProperties, ElementOfSeq, EmptySeq DEF TypeOK

LEMMA InitCacheInv == ASSUME Init PROVE CacheInv
  <1>1. Unused \in Cache /\ NoRequest \in Request
    BY CacheAssumption DEF Unused, NoRequest, Cache, Request
  <1>2. TypeOK
    <2>1. <<>> \in Seq(Arcs) /\ <<>> \in Seq(Handle)
      OBVIOUS
    <2>2. stack \in [Threads -> Seq(Handle)] /\ queue \in Seq(Arcs)
      BY <2>1 DEF Init
    <2>3. panicked \in BOOLEAN
      BY Zenon DEF Init
    <2>4. /\ pos \in [Threads -> Nat \ {0}]
          /\ owed \in [Threads -> SUBSET Blocks]
          /\ pc \in [Threads -> {"run", "miss", "load", "lock", "flush"}]
      BY DEF Init
    <2> QED
      BY <1>1, <2>2, <2>3, <2>4 DEF Init, TypeOK
  <1>3. DOMAIN queue = {} /\ \A t \in Threads : DOMAIN stack[t] = {}
    BY DEF Init
  <1> QED
    BY <1>2, <1>3, CacheAssumption
       DEF Init, CacheInv, OneCachePerBlock, HeldIsCached, CleanMatchesDisk,
           FlushOwes, LoaderAlone, CacheBound, LockHasArc

\* A new Arc on the stack of t that is in the queue.
LEMMA ObtainSteps ==
    ASSUME TypeOK, NEW t \in Threads, NEW a \in Arcs, Obtain(t, a)
    PROVE  /\ stack' \in [Threads -> Seq(Handle)]
           /\ pc' \in [Threads -> {"run", "miss", "load", "lock", "flush"}]
           /\ \A u \in Threads : \A i \in DOMAIN stack'[u] :
                 stack'[u][i].arc = a \/ \E j \in DOMAIN stack[u] : stack'[u][i].arc = stack[u][j].arc
           /\ stack'[t] # <<>> /\ pc'[t] = "lock"
           /\ \A u \in Threads : u # t => stack'[u] = stack[u] /\ pc'[u] = pc[u]
  <1> DEFINE h == [arc |-> a, guard |-> "none"]
  <1>1. h \in Handle
    BY DEF Handle
  <1>2. stack' = [stack EXCEPT ![t] = Append(stack[t], h)]
    BY DEF Obtain
  <1>3. stack[t] \in Seq(Handle)
    BY DEF TypeOK
  <1>4. Append(stack[t], h) \in Seq(Handle)
    BY <1>1, <1>3, AppendProperties
  <1>5. stack' \in [Threads -> Seq(Handle)]
    BY <1>2, <1>4 DEF TypeOK
  <1>6. ASSUME NEW u \in Threads, NEW i \in DOMAIN stack'[u]
        PROVE  stack'[u][i].arc = a \/ \E j \in DOMAIN stack[u] : stack'[u][i].arc = stack[u][j].arc
    <2>1. CASE u # t
      BY <1>2, <1>6, <2>1 DEF TypeOK
    <2>2. CASE u = t
      <3>1. stack'[u] = Append(stack[t], h)
        BY <1>2, <2>2 DEF TypeOK
      <3>2. i \in 1..(Len(stack[t]) + 1)
        BY <1>6, <3>1, <1>4, <1>3, <1>1, AppendProperties, LenProperties
      <3>3. CASE i = Len(stack[t]) + 1
        BY <3>1, <3>3, <1>1, <1>3, AppendProperties
      <3>4. CASE i \in 1..Len(stack[t])
        BY <2>2, <3>1, <3>4, <1>1, <1>3, AppendProperties, LenProperties
      <3> QED
        BY <3>2, <3>3, <3>4, <1>3, LenProperties
    <2> QED
      BY <2>1, <2>2
  <1>7. stack'[t] # <<>>
    <2>1. stack'[t] = Append(stack[t], h)
      BY <1>2 DEF TypeOK
    <2> QED
      BY <2>1, <1>1, <1>3
  <1> QED
    BY <1>2, <1>5, <1>6, <1>7 DEF Obtain, TypeOK
-----------------------------------------------------------------------------
\* One lemma per step

\* A hit of get, in either lookup.
LEMMA ObtainKeeps ==
    ASSUME CacheInv, NEW t \in Threads, NEW a \in Arcs, InQueue(a), Obtain(t, a),
           pc[t] \in {"run", "miss"}, QueueWriters = {},
           want' \in [Threads -> Request],
           UNCHANGED <<disk, cache, queue, pos, panicked, owed>>
    PROVE  CacheInv'
  <1> USE DEF CacheInv
  <1>0. /\ stack' \in [Threads -> Seq(Handle)]
        /\ pc' \in [Threads -> {"run", "miss", "load", "lock", "flush"}]
        /\ \A u \in Threads : \A i \in DOMAIN stack'[u] :
              stack'[u][i].arc = a \/ \E j \in DOMAIN stack[u] : stack'[u][i].arc = stack[u][j].arc
        /\ stack'[t] # <<>> /\ pc'[t] = "lock"
        /\ \A u \in Threads : u # t => stack'[u] = stack[u] /\ pc'[u] = pc[u]
    BY ObtainSteps, Zenon
  <1>1. TypeOK'
    BY <1>0 DEF TypeOK
  <1>2. OneCachePerBlock' /\ CleanMatchesDisk' /\ CacheBound'
    BY DEF OneCachePerBlock, CleanMatchesDisk, CacheBound
  <1>3. HeldIsCached'
    BY <1>0 DEF HeldIsCached, InQueue
  <1>4. FlushOwes'
    BY <1>0 DEF FlushOwes, Entries
  <1>5. LoaderAlone'
    BY <1>0, ZenonT(30) DEF LoaderAlone, QueueWriters
  <1>6. LockHasArc'
    BY <1>0, Zenon DEF LockHasArc
  <1> QED
    BY <1>1, <1>2, <1>3, <1>4, <1>5, <1>6

\* What find() returns in get is an Arc of the queue.
LEMMA FoundInQueue ==
    ASSUME TypeOK, NEW b, Entries(b) # {}
    PROVE  /\ First(Entries(b)) \in Entries(b)
           /\ queue[First(Entries(b))] \in Arcs
           /\ InQueue(queue[First(Entries(b))])
  <1>1. Entries(b) \subseteq DOMAIN queue /\ DOMAIN queue \subseteq Nat
    BY QueueFacts DEF Entries
  <1>2. First(Entries(b)) \in Entries(b)
    BY <1>1, FirstIsLeast
  <1> QED
    BY <1>1, <1>2, QueueFacts DEF InQueue

LEMMA GetKeeps ==
    ASSUME CacheInv, NEW t \in Threads, NEW b \in Blocks, NEW g \in {"read", "write"},
           Get(t, b, g)
    PROVE  CacheInv'
  <1> USE DEF CacheInv
  <1>0. want' \in [Threads -> Request]
    BY DEF Get, TypeOK, Request
  <1>1. CASE Entries(b) # {}
    <2>1. Obtain(t, queue[First(Entries(b))])
      BY <1>1 DEF Get
    <2> QED
      BY <1>0, <1>1, <2>1, FoundInQueue, ObtainKeeps DEF Get
  <1>2. CASE Entries(b) = {}
    <2>1. pc' = [pc EXCEPT ![t] = "miss"] /\ UNCHANGED <<stack, disk, cache, queue, pos, panicked, owed>>
      BY <1>2 DEF Get
    <2>2. QueueWriters = {} /\ pc[t] = "run"
      BY DEF Get
    <2>3. TypeOK'
      BY <1>0, <2>1 DEF TypeOK
    <2>4. OneCachePerBlock' /\ CleanMatchesDisk' /\ CacheBound' /\ HeldIsCached'
      BY <2>1 DEF OneCachePerBlock, CleanMatchesDisk, CacheBound, HeldIsCached, InQueue
    <2>5. FlushOwes' /\ LockHasArc'
      BY <2>1, <2>2, Zenon DEF FlushOwes, Entries, LockHasArc, TypeOK
    <2>6. LoaderAlone'
      BY <2>1, <2>2 DEF LoaderAlone, QueueWriters, TypeOK
    <2> QED
      BY <2>3, <2>4, <2>5, <2>6
  <1> QED
    BY <1>1, <1>2

LEMMA GetAgainKeeps ==
    ASSUME CacheInv, NEW t \in Threads, GetAgain(t)
    PROVE  CacheInv'
  <1> DEFINE b == want[t].block_id
  <1>1. Entries(b) # {} /\ Obtain(t, queue[First(Entries(b))])
    BY DEF GetAgain
  <1>2. want' \in [Threads -> Request]
    BY DEF GetAgain, CacheInv, TypeOK
  <1> QED
    BY <1>1, <1>2, FoundInQueue, ObtainKeeps DEF GetAgain, CacheInv
LEMMA BelowLast ==
    ASSUME NEW n \in Nat, NEW j \in 1..n, j # n PROVE j \in 1..(n - 1)
  OBVIOUS

\* Two queue entries never share an Arc.
LEMMA DistinctArcs ==
    ASSUME CacheInv, NEW i \in DOMAIN queue, NEW j \in DOMAIN queue, queue[i] = queue[j]
    PROVE  i = j
  BY DEF CacheInv, OneCachePerBlock

\* Writing a Cache back changes the disk at its block only, to its data.
LEMMA SyncedFacts ==
    ASSUME NEW d \in [Blocks -> Data], NEW c \in Cache
    PROVE  /\ Synced(d, c) \in [Blocks -> Data]
           /\ \A b \in Blocks : b # c.block_id => Synced(d, c)[b] = d[b]
           /\ c.modified => Synced(d, c)[c.block_id] = c.data
           /\ ~c.modified => Synced(d, c) = d
  BY DEF Synced, Cache

\* Evicting the first unshared entry.
LEMMA EvictKeeps ==
    ASSUME CacheInv, NEW t \in Threads, NEW v \in DOMAIN queue, Unshared(v),
           pc[t] = "miss", QueueReaders = {}, QueueWriters = {},
           Entries(want[t].block_id) = {},
           disk' = Synced(disk, cache[queue[v]]),
           Settle({cache[queue[v]].block_id}),
           cache' = [cache EXCEPT ![queue[v]] = Unused],
           queue' = SwapRemove(queue, v),
           pc' = [pc EXCEPT ![t] = "load"],
           UNCHANGED <<panicked, stack, want, pos>>
    PROVE  CacheInv'
  <1> USE DEF CacheInv
  <1> DEFINE n == Len(queue)
             m(k) == IF k = v THEN n ELSE k
  <1>1. /\ n \in Nat /\ DOMAIN queue = 1..n
        /\ \A i \in 1..n : queue[i] \in Arcs /\ cache[queue[i]] \in Cache
    BY QueueFacts
  <1>2. /\ queue' \in Seq(Arcs)
        /\ Len(queue') = n - 1
        /\ DOMAIN queue' = 1..(n - 1)
        /\ \A k \in 1..(n - 1) : queue'[k] = queue[m(k)]
    <2>1. queue \in Seq(Arcs) /\ v \in 1..Len(queue)
      BY <1>1 DEF TypeOK
    <2>2. /\ SwapRemove(queue, v) \in Seq(Arcs)
          /\ Len(SwapRemove(queue, v)) = Len(queue) - 1
          /\ \A k \in 1..(Len(queue) - 1) :
                SwapRemove(queue, v)[k] = IF k = v THEN queue[Len(queue)] ELSE queue[k]
      BY <2>1, SwapRemoveType, Zenon
    <2> QED
      BY <2>2, LenProperties
  <1>3. \A k \in 1..(n - 1) : m(k) \in 1..n /\ m(k) # v
    BY <1>1
  <1>4. \A k, l \in 1..(n - 1) : m(k) = m(l) => k = l
    BY <1>1
  <1>5. \A k \in 1..(n - 1) : cache'[queue'[k]] = cache[queue[m(k)]]
    <2> SUFFICES ASSUME NEW k \in 1..(n - 1) PROVE cache'[queue'[k]] = cache[queue[m(k)]]
      OBVIOUS
    <2>1. queue[m(k)] # queue[v]
      BY <1>1, <1>3, DistinctArcs
    <2> QED
      BY <1>1, <1>2, <1>3, <2>1 DEF TypeOK
  <1>6. TypeOK'
    <2>1. Unused \in Cache
      BY CacheAssumption DEF Unused, Cache
    <2>2. disk' \in [Blocks -> Data]
      BY <1>1, SyncedFacts, Zenon DEF TypeOK
    <2> QED
      BY <1>2, <2>1, <2>2 DEF TypeOK, Settle
  <1>7. OneCachePerBlock'
    BY <1>1, <1>2, <1>3, <1>4, <1>5, SMTT(30) DEF OneCachePerBlock
  <1>8. CleanMatchesDisk'
    <2> SUFFICES ASSUME NEW k \in 1..(n - 1), ~cache'[queue'[k]].modified
                 PROVE  cache'[queue'[k]].data = disk'[cache'[queue'[k]].block_id]
      BY <1>2 DEF CleanMatchesDisk
    <2> DEFINE c == cache[queue[m(k)]]
    <2>1. c \in Cache /\ ~c.modified /\ c.data = disk[c.block_id]
      BY <1>1, <1>3, <1>5 DEF CleanMatchesDisk
    <2>2. c.block_id # cache[queue[v]].block_id
      BY <1>1, <1>3 DEF OneCachePerBlock
    <2>3. disk'[c.block_id] = disk[c.block_id]
      <3>1. /\ cache[queue[v]] \in Cache /\ disk \in [Blocks -> Data]
            /\ c.block_id \in Blocks
        BY <1>1, <2>1 DEF TypeOK, Cache
      <3>2. \A b \in Blocks : b # cache[queue[v]].block_id => disk'[b] = disk[b]
        BY <3>1, SyncedFacts
      <3> QED
        BY <2>2, <3>1, <3>2
    <2> QED
      BY <1>5, <2>1, <2>3
  <1>9. HeldIsCached'
    <2> SUFFICES ASSUME NEW u \in Threads, NEW i \in DOMAIN stack[u]
                 PROVE  \E k \in 1..(n - 1) : queue'[k] = stack[u][i].arc
      BY <1>2, SMTT(30) DEF HeldIsCached, InQueue
    <2>1. PICK j \in 1..n : queue[j] = stack[u][i].arc
      BY <1>1 DEF HeldIsCached, InQueue
    <2>2. j # v
      BY <2>1 DEF Unshared, Holds
    <2>3. CASE j = n
      BY <1>1, <1>2, <2>1, <2>2, <2>3
    <2>4. CASE j # n
      <3>1. j \in 1..(n - 1)
        BY <1>1, <2>1, <2>4, BelowLast, Zenon
      <3>2. queue'[j] = queue[j]
        BY <1>2, <2>2, <3>1
      <3> QED
        BY <2>1, <3>1, <3>2, SMTT(30)
    <2> QED
      BY <2>3, <2>4
  <1>10. FlushOwes'
    BY DEF FlushOwes, QueueReaders, Settle
  <1>11. LoaderAlone'
    <2>1. \A k \in 1..(n - 1) : cache'[queue'[k]].block_id # want[t].block_id
      BY <1>1, <1>3, <1>5, ZenonT(30) DEF Entries
    <2>2. (Entries(want[t].block_id))' = {}
      BY <1>2, <2>1 DEF Entries
    <2>3. Len(queue') < CACHE_SIZE
      BY <1>1, <1>2, CacheAssumption DEF CacheBound
    <2> QED
      BY <2>2, <2>3, Zenon DEF LoaderAlone, QueueReaders, QueueWriters, TypeOK
  <1>12. CacheBound' /\ LockHasArc'
    BY <1>1, <1>2, CacheAssumption DEF CacheBound, LockHasArc, TypeOK
  <1> QED
    BY <1>6, <1>7, <1>8, <1>9, <1>10, <1>11, <1>12

LEMMA MakeRoomKeeps ==
    ASSUME CacheInv, NEW t \in Threads, MakeRoom(t)
    PROVE  CacheInv'
  <1> USE DEF CacheInv
  <1> DEFINE victims == {i \in DOMAIN queue : Unshared(i)}
  <1>1. CASE Len(queue) # CACHE_SIZE
    <2>1. pc' = [pc EXCEPT ![t] = "load"] /\ UNCHANGED <<disk, cache, queue, panicked, owed, stack, want, pos>>
      BY <1>1 DEF MakeRoom, Absent
    <2>2. QueueReaders = {} /\ QueueWriters = {} /\ Entries(want[t].block_id) = {}
      BY DEF MakeRoom, Absent
    <2>3. Len(queue) < CACHE_SIZE
      <3>1. Len(queue) \in Nat /\ Len(queue) <= CACHE_SIZE
        BY QueueFacts DEF CacheBound
      <3> QED
        BY <1>1, <3>1, CacheAssumption
    <2>4. TypeOK' /\ OneCachePerBlock' /\ CleanMatchesDisk' /\ CacheBound' /\ HeldIsCached'
      BY <2>1 DEF TypeOK, OneCachePerBlock, CleanMatchesDisk, CacheBound, HeldIsCached, InQueue
    <2>5. FlushOwes' /\ LockHasArc'
      BY <2>1, <2>2 DEF FlushOwes, QueueReaders, LockHasArc, TypeOK
    <2>6. LoaderAlone'
      BY <2>1, <2>2, <2>3 DEF LoaderAlone, QueueReaders, QueueWriters, Entries, TypeOK
    <2> QED
      BY <2>4, <2>5, <2>6
  <1>2. CASE Len(queue) = CACHE_SIZE /\ victims # {}
    <2>1. victims \subseteq Nat
      BY QueueFacts
    <2>2. First(victims) \in DOMAIN queue /\ Unshared(First(victims))
      BY <1>2, <2>1, FirstIsLeast, Zenon
    <2> QED
      BY <1>2, <2>2, EvictKeeps DEF MakeRoom, Absent
  <1>3. CASE Len(queue) = CACHE_SIZE /\ victims = {}
    <2>1. UNCHANGED <<disk, cache, queue, pc, owed, stack, want, pos>> /\ panicked' = TRUE
      BY <1>3 DEF MakeRoom, Absent
    <2> QED
      BY <2>1 DEF TypeOK, OneCachePerBlock, CleanMatchesDisk, CacheBound, HeldIsCached, InQueue,
                  FlushOwes, LockHasArc, LoaderAlone, Entries
  <1> QED
    BY <1>1, <1>2, <1>3
LEMMA LoadKeeps ==
    ASSUME CacheInv, NEW t \in Threads, Load(t)
    PROVE  CacheInv'
  <1> USE DEF CacheInv
  <1> DEFINE n == Len(queue)
             b == want[t].block_id
             c == [block_id |-> b, data |-> disk[b], modified |-> FALSE]
  <1>0. PICK a \in Arcs :
            /\ ~InQueue(a) /\ \A u \in Threads : ~Holds(u, a)
            /\ cache' = [cache EXCEPT ![a] = c]
            /\ queue' = Append(queue, a)
            /\ Obtain(t, a)
    BY Zenon DEF Load
  <1>1. /\ pc[t] = "load"
        /\ UNCHANGED <<disk, want, pos, panicked, owed>>
    BY DEF Load
  <1>2. /\ n \in Nat /\ DOMAIN queue = 1..n
        /\ \A i \in 1..n : queue[i] \in Arcs /\ cache[queue[i]] \in Cache
    BY QueueFacts
  <1>3. /\ queue' \in Seq(Arcs) /\ Len(queue') = n + 1 /\ DOMAIN queue' = 1..(n + 1)
        /\ \A i \in 1..n : queue'[i] = queue[i]
        /\ queue'[n + 1] = a
    BY <1>0, AppendProperties, LenProperties DEF TypeOK
  <1>4. b \in Blocks /\ c \in Cache
    BY DEF TypeOK, Request, Cache
  <1>5. \A i \in 1..n : cache'[queue'[i]] = cache[queue[i]]
    BY <1>0, <1>2, <1>3, Zenon DEF InQueue, TypeOK
  <1>6. cache'[queue'[n + 1]] = c
    BY <1>0, <1>3 DEF TypeOK
  <1>7. /\ \A i \in 1..n : cache[queue[i]].block_id # b
        /\ n < CACHE_SIZE
        /\ \A u \in Threads : pc[u] # "flush" /\ (pc[u] = "load" => u = t)
    BY <1>1, <1>2 DEF LoaderAlone, Entries
  <1>8. /\ stack' \in [Threads -> Seq(Handle)]
        /\ pc' \in [Threads -> {"run", "miss", "load", "lock", "flush"}]
        /\ \A u \in Threads : \A i \in DOMAIN stack'[u] :
              stack'[u][i].arc = a \/ \E j \in DOMAIN stack[u] : stack'[u][i].arc = stack[u][j].arc
        /\ stack'[t] # <<>> /\ pc'[t] = "lock"
        /\ \A u \in Threads : u # t => stack'[u] = stack[u] /\ pc'[u] = pc[u]
    BY <1>0, ObtainSteps, SMTT(30)
  <1>9. TypeOK'
    BY <1>0, <1>1, <1>3, <1>4, <1>8 DEF TypeOK
  <1>10. OneCachePerBlock'
    <2> SUFFICES ASSUME NEW i \in 1..(n + 1), NEW j \in 1..(n + 1),
                        cache'[queue'[i]].block_id = cache'[queue'[j]].block_id
                 PROVE  i = j
      BY <1>3 DEF OneCachePerBlock
    <2>1. CASE i \in 1..n /\ j \in 1..n
      BY <1>2, <1>5, <2>1, SMTT(30) DEF OneCachePerBlock
    <2>2. CASE i = n + 1 /\ j \in 1..n
      BY <1>5, <1>6, <1>7, <2>2
    <2>3. CASE i \in 1..n /\ j = n + 1
      BY <1>5, <1>6, <1>7, <2>3
    <2> QED
      BY <1>2, <2>1, <2>2, <2>3
  <1>11. CleanMatchesDisk'
    <2> SUFFICES ASSUME NEW i \in 1..(n + 1), ~cache'[queue'[i]].modified
                 PROVE  cache'[queue'[i]].data = disk[cache'[queue'[i]].block_id]
      BY <1>1, <1>3 DEF CleanMatchesDisk
    <2>1. CASE i \in 1..n
      BY <1>2, <1>5, <2>1 DEF CleanMatchesDisk
    <2>2. CASE i = n + 1
      BY <1>6, <2>2
    <2> QED
      BY <1>2, <2>1, <2>2
  <1>12. HeldIsCached'
    <2> SUFFICES ASSUME NEW u \in Threads, NEW i \in DOMAIN stack'[u]
                 PROVE  \E k \in 1..(n + 1) : queue'[k] = stack'[u][i].arc
      BY <1>3 DEF HeldIsCached, InQueue
    <2>1. CASE stack'[u][i].arc = a
      BY <1>2, <1>3, <2>1
    <2>2. CASE \E j \in DOMAIN stack[u] : stack'[u][i].arc = stack[u][j].arc
      <3>1. PICK k \in 1..n : queue[k] = stack'[u][i].arc
        BY <1>2, <2>2 DEF HeldIsCached, InQueue
      <3>2. k \in 1..(n + 1) /\ queue'[k] = stack'[u][i].arc
        BY <1>2, <1>3, <3>1
      <3> QED
        BY <3>2
    <2> QED
      BY <1>8, <2>1, <2>2
  <1>13. FlushOwes'
    BY <1>1, <1>7 DEF FlushOwes
  <1>14. LoaderAlone'
    BY <1>7, <1>8 DEF LoaderAlone
  <1>15. CacheBound'
    BY <1>2, <1>3, <1>7, CacheAssumption DEF CacheBound
  <1>16. LockHasArc'
    BY <1>8 DEF LockHasArc
  <1> QED
    BY <1>9, <1>10, <1>11, <1>12, <1>13, <1>14, <1>15, <1>16

\* Steps that leave the queue and its Caches alone and give each thread only
\* Arcs it already had.
LEMMA StackStepKeeps ==
    ASSUME CacheInv, NEW t \in Threads,
           UNCHANGED <<disk, cache, queue, pos, panicked, owed>>,
           stack' \in [Threads -> Seq(Handle)], want' \in [Threads -> Request],
           \A u \in Threads : \A i \in DOMAIN stack'[u] :
               \E j \in DOMAIN stack[u] : stack'[u][i].arc = stack[u][j].arc,
           \A u \in Threads : u # t => stack'[u] = stack[u] /\ want'[u] = want[u],
           pc[t] \in {"run", "lock"}, pc' = [pc EXCEPT ![t] = "run"]
    PROVE  CacheInv'
  <1> USE DEF CacheInv
  <1>1. TypeOK'
    BY DEF TypeOK
  <1>2. OneCachePerBlock' /\ CleanMatchesDisk' /\ CacheBound'
    BY DEF OneCachePerBlock, CleanMatchesDisk, CacheBound
  <1>3. HeldIsCached'
    BY ZenonT(30) DEF HeldIsCached, InQueue
  <1>4. \A u \in Threads : pc'[u] = IF u = t THEN "run" ELSE pc[u]
    BY DEF TypeOK
  <1>5. FlushOwes'
    <2> SUFFICES ASSUME NEW u \in Threads, NEW b \in owed[u]
                 PROVE  pc'[u] = "flush" /\ \E i \in Entries(b)' : i >= pos[u]
      BY DEF FlushOwes
    <2>1. pc[u] = "flush" /\ \E i \in Entries(b) : i >= pos[u]
      BY DEF FlushOwes
    <2> QED
      BY <1>4, <2>1 DEF Entries
  <1>7. LockHasArc'
    <2> SUFFICES ASSUME NEW u \in Threads, pc'[u] = "lock" PROVE stack'[u] # <<>>
      BY Zenon DEF LockHasArc
    <2>1. u # t /\ pc[u] = "lock"
      BY <1>4
    <2> QED BY <2>1, Zenon DEF LockHasArc
  <1>6. LoaderAlone'
    BY <1>4 DEF LoaderAlone, Entries
  <1> QED
    BY <1>1, <1>2, <1>3, <1>5, <1>6, <1>7
LEMMA LockKeeps ==
    ASSUME CacheInv, NEW t \in Threads, Lock(t)
    PROVE  CacheInv'
  <1> USE DEF CacheInv
  <1> DEFINE s == stack[t]
             h == [arc |-> Top(s).arc, guard |-> want[t].guard]
  <1>1. s \in Seq(Handle) /\ DOMAIN s = 1..Len(s) /\ Len(s) \in 1..Len(s) /\ s[Len(s)] \in Handle
    BY StackFacts DEF Lock, LockHasArc
  <1>2. h \in Handle
    BY <1>1 DEF Handle, Top, TypeOK, Request
  <1>3. stack' = [stack EXCEPT ![t] = [s EXCEPT ![Len(s)] = h]]
    BY DEF Lock
  <1>4. /\ [s EXCEPT ![Len(s)] = h] \in Seq(Handle)
        /\ DOMAIN [s EXCEPT ![Len(s)] = h] = DOMAIN s
        /\ \A i \in DOMAIN s : [s EXCEPT ![Len(s)] = h][i].arc = s[i].arc
    BY <1>1, <1>2, ExceptSeq DEF Top
  <1>5. stack' \in [Threads -> Seq(Handle)]
    BY <1>3, <1>4 DEF TypeOK
  <1>6. \A u \in Threads : \A i \in DOMAIN stack'[u] :
            \E j \in DOMAIN stack[u] : stack'[u][i].arc = stack[u][j].arc
    BY <1>3, <1>4, Zenon DEF TypeOK
  <1>7. NoRequest \in Request
    BY CacheAssumption DEF NoRequest, Request
  <1>8. /\ want' \in [Threads -> Request]
        /\ \A u \in Threads : u # t => stack'[u] = stack[u] /\ want'[u] = want[u]
    BY <1>3, <1>7 DEF Lock, TypeOK
  <1> QED
    BY <1>5, <1>6, <1>8, StackStepKeeps, Zenon DEF Lock

LEMMA ReleaseKeeps ==
    ASSUME CacheInv, NEW t \in Threads, Release(t)
    PROVE  CacheInv' /\ UNCHANGED <<disk, cache>>
  <1> USE DEF CacheInv
  <1> DEFINE s == stack[t]
  <1>1. s \in Seq(Handle) /\ DOMAIN s = 1..Len(s) /\ Len(s) \in 1..Len(s) /\ s[Len(s)] \in Handle
    BY StackFacts, Zenon DEF Release
  <1>2. /\ Pop(s) \in Seq(Handle)
        /\ \A i \in DOMAIN Pop(s) : i \in DOMAIN s /\ Pop(s)[i] = s[i]
    <2>1. \A i \in 1..(Len(s) - 1) : s[i] \in Handle
      BY <1>1, ElementOfSeq
    <2>2. /\ Pop(s) \in Seq(Handle)
          /\ Len(Pop(s)) = Len(s) - 1
          /\ \A i \in 1..(Len(s) - 1) : Pop(s)[i] = s[i]
      BY <1>1, <2>1, SubSeqProperties DEF Pop
    <2> QED
      BY <1>1, <2>2, LenProperties
  <1>3. stack' = [stack EXCEPT ![t] = Pop(s)]
    BY DEF Release
  <1>4. stack' \in [Threads -> Seq(Handle)]
    BY <1>2, <1>3 DEF TypeOK
  <1>5. \A u \in Threads : \A i \in DOMAIN stack'[u] :
            \E j \in DOMAIN stack[u] : stack'[u][i].arc = stack[u][j].arc
    BY <1>2, <1>3, SMTT(30) DEF TypeOK
  <1>6. \A u \in Threads : u # t => stack'[u] = stack[u]
    BY <1>3 DEF TypeOK
  <1>7. UNCHANGED <<disk, cache>>
    BY <1>1 DEF Release, HeldIsCached, Top
  <1>8. pc[t] = "run" /\ UNCHANGED <<queue, pc, want, pos, panicked, owed>>
    BY DEF Release
  <1>9. pc' = [pc EXCEPT ![t] = "run"]
    BY <1>8 DEF TypeOK
  <1> QED
    BY <1>4, <1>5, <1>6, <1>7, <1>8, <1>9, StackStepKeeps, Zenon DEF TypeOK

LEMMA ModifyKeeps ==
    ASSUME CacheInv, NEW t \in Threads, NEW d \in Data, Modify(t, d)
    PROVE  CacheInv'
  <1> USE DEF CacheInv
  <1> DEFINE a == Top(stack[t]).arc
             c == [cache[a] EXCEPT !.data = d, !.modified = TRUE]
  <1>1. a \in Arcs /\ cache[a] \in Cache
    BY StackFacts DEF Modify, Top, Handle, TypeOK
  <1>2. cache' = [cache EXCEPT ![a] = c]
    BY DEF Modify
  <1>0. c \in Cache /\ c.block_id = cache[a].block_id /\ c.modified = TRUE
    BY <1>1, Zenon DEF Cache
  <1> HIDE DEF c
  <1>3. UNCHANGED <<disk, queue, stack, pc, want, pos, panicked, owed>>
    BY SMTT(30) DEF Modify
  <1>4. \A i \in DOMAIN queue : cache'[queue[i]].block_id = cache[queue[i]].block_id
    BY <1>0, <1>1, <1>2, QueueFacts DEF TypeOK
  <1>5. TypeOK'
    BY <1>0, <1>1, <1>2, <1>3 DEF TypeOK
  <1>6. OneCachePerBlock' /\ CacheBound' /\ HeldIsCached' /\ LockHasArc'
    BY <1>3, <1>4, SMTT(30) DEF OneCachePerBlock, CacheBound, HeldIsCached, InQueue, LockHasArc
  <1>7. CleanMatchesDisk'
    BY <1>0, <1>1, <1>2, <1>3, QueueFacts DEF CleanMatchesDisk, TypeOK
  <1>8. \A b : Entries(b)' = Entries(b)
    BY <1>3, <1>4 DEF Entries
  <1>9. FlushOwes' /\ LoaderAlone'
    BY <1>3, <1>8 DEF FlushOwes, LoaderAlone
  <1> QED
    BY <1>5, <1>6, <1>7, <1>9
LEMMA FlushBeginKeeps ==
    ASSUME CacheInv, NEW t \in Threads, FlushBegin(t)
    PROVE  CacheInv'
  <1> USE DEF CacheInv
  <1> DEFINE D == {cache[queue[i]].block_id :
                      i \in {j \in DOMAIN queue : cache[queue[j]].modified}}
  <1>1. /\ pc[t] = "run" /\ QueueWriters = {}
        /\ pc' = [pc EXCEPT ![t] = "flush"]
        /\ pos' = [pos EXCEPT ![t] = 1]
        /\ owed' = [owed EXCEPT ![t] = D]
        /\ UNCHANGED <<disk, cache, queue, stack, want, panicked>>
    BY DEF FlushBegin
  <1>2. D \subseteq Blocks /\ \A b \in D : \E i \in Entries(b) : i >= 1
    BY QueueFacts DEF Cache, Entries
  <1> HIDE DEF D
  <1>3. TypeOK'
    BY <1>1, <1>2 DEF TypeOK
  <1>4. OneCachePerBlock' /\ CleanMatchesDisk' /\ CacheBound' /\ HeldIsCached'
    BY <1>1 DEF OneCachePerBlock, CleanMatchesDisk, CacheBound, HeldIsCached, InQueue
  <1>5. \A b : Entries(b)' = Entries(b)
    BY <1>1 DEF Entries
  <1>6. FlushOwes'
    <2> SUFFICES ASSUME NEW u \in Threads, NEW b \in owed'[u]
                 PROVE  pc'[u] = "flush" /\ \E i \in Entries(b) : i >= pos'[u]
      BY <1>5 DEF FlushOwes
    <2>1. CASE u = t
      BY <1>1, <1>2, <2>1 DEF TypeOK
    <2>2. CASE u # t
      <3>1. b \in owed[u] /\ pc'[u] = pc[u] /\ pos'[u] = pos[u]
        BY <1>1, <2>2 DEF TypeOK
      <3> QED
        BY <3>1 DEF FlushOwes
    <2> QED
      BY <2>1, <2>2
  <1>7. LoaderAlone' /\ LockHasArc'
    BY <1>1 DEF LoaderAlone, LockHasArc, QueueWriters, TypeOK
  <1> QED
    BY <1>3, <1>4, <1>6, <1>7

LEMMA FlushOneKeeps ==
    ASSUME CacheInv, NEW t \in Threads, FlushOne(t)
    PROVE  CacheInv'
  <1> USE DEF CacheInv
  <1> DEFINE p == pos[t]
             a == queue[p]
             c == Sync(cache[a])
  <1>1. p \in DOMAIN queue /\ a \in Arcs /\ cache[a] \in Cache
    BY QueueFacts, SMTT(30) DEF FlushOne, TypeOK
  <1>2. /\ disk' = Synced(disk, cache[a])
        /\ cache' = [cache EXCEPT ![a] = c]
        /\ owed' = [u \in Threads |-> owed[u] \ {cache[a].block_id}]
        /\ pos' = [pos EXCEPT ![t] = p + 1]
        /\ UNCHANGED <<queue, stack, pc, want, panicked>>
    BY DEF FlushOne, Settle
  <1>3. c \in Cache /\ c.block_id = cache[a].block_id /\ c.data = cache[a].data
    BY <1>1, Zenon DEF Cache, Sync
  <1> HIDE DEF c
  <1>4. \A i \in DOMAIN queue : cache'[queue[i]].block_id = cache[queue[i]].block_id
    BY <1>1, <1>2, <1>3, QueueFacts DEF TypeOK
  <1>5. \A b : Entries(b)' = Entries(b)
    BY <1>2, <1>4 DEF Entries
  <1>6. TypeOK'
    <2>1. disk' \in [Blocks -> Data]
      BY <1>1, <1>2, SyncedFacts, Zenon DEF TypeOK
    <2>2. cache' \in [Arcs -> Cache] /\ owed' \in [Threads -> SUBSET Blocks]
      BY <1>1, <1>2, <1>3 DEF TypeOK
    <2>3. pos' \in [Threads -> Nat \ {0}]
      BY <1>2, SMTT(30) DEF TypeOK
    <2> QED
      BY <1>2, <2>1, <2>2, <2>3, SMTT(30) DEF TypeOK
  <1>7. OneCachePerBlock' /\ CacheBound' /\ HeldIsCached' /\ LockHasArc'
    BY <1>2, <1>4 DEF OneCachePerBlock, CacheBound, HeldIsCached, InQueue, LockHasArc
  <1>8. CleanMatchesDisk'
    <2> SUFFICES ASSUME NEW i \in DOMAIN queue, ~cache'[queue[i]].modified
                 PROVE  cache'[queue[i]].data = disk'[cache'[queue[i]].block_id]
      BY <1>2, SMTT(30) DEF CleanMatchesDisk
    <2>1. /\ disk \in [Blocks -> Data] /\ cache[queue[i]] \in Cache /\ queue[i] \in Arcs
          /\ cache[a].block_id \in Blocks /\ cache[queue[i]].block_id \in Blocks
      BY <1>1, QueueFacts, SMTT(30) DEF TypeOK, Cache
    <2>2. /\ \A b \in Blocks : b # cache[a].block_id => disk'[b] = disk[b]
          /\ cache[a].modified => disk'[cache[a].block_id] = cache[a].data
          /\ ~cache[a].modified => disk' = disk
      BY <1>1, <1>2, <2>1, SyncedFacts
    <2>3. CASE i = p
      <3>1. cache'[queue[i]] = c
        BY <1>1, <1>2, <2>3, SMTT(30) DEF TypeOK
      <3>2. CASE cache[a].modified
        BY <1>3, <2>2, <3>1, <3>2
      <3>3. CASE ~cache[a].modified
        BY <1>1, <1>3, <2>2, <3>1, <3>3, SMTT(30) DEF CleanMatchesDisk
      <3> QED
        BY <3>2, <3>3
    <2>4. CASE i # p
      <3>1. queue[i] # a /\ cache[queue[i]].block_id # cache[a].block_id
        BY <1>1, <2>4 DEF OneCachePerBlock
      <3>2. cache'[queue[i]] = cache[queue[i]]
        BY <1>2, <2>1, <3>1, SMTT(30) DEF TypeOK
      <3> QED
        BY <2>1, <2>2, <3>1, <3>2 DEF CleanMatchesDisk
    <2> QED
      BY <2>3, <2>4, SMTT(30)
  <1>9. FlushOwes'
    <2> SUFFICES ASSUME NEW u \in Threads, NEW b \in owed'[u]
                 PROVE  pc[u] = "flush" /\ \E i \in Entries(b) : i >= pos'[u]
      BY <1>2, <1>5, ZenonT(30) DEF FlushOwes
    <2>1. b \in owed[u] /\ b # cache[a].block_id
      BY <1>2, ZenonT(30)
    <2>2. pc[u] = "flush"
      BY <2>1 DEF FlushOwes
    <2>3. PICK i \in Entries(b) : i >= pos[u]
      BY <2>1 DEF FlushOwes
    <2>4. i \in DOMAIN queue /\ i # p
      BY <2>1, <2>3 DEF Entries
    <2>5. i >= pos'[u]
      <3>1. i \in Nat /\ pos[u] \in Nat /\ p \in Nat
        BY <2>4, QueueFacts DEF TypeOK
      <3>2. CASE u = t
        <4>1. pos'[u] = p + 1
          BY <1>2, <3>2 DEF TypeOK
        <4> QED
          BY <2>3, <2>4, <3>1, <3>2, <4>1
      <3>3. CASE u # t
        <4>1. pos'[u] = pos[u]
          BY <1>2, <3>3, SMTT(30) DEF TypeOK
        <4> QED
          BY <2>3, <4>1
      <3> QED
        BY <3>2, <3>3, SMTT(30)
    <2> QED
      BY <2>2, <2>3, <2>5, SMTT(30)
  <1>10. LoaderAlone'
    BY <1>2, <1>5 DEF LoaderAlone
  <1> QED
    BY <1>6, <1>7, <1>8, <1>9, <1>10
LEMMA FlushEndKeeps ==
    ASSUME CacheInv, NEW t \in Threads, FlushEnd(t)
    PROVE  CacheInv'
  <1> USE DEF CacheInv
  <1>1. /\ pc[t] = "flush"
        /\ pc' = [pc EXCEPT ![t] = "run"]
        /\ pos' = [pos EXCEPT ![t] = 1]
        /\ owed' = [owed EXCEPT ![t] = {}]
        /\ UNCHANGED <<disk, cache, queue, stack, want, panicked>>
    BY DEF FlushEnd
  <1>2. TypeOK'
    BY <1>1 DEF TypeOK
  <1>3. OneCachePerBlock' /\ CleanMatchesDisk' /\ CacheBound' /\ HeldIsCached'
    BY <1>1 DEF OneCachePerBlock, CleanMatchesDisk, CacheBound, HeldIsCached, InQueue
  <1>4. FlushOwes'
    <2> SUFFICES ASSUME NEW u \in Threads, NEW b \in owed'[u]
                 PROVE  pc'[u] = "flush" /\ \E i \in Entries(b)' : i >= pos'[u]
      BY DEF FlushOwes
    <2>1. u # t /\ b \in owed[u] /\ pc'[u] = pc[u] /\ pos'[u] = pos[u]
      BY <1>1 DEF TypeOK
    <2> QED
      BY <1>1, <2>1 DEF FlushOwes, Entries
  <1>5. LoaderAlone' /\ LockHasArc'
    BY <1>1, SMTT(30) DEF LoaderAlone, LockHasArc, TypeOK
  <1> QED
    BY <1>2, <1>3, <1>4, <1>5

\* An empty queue with nobody using it satisfies the invariant.
LEMMA EmptyQueueKeeps ==
    ASSUME CacheInv, disk' \in [Blocks -> Data],
           cache' = [a \in Arcs |-> Unused], queue' = <<>>,
           stack' = [t \in Threads |-> <<>>], pc' = [t \in Threads |-> "run"],
           want' \in [Threads -> Request], pos' \in [Threads -> Nat \ {0}],
           panicked' \in BOOLEAN, owed' = [t \in Threads |-> {}]
    PROVE  CacheInv'
  <1>1. Unused \in Cache
    BY CacheAssumption, Zenon DEF Unused, Cache
  <1>2. <<>> \in Seq(Arcs) /\ <<>> \in Seq(Handle) /\ DOMAIN <<>> = {}
    OBVIOUS
  <1>3. queue' \in Seq(Arcs) /\ stack' \in [Threads -> Seq(Handle)]
    BY <1>2
  <1>4. TypeOK'
    BY <1>1, <1>3 DEF TypeOK
  <1>5. DOMAIN queue' = {} /\ Len(queue') = 0 /\ \A t \in Threads : DOMAIN stack'[t] = {}
    BY <1>2
  <1>6. \A t \in Threads : pc'[t] = "run" /\ owed'[t] = {}
    OBVIOUS
  <1>7. OneCachePerBlock' /\ CleanMatchesDisk' /\ HeldIsCached'
    BY <1>5, Zenon DEF OneCachePerBlock, CleanMatchesDisk, HeldIsCached
  <1>8. FlushOwes' /\ LoaderAlone' /\ LockHasArc'
    BY <1>6 DEF FlushOwes, LoaderAlone, LockHasArc
  <1>9. CacheBound'
    BY <1>5, CacheAssumption DEF CacheBound
  <1> QED
    BY <1>4, <1>7, <1>8, <1>9 DEF CacheInv

LEMMA UnmountKeeps == ASSUME CacheInv, Unmount PROVE CacheInv'
  <1> USE DEF CacheInv
  <1> DEFINE M(b) == {i \in Entries(b) : cache[queue[i]].modified}
  <1>1. ASSUME NEW b \in Blocks, M(b) # {}
        PROVE  cache[queue[First(M(b))]].data \in Data
    <2>1. M(b) \subseteq DOMAIN queue /\ M(b) \subseteq Nat
      BY QueueFacts DEF Entries
    <2>2. First(M(b)) \in DOMAIN queue
      BY <1>1, <2>1, FirstIsLeast
    <2> QED
      BY <2>2, QueueFacts DEF Cache
  <1>2. disk' = [b \in Blocks |-> IF \E i \in Entries(b) : cache[queue[i]].modified
                                  THEN cache[queue[First(M(b))]].data ELSE disk[b]]
    BY DEF Unmount
  <1>3. disk' \in [Blocks -> Data]
    BY <1>1, <1>2, Zenon DEF TypeOK
  <1>4. stack' = [t \in Threads |-> <<>>]
    BY DEF Unmount, TypeOK
  <1>5. pc' = [t \in Threads |-> "run"]
    BY DEF Unmount, TypeOK
  <1>6. owed' = [t \in Threads |-> {}]
    BY DEF Unmount, TypeOK, FlushOwes
  <1> QED
    BY <1>3, <1>4, <1>5, <1>6, EmptyQueueKeeps, Zenon DEF Unmount, TypeOK

LEMMA CrashKeeps == ASSUME CacheInv, Crash PROVE CacheInv'
  <1>1. NoRequest \in Request
    BY CacheAssumption DEF NoRequest, Request
  <1>2. want' \in [Threads -> Request] /\ pos' \in [Threads -> Nat \ {0}]
    BY <1>1 DEF Crash
  <1>3. panicked' \in BOOLEAN
    BY Zenon DEF Crash
  <1>4. disk' \in [Blocks -> Data]
    BY DEF Crash, CacheInv, TypeOK
  <1> QED
    BY <1>2, <1>3, <1>4, EmptyQueueKeeps DEF Crash

LEMMA NextKeeps == ASSUME CacheInv, [Next]_vars PROVE CacheInv'
  <1>1. ASSUME NEW t \in Threads, ThreadStep(t) PROVE CacheInv'
    BY <1>1, GetKeeps, GetAgainKeeps, MakeRoomKeeps, LoadKeeps, LockKeeps, ModifyKeeps,
       ReleaseKeeps, FlushBeginKeeps, FlushOneKeeps, FlushEndKeeps DEF ThreadStep
  <1>2. CASE Unmount
    BY <1>2, UnmountKeeps
  <1>3. CASE Crash
    BY <1>3, CrashKeeps, SMTT(30)
  <1>4. CASE UNCHANGED vars
    <2> USE <1>4 DEF vars
    <2>1. TypeOK' = TypeOK
      BY DEF TypeOK
    <2>2. OneCachePerBlock' = OneCachePerBlock /\ CleanMatchesDisk' = CleanMatchesDisk
      BY DEF OneCachePerBlock, CleanMatchesDisk
    <2>3. HeldIsCached' = HeldIsCached /\ LockHasArc' = LockHasArc /\ CacheBound' = CacheBound
      BY DEF HeldIsCached, InQueue, LockHasArc, CacheBound
    <2>4. FlushOwes' = FlushOwes /\ LoaderAlone' = LoaderAlone
      BY DEF FlushOwes, LoaderAlone, Entries
    <2> QED BY <2>1, <2>2, <2>3, <2>4 DEF CacheInv
  <1> QED
    BY <1>1, <1>2, <1>3, <1>4 DEF Next

LEMMA CacheInvariant == Spec => []CacheInv
  <1>1. Init => CacheInv
    BY InitCacheInv
  <1>2. CacheInv /\ [Next]_vars => CacheInv'
    BY NextKeeps
  <1> QED
    BY <1>1, <1>2, PTL DEF Spec

-----------------------------------------------------------------------------
\* Theorems

\* Every variable of the cache keeps its type.
THEOREM TypeCorrect == Spec => []TypeOK
  BY CacheInvariant, PTL DEF CacheInv

\* CacheManager::get never creates a second Cache for a block.
THEOREM Uniqueness == Spec => []OneCachePerBlock
  BY CacheInvariant, PTL DEF CacheInv

\* CacheManager::get never evicts a Cache whose Arc somebody still holds.
THEOREM PinsHold == Spec => []HeldIsCached
  BY CacheInvariant, PTL DEF CacheInv

\* Cache.modified is never FALSE while the block on disk differs.
THEOREM CleanIsClean == Spec => []CleanMatchesDisk
  BY CacheInvariant, PTL DEF CacheInv

\* CacheManager::flush leaves no block unwritten that was dirty when it began.
THEOREM FlushIsComplete == Spec => []FlushOwes
  BY CacheInvariant, PTL DEF CacheInv
-----------------------------------------------------------------------------
\* When get can panic

NestInv ==
    \A t \in Threads :
        /\ Len(stack[t]) <= MaxNest
        /\ pc[t] \in {"miss", "load"} => Len(stack[t]) < MaxNest

\* A panic needs every queue entry held, hence CACHE_SIZE guards besides the one
\* that is asked for.
LEMMA PanicNeedsPins ==
    ASSUME CacheInv, NestInv, NEW t \in Threads, pc[t] = "miss",
           Len(queue) = CACHE_SIZE, {i \in DOMAIN queue : Unshared(i)} = {}
    PROVE  CACHE_SIZE < Cardinality(Threads) * MaxNest
  <1> USE DEF CacheInv
  <1> DEFINE all == Threads \X (1..MaxNest)
             slots == all \ {<<t, MaxNest>>}
             Q == 1..CACHE_SIZE
             At(i, s) == /\ s[2] \in DOMAIN stack[s[1]]
                         /\ stack[s[1]][s[2]].arc = queue[i]
             f == [i \in Q |-> CHOOSE s \in slots : At(i, s)]
  <1>1. DOMAIN queue = Q
    BY QueueFacts, CacheAssumption
  <1>2. ASSUME NEW i \in Q PROVE \E s \in slots : At(i, s)
    <2>1. PICK u \in Threads : Holds(u, queue[i])
      BY <1>1, DistinctArcs DEF Unshared
    <2>2. PICK k \in DOMAIN stack[u] : stack[u][k].arc = queue[i]
      BY <2>1 DEF Holds
    <2>3. k \in 1..MaxNest /\ <<u, k>> # <<t, MaxNest>>
      BY <2>2, StackFacts, CacheAssumption DEF NestInv
    <2>4. <<u, k>> \in slots /\ At(i, <<u, k>>)
      BY <2>2, <2>3, SMTT(30)
    <2> QED
      BY <2>4
  <1>3. f \in [Q -> slots] /\ \A i \in Q : At(i, f[i])
    BY <1>2, ZenonT(30)
  <1>4. \A i, j \in Q : f[i] = f[j] => i = j
    <2> SUFFICES ASSUME NEW i \in Q, NEW j \in Q, f[i] = f[j] PROVE i = j
      BY ZenonT(30)
    <2>1. At(i, f[i]) /\ At(j, f[i])
      BY <1>3, ZenonT(30)
    <2>2. queue[i] = queue[j]
      BY <2>1, Zenon
    <2> QED
      BY <1>1, <2>2, DistinctArcs, ZenonT(30)
  <1> HIDE DEF f, At
  <1>5. /\ IsFiniteSet(1..MaxNest) /\ Cardinality(1..MaxNest) = MaxNest
        /\ IsFiniteSet(Q) /\ Cardinality(Q) = CACHE_SIZE
    BY FS_Interval, CacheAssumption
  <1>6. IsFiniteSet(all) /\ Cardinality(all) = Cardinality(Threads) * MaxNest
    BY <1>5, FS_Product, CacheAssumption, ZenonT(30)
  <1>7. Cardinality(all) \in Nat
    BY <1>6, FS_CardinalityType
  <1>8. <<t, MaxNest>> \in all
    BY CacheAssumption
  <1>9. IsFiniteSet(slots) /\ Cardinality(slots) = Cardinality(all) - 1
    BY <1>6, <1>8, FS_RemoveElement, Zenon
  <1>10. ~(Cardinality(slots) < Cardinality(Q))
    BY <1>3, <1>4, <1>5, <1>9, FS_PigeonHole, SMTT(30)
  <1> QED
    BY <1>5, <1>6, <1>7, <1>9, <1>10, CacheAssumption

LEMMA NestStep ==
    ASSUME CacheInv, NestInv, NEW t \in Threads, ThreadStep(t)
    PROVE  NestInv'
  <1> USE DEF CacheInv
  <1>0. /\ stack[t] \in Seq(Handle) /\ Len(stack[t]) \in Nat
        /\ pc \in [Threads -> {"run", "miss", "load", "lock", "flush"}]
        /\ stack \in [Threads -> Seq(Handle)]
    BY StackFacts DEF TypeOK
  <1>1. ASSUME NEW a \in Arcs, Obtain(t, a), Len(stack[t]) < MaxNest PROVE NestInv'
    <2>1. [arc |-> a, guard |-> "none"] \in Handle
      BY DEF Handle
    <2>2. Len(stack'[t]) = Len(stack[t]) + 1 /\ pc'[t] = "lock"
      BY <1>0, <1>1, <2>1, AppendProperties DEF Obtain
    <2>3. \A u \in Threads : u # t => stack'[u] = stack[u] /\ pc'[u] = pc[u]
      BY <1>0, <1>1 DEF Obtain
    <2> QED
      BY <1>0, <1>1, <2>2, <2>3, CacheAssumption DEF NestInv
  <1>2. CASE \E b \in Blocks, g \in {"read", "write"} : Get(t, b, g)
    <2>1. PICK b \in Blocks, g \in {"read", "write"} : Get(t, b, g)
      BY <1>2, SMTT(30)
    <2>2. Len(stack[t]) < MaxNest
      BY <2>1, Zenon DEF Get, MayNest
    <2>3. CASE Entries(b) # {}
      BY <1>1, <2>1, <2>2, <2>3, FoundInQueue DEF Get
    <2>4. CASE Entries(b) = {}
      BY <1>0, <2>1, <2>2, <2>4, SMTT(30) DEF Get, NestInv
    <2> QED
      BY <2>3, <2>4
  <1>3. CASE GetAgain(t)
    BY <1>1, <1>3, FoundInQueue, Zenon DEF GetAgain, NestInv
  <1>4. CASE MakeRoom(t)
    <2>1. pc[t] = "miss" /\ stack' = stack /\ (pc' = pc \/ pc' = [pc EXCEPT ![t] = "load"])
      BY <1>4, SMTT(30) DEF MakeRoom, Absent
    <2> QED
      BY <1>0, <2>1, SMTT(30) DEF NestInv
  <1>5. CASE Load(t)
    BY <1>1, <1>5 DEF Load, NestInv
  <1>6. CASE Lock(t)
    <2> DEFINE h == [arc |-> Top(stack[t]).arc, guard |-> want[t].guard]
    <2>1. /\ stack' = [stack EXCEPT ![t] = [stack[t] EXCEPT ![Len(stack[t])] = h]]
          /\ pc' = [pc EXCEPT ![t] = "run"]
      BY <1>6 DEF Lock
    <2>2. Len(stack[t]) \in 1..Len(stack[t]) /\ h \in Handle
      BY <1>6, StackFacts, Zenon DEF Lock, LockHasArc, Top, Handle, TypeOK, Request
    <2>3. Len(stack'[t]) = Len(stack[t])
      BY <1>0, <2>1, <2>2, ExceptSeq
    <2> QED
      BY <1>0, <2>1, <2>3 DEF NestInv
  <1>7. CASE Release(t)
    <2>1. stack' = [stack EXCEPT ![t] = SubSeq(stack[t], 1, Len(stack[t]) - 1)] /\ pc' = pc
      BY <1>7 DEF Release, Pop
    <2>2. \A i \in 1..(Len(stack[t]) - 1) : stack[t][i] \in Handle
      BY <1>0, ElementOfSeq
    <2>3. Len(stack'[t]) <= Len(stack[t]) /\ Len(stack'[t]) \in Nat
      BY <1>0, <2>1, <2>2, SubSeqProperties
    <2>4. pc[t] = "run"
      BY <1>7, SMTT(30) DEF Release
    <2> QED
      BY <1>0, <2>1, <2>3, <2>4, CacheAssumption DEF NestInv
  <1>8. CASE (\E d \in Data : Modify(t, d)) \/ FlushOne(t)
    BY <1>8, Zenon DEF Modify, FlushOne, NestInv
  <1>9. CASE FlushBegin(t) \/ FlushEnd(t)
    BY <1>0, <1>9 DEF FlushBegin, FlushEnd, NestInv
  <1> QED
    BY <1>2, <1>3, <1>4, <1>5, <1>6, <1>7, <1>8, <1>9 DEF ThreadStep

LEMMA NoExhaustionStep ==
    ASSUME CacheInv, NestInv, NoExhaustion, [Next]_vars
    PROVE  NestInv' /\ NoExhaustion'
  <1>1. ASSUME NEW t \in Threads, ThreadStep(t), ~panicked
        PROVE  NoExhaustion'
    <2>1. CASE panicked' = panicked
      BY <1>1, <2>1 DEF NoExhaustion
    <2>2. CASE panicked' # panicked
      <3>1. /\ MakeRoom(t) /\ Len(queue) = CACHE_SIZE
            /\ {i \in DOMAIN queue : Unshared(i)} = {}
        BY <1>1, <2>2, ZenonT(30) DEF ThreadStep, Get, GetAgain, MakeRoom, Load, Lock, Modify, Release,
                          FlushBegin, FlushOne, FlushEnd
      <3>2. CACHE_SIZE < Cardinality(Threads) * MaxNest
        BY <3>1, PanicNeedsPins DEF MakeRoom, Absent
      <3>3. Cardinality(Threads) * MaxNest \in Nat
        BY FS_CardinalityType, CacheAssumption, SMTT(30)
      <3> QED
        BY <3>2, <3>3, CacheAssumption, SMTT(30) DEF NoExhaustion
    <2> QED
      BY <2>1, <2>2
  <1>2. CASE Unmount
    BY <1>2, Zenon DEF Unmount, NestInv, NoExhaustion
  <1>3. CASE Crash
    <2>1. \A t \in Threads : Len(stack'[t]) = 0 /\ pc'[t] = "run"
      BY <1>3 DEF Crash
    <2> QED
      BY <1>3, <2>1, CacheAssumption DEF Crash, NestInv, NoExhaustion
  <1>4. CASE UNCHANGED vars
    BY <1>4 DEF vars, NestInv, NoExhaustion
  <1> QED
    BY <1>1, <1>2, <1>3, <1>4, NestStep DEF Next

\* CacheManager::get never panics with "Run out of BlockCache!" if CACHE_SIZE is
\* at least the number of guards that all threads together can hold.
THEOREM NeverExhausted == Spec => []NoExhaustion
  <1>1. Init => NestInv /\ NoExhaustion
    BY CacheAssumption DEF Init, NestInv, NoExhaustion
  <1>2. CacheInv /\ NestInv /\ NoExhaustion /\ [Next]_vars => NestInv' /\ NoExhaustion'
    BY NoExhaustionStep
  <1> QED
    BY <1>1, <1>2, CacheInvariant, PTL DEF Spec
=============================================================================
