----------------------------- MODULE BlockCache -----------------------------
(* fs/src/cafs/cache.rs: the write-back cache of disk blocks that all of CAFS *)
(* runs on.  Threads call CacheManager::get, lock the Cache they were given,  *)
(* read or modify it, and drop guard and Arc; flush writes everything back.   *)
(*                                                                            *)
(* A step is what happens between two acquisitions of a lock.  The queue lock *)
(* and the lock of each Cache are spin::RwLocks: the queue lock is held       *)
(* across steps only by a flushing thread (read) and by a thread between      *)
(* eviction and load (write), so who holds it is read off pc; the guards on a *)
(* Cache are recorded in stack.                                               *)
EXTENDS Integers, Sequences, FiniteSets

CONSTANTS
    Threads,    \* callers of the cache
    Flushers,   \* the threads that also call flush
    Blocks,     \* block ids of the device
    Data,       \* contents of a block
    Arcs,       \* identities of Arc<RwLock<Cache>> allocations
    CACHE_SIZE, \* 32 in the code
    MaxNest     \* Cache guards one thread holds at a time

ASSUME CacheAssumption ==
    /\ IsFiniteSet(Threads) /\ Flushers \subseteq Threads
    /\ Blocks \subseteq Nat /\ Blocks # {}
    /\ Data # {}
    /\ Arcs # {}
    /\ CACHE_SIZE \in Nat \ {0}
    /\ MaxNest \in Nat \ {0}

VARIABLES
    disk,     \* the block device
    cache,    \* the Cache behind each Arc (Unused if not allocated)
    queue,    \* CacheManager.queue
    stack,    \* Arcs and guards each thread holds, innermost last
    pc,       \* where each thread is
    want,     \* the argument of the get, and the guard it is for
    pos,      \* the next queue index of a flush
    panicked, \* "Run out of BlockCache!"
    owed      \* history: blocks dirty when a flush began, not written since

vars == <<disk, cache, queue, stack, pc, want, pos, panicked, owed>>

Cache == [block_id : Blocks, data : Data, modified : BOOLEAN]
Handle == [arc : Arcs, guard : {"none", "read", "write"}]
Request == [block_id : Blocks, guard : {"read", "write"}]

Unused == [block_id |-> CHOOSE b \in Blocks : TRUE,
           data |-> CHOOSE d \in Data : TRUE,
           modified |-> FALSE]
NoRequest == [block_id |-> CHOOSE b \in Blocks : TRUE, guard |-> "read"]

TypeOK ==
    /\ disk \in [Blocks -> Data]
    /\ cache \in [Arcs -> Cache]
    /\ queue \in Seq(Arcs)
    /\ stack \in [Threads -> Seq(Handle)]
    /\ pc \in [Threads -> {"run", "miss", "load", "lock", "flush"}]
    /\ want \in [Threads -> Request]
    /\ pos \in [Threads -> Nat \ {0}]
    /\ panicked \in BOOLEAN
    /\ owed \in [Threads -> SUBSET Blocks]

-----------------------------------------------------------------------------
\* References and locks

InQueue(a) == \E i \in DOMAIN queue : queue[i] = a

Holds(t, a) == \E i \in DOMAIN stack[t] : stack[t][i].arc = a

\* Mutants: eviction that does not look at the reference count, or expects 0.
AnyEntry(i) == TRUE
NoEntry(i) == FALSE

\* Arc::strong_count of the i-th queue entry is 1: no other owner.
Unshared(i) ==
    /\ \A t \in Threads : ~Holds(t, queue[i])
    /\ \A j \in DOMAIN queue : queue[j] = queue[i] => j = i

Guards(t, a, g) ==
    \E i \in DOMAIN stack[t] : stack[t][i].arc = a /\ stack[t][i].guard = g

CanRead(a) == \A t \in Threads : ~Guards(t, a, "write")
CanWrite(a) == CanRead(a) /\ \A t \in Threads : ~Guards(t, a, "read")

\* Mutants: a flush that does not keep queue.read(), a get that keeps it while it
\* asks for queue.write().
ReadersDropped == {}
ReadersKept == {t \in Threads : pc[t] \in {"flush", "miss"}}

QueueReaders == {t \in Threads : pc[t] = "flush"}
QueueWriters == {t \in Threads : pc[t] = "load"}

Entries(b) == {i \in DOMAIN queue : cache[queue[i]].block_id = b}
\* Mutant: get does not look again under queue.write().
AbsentBefore(b) == TRUE

\* What the second lookup of get finds out.
Absent(b) == Entries(b) = {}
First(I) == CHOOSE i \in I : \A j \in I : i <= j

Top(s) == s[Len(s)]
Pop(s) == SubSeq(s, 1, Len(s) - 1)

\* Vec::swap_remove: the last element takes the place of the removed one.
SwapRemove(q, i) ==
    [k \in 1..(Len(q) - 1) |-> IF k = i THEN q[Len(q)] ELSE q[k]]

\* Mutant: the modified flag is cleared, but nothing is written.
SyncedNot(d, c) == d

\* Cache::sync, also what Drop for Cache does.
Sync(c) == [c EXCEPT !.modified = FALSE]
Synced(d, c) == IF c.modified THEN [d EXCEPT ![c.block_id] = c.data] ELSE d

Settle(B) == owed' = [t \in Threads |-> owed[t] \ B]

-----------------------------------------------------------------------------
Init ==
    /\ disk \in [Blocks -> Data]
    /\ cache = [a \in Arcs |-> Unused]
    /\ queue = <<>>
    /\ stack = [t \in Threads |-> <<>>]
    /\ pc = [t \in Threads |-> "run"]
    /\ want = [t \in Threads |-> NoRequest]
    /\ pos = [t \in Threads |-> 1]
    /\ panicked = FALSE
    /\ owed = [t \in Threads |-> {}]

\* The clone of the Arc that get returns, on its way to .read() or .write().
Obtain(t, a) ==
    /\ stack' = [stack EXCEPT ![t] = Append(@, [arc |-> a, guard |-> "none"])]
    /\ pc' = [pc EXCEPT ![t] = "lock"]


\* How CAFS nests its calls: a closure running under the guard of an inode or
\* index block asks for bitmap, index or data blocks, never the other way.
MayNest(t, b) ==
    /\ Len(stack[t]) < MaxNest
    /\ \A i \in DOMAIN stack[t] : cache[stack[t][i].arc].block_id < b

\* get: the lookup under queue.read().
Get(t, b, g) ==
    /\ pc[t] = "run"
    /\ MayNest(t, b)
    /\ QueueWriters = {}
    /\ want' = [want EXCEPT ![t] = [block_id |-> b, guard |-> g]]
    /\ \/ /\ Entries(b) # {}
          /\ Obtain(t, queue[First(Entries(b))])
       \/ /\ Entries(b) = {}
          /\ pc' = [pc EXCEPT ![t] = "miss"]
          /\ UNCHANGED stack
    /\ UNCHANGED <<disk, cache, queue, pos, panicked, owed>>

\* get: the second lookup under queue.write() finds what another thread loaded.
GetAgain(t) ==
    /\ pc[t] = "miss"
    /\ QueueReaders = {} /\ QueueWriters = {}
    /\ LET found == Entries(want[t].block_id)
       IN  /\ found # {}
           /\ Obtain(t, queue[First(found)])
    /\ UNCHANGED <<disk, cache, queue, want, pos, panicked, owed>>

\* get: room for the new entry, made by evicting the first unshared one if the
\* queue is full.  The thread keeps queue.write() until Load.
MakeRoom(t) ==
    /\ pc[t] = "miss"
    /\ QueueReaders = {} /\ QueueWriters = {}
    /\ Absent(want[t].block_id)
    /\ IF Len(queue) # CACHE_SIZE
       THEN /\ pc' = [pc EXCEPT ![t] = "load"]
            /\ UNCHANGED <<disk, cache, queue, panicked, owed>>
       ELSE LET victims == {i \in DOMAIN queue : Unshared(i)}
            IN  \/ /\ victims # {}
                   /\ LET v == First(victims)
                          c == cache[queue[v]]
                      IN  /\ disk' = Synced(disk, c)
                          /\ Settle({c.block_id})
                          /\ cache' = [cache EXCEPT ![queue[v]] = Unused]
                          /\ queue' = SwapRemove(queue, v)
                   /\ pc' = [pc EXCEPT ![t] = "load"]
                   /\ UNCHANGED panicked
                \/ /\ victims = {}
                   /\ panicked' = TRUE
                   /\ UNCHANGED <<disk, cache, queue, pc, owed>>
    /\ UNCHANGED <<stack, want, pos>>

\* get: Cache::new reads the block; the new Arc is pushed and returned.
Load(t) ==
    /\ pc[t] = "load"
    /\ \E a \in Arcs :
        /\ ~InQueue(a) /\ \A u \in Threads : ~Holds(u, a)
        /\ cache' = [cache EXCEPT ![a] =
                        [block_id |-> want[t].block_id,
                         data |-> disk[want[t].block_id],
                         modified |-> FALSE]]
        /\ queue' = Append(queue, a)
        /\ Obtain(t, a)
    /\ UNCHANGED <<disk, want, pos, panicked, owed>>

\* .read() or .write() on the Arc obtained last.
Lock(t) ==
    /\ pc[t] = "lock"
    /\ LET a == Top(stack[t]).arc
       IN  IF want[t].guard = "write" THEN CanWrite(a) ELSE CanRead(a)
    /\ stack' = [stack EXCEPT ![t] =
                    [@ EXCEPT ![Len(@)] = [arc |-> Top(stack[t]).arc,
                                           guard |-> want[t].guard]]]
    /\ pc' = [pc EXCEPT ![t] = "run"]
    /\ want' = [want EXCEPT ![t] = NoRequest]
    /\ UNCHANGED <<disk, cache, queue, pos, panicked, owed>>

\* Mutant: get_mut does not set modified.
ModifyClean(t, d) ==
    /\ pc[t] = "run"
    /\ stack[t] # <<>>
    /\ Top(stack[t]).guard = "write"
    /\ cache' = [cache EXCEPT ![Top(stack[t]).arc].data = d]
    /\ UNCHANGED <<disk, queue, stack, pc, want, pos, panicked, owed>>

\* Cache::modify under a write guard.
Modify(t, d) ==
    /\ pc[t] = "run"
    /\ stack[t] # <<>>
    /\ Top(stack[t]).guard = "write"
    /\ cache' = [cache EXCEPT ![Top(stack[t]).arc] =
                    [@ EXCEPT !.data = d, !.modified = TRUE]]
    /\ UNCHANGED <<disk, queue, stack, pc, want, pos, panicked, owed>>

\* The temporaries of get(..).write() are dropped: the guard, then the Arc, and
\* with the last Arc the Cache itself (Drop for Cache).
Release(t) ==
    /\ pc[t] = "run"
    /\ stack[t] # <<>>
    /\ stack' = [stack EXCEPT ![t] = Pop(@)]
    /\ LET a == Top(stack[t]).arc
           last == ~InQueue(a) /\ \A u \in Threads : ~Holds(u, a)'
       IN  IF last
           THEN /\ disk' = Synced(disk, cache[a])
                /\ cache' = [cache EXCEPT ![a] = Unused]
           ELSE UNCHANGED <<disk, cache>>
    /\ UNCHANGED <<queue, pc, want, pos, panicked, owed>>


\* flush: queue.read() is taken and kept.
FlushBegin(t) ==
    /\ t \in Flushers
    /\ pc[t] = "run"
    /\ stack[t] = <<>>
    /\ QueueWriters = {}
    /\ pc' = [pc EXCEPT ![t] = "flush"]
    /\ pos' = [pos EXCEPT ![t] = 1]
    /\ owed' = [owed EXCEPT ![t] =
                    {cache[queue[i]].block_id :
                        i \in {j \in DOMAIN queue : cache[queue[j]].modified}}]
    /\ UNCHANGED <<disk, cache, queue, stack, want, panicked>>

\* flush: cache.write().sync() on one entry.
FlushOne(t) ==
    /\ pc[t] = "flush"
    /\ pos[t] <= Len(queue)
    /\ CanWrite(queue[pos[t]])
    /\ LET a == queue[pos[t]]
       IN  /\ disk' = Synced(disk, cache[a])
           /\ cache' = [cache EXCEPT ![a] = Sync(@)]
           /\ Settle({cache[a].block_id})
    /\ pos' = [pos EXCEPT ![t] = @ + 1]
    /\ UNCHANGED <<queue, stack, pc, want, panicked>>

FlushEnd(t) ==
    /\ pc[t] = "flush"
    /\ pos[t] > Len(queue)
    /\ pc' = [pc EXCEPT ![t] = "run"]
    /\ pos' = [pos EXCEPT ![t] = 1]
    /\ owed' = [owed EXCEPT ![t] = {}]
    /\ UNCHANGED <<disk, cache, queue, stack, want, panicked>>

\* The last Arc<CacheManager> goes away: every queue entry is dropped, hence
\* synced.  A later mount starts with an empty queue (CacheManager::new).
Unmount ==
    /\ \A t \in Threads : pc[t] = "run" /\ stack[t] = <<>>
    /\ disk' = [b \in Blocks |->
                  IF \E i \in Entries(b) : cache[queue[i]].modified
                  THEN cache[queue[First({i \in Entries(b) :
                                            cache[queue[i]].modified})]].data
                  ELSE disk[b]]
    /\ queue' = <<>>
    /\ cache' = [a \in Arcs |-> Unused]
    /\ UNCHANGED <<stack, pc, want, pos, panicked, owed>>

\* Power loss: only the disk survives, and the file system is mounted anew.
Crash ==
    /\ cache' = [a \in Arcs |-> Unused]
    /\ queue' = <<>>
    /\ stack' = [t \in Threads |-> <<>>]
    /\ pc' = [t \in Threads |-> "run"]
    /\ want' = [t \in Threads |-> NoRequest]
    /\ pos' = [t \in Threads |-> 1]
    /\ panicked' = FALSE
    /\ owed' = [t \in Threads |-> {}]
    /\ UNCHANGED disk

ThreadStep(t) ==
    \/ \E b \in Blocks, g \in {"read", "write"} : Get(t, b, g)
    \/ GetAgain(t) \/ MakeRoom(t) \/ Load(t) \/ Lock(t)
    \/ \E d \in Data : Modify(t, d)
    \/ Release(t)
    \/ FlushBegin(t) \/ FlushOne(t) \/ FlushEnd(t)

\* A panic stops the program; only a restart follows.
Next ==
    \/ ~panicked /\ \E t \in Threads : ThreadStep(t)
    \/ ~panicked /\ Unmount
    \/ Crash

Spec == Init /\ [][Next]_vars

-----------------------------------------------------------------------------
\* Correctness

\* At most one Cache exists for a block: two threads that miss on the same block
\* end up with the same Arc, because get looks again after it has exchanged
\* queue.read() for queue.write().
OneCachePerBlock ==
    \A i, j \in DOMAIN queue :
        cache[queue[i]].block_id = cache[queue[j]].block_id => i = j

\* A Cache somebody holds is never evicted under them: what is written through
\* a guard is what the next get of that block returns.
HeldIsCached ==
    \A t \in Threads : \A i \in DOMAIN stack[t] : InQueue(stack[t][i].arc)

\* An entry that is not marked modified equals the block on disk, so dropping it
\* without a write loses nothing.
CleanMatchesDisk ==
    \A i \in DOMAIN queue :
        ~cache[queue[i]].modified =>
            cache[queue[i]].data = disk[cache[queue[i]].block_id]

\* What flush still owes is ahead of it: every block that was dirty when flush
\* began, and has not reached the disk since, is at a queue index flush has yet
\* to visit.  When flush returns it therefore owes nothing.
FlushOwes ==
    \A t \in Threads :
        \A b \in owed[t] : /\ pc[t] = "flush"
                           /\ \E i \in Entries(b) : i >= pos[t]

\* The panic "Run out of BlockCache!" cannot happen as long as the cache has an
\* entry for every guard that all threads together can hold.
NoExhaustion ==
    CACHE_SIZE >= Cardinality(Threads) * MaxNest => ~panicked

Waits(t) ==
    \/ pc[t] = "miss" /\ QueueReaders \cup QueueWriters # {}
    \/ pc[t] = "lock" /\ IF want[t].guard = "write"
                         THEN ~CanWrite(Top(stack[t]).arc)
                         ELSE ~CanRead(Top(stack[t]).arc)
    \/ pc[t] = "flush" /\ pos[t] <= Len(queue) /\ ~CanWrite(queue[pos[t]])
Idle(t) == pc[t] = "run" /\ stack[t] = <<>>
Stuck ==
    /\ ~panicked
    /\ \E t \in Threads : Waits(t)
    /\ \A t \in Threads : Idle(t) \/ Waits(t)


Visible ==
    [b \in Blocks |-> IF Entries(b) # {}
                      THEN cache[queue[First(Entries(b))]].data
                      ELSE disk[b]]
Locked == {a \in Arcs : \E t \in Threads : Guards(t, a, "write")}
Writing == {cache[a].block_id : a \in Locked}

Store == INSTANCE BlockStore WITH content <- Visible, stable <- disk, writing <- Writing

\* The cache is transparent: with the queue's copy of a block (the disk's if
\* there is none) as content, and the blocks under a write guard as the open
\* ones, it is a BlockStore.
Transparent == Store!Spec
=============================================================================
