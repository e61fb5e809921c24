------------------------- MODULE MCBlockCacheLive --------------------------
(* BlockCache with a bound on the calls each thread makes, for liveness.  The *)
(* spin locks are unfair, so a thread may be overtaken any number of times;   *)
(* but the others make finitely many calls, and each thread keeps running.    *)
EXTENDS BlockCache

CONSTANT MaxCalls \* gets and flushes a thread starts

VARIABLE calls

lvars == <<vars, calls>>

\* A call of get or flush starts.
Starts(t) ==
    \/ \E b \in Blocks, g \in {"read", "write"} : Get(t, b, g)
    \/ FlushBegin(t)

\* The steps that finish a call once it has started.
Finishes(t) ==
    GetAgain(t) \/ MakeRoom(t) \/ Load(t) \/ Lock(t) \/ FlushOne(t) \/ FlushEnd(t)

LiveNext ==
    \E t \in Threads :
        \/ /\ calls[t] < MaxCalls
           /\ Starts(t)
           /\ calls' = [calls EXCEPT ![t] = @ + 1]
        \/ /\ Finishes(t) \/ Release(t) \/ \E d \in Data : Modify(t, d)
           /\ UNCHANGED calls

\* Each thread is scheduled: it goes on when its lock is free, and a closure
\* that runs under a guard ends.
LiveSpec ==
    /\ Init /\ calls = [t \in Threads |-> 0]
    /\ [][LiveNext]_lvars
    /\ \A t \in Threads : WF_vars(Finishes(t)) /\ WF_vars(Release(t))

\* Every get that was started returns with its guard, and every flush ends.
EveryCallReturns ==
    \A t \in Threads : pc[t] # "run" ~> pc[t] = "run"
=============================================================================
