--------------------------- MODULE MCBlockCache ----------------------------
(* Instances of BlockCache for TLC.                                           *)
EXTENDS BlockCache, TLC

\* Threads and Arc identities are interchangeable: Flushers is all threads or
\* none.  Data is not a symmetry set, Unused picks one of its members.
Symmetry == Permutations(Threads) \cup Permutations(Arcs)
=============================================================================
