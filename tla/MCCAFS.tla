------------------------------- MODULE MCCAFS -------------------------------
(* Instances of CAFS for TLC.                                                 *)
EXTENDS CAFS, TLC

Symmetry == Permutations(Threads)

\* Files of one and two blocks; the size also changes where the number of blocks does not.
TwoBlocks == {<<1, 2, 1>>, <<2, 2, 2, 2>>, <<1>>}
\* Files that give a block back.
Freeing == {<<>>, <<1>>}
=============================================================================
