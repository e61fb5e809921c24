------------------------------ MODULE MCBitmap ------------------------------
(* Instance of Bitmap for TLC.                                                *)
EXTENDS Bitmap, TLC

Symmetry == Permutations(Threads)
=============================================================================
