------------------------------ MODULE MCLayout ------------------------------
(* Instance of Layout for TLC.                                                *)
EXTENDS Layout
=============================================================================
