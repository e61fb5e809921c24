----------------------------- MODULE MCGeometry -----------------------------
(* Instance of Geometry for TLC.                                              *)
EXTENDS Geometry

MCDevices == 0..40
=============================================================================
