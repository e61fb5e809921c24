--------------------------- MODULE MCKernelMemory ---------------------------
(* Instance of KernelMemory for TLC: memory in one piece, in two with a gap   *)
(* of one frame, and out of order; the heap starts at the fifth frame.        *)
EXTENDS KernelMemory

MCMaps == {<<Segment(1, 7)>>, <<Segment(0, 3), Segment(4, 4)>>, <<Segment(3, 4), Segment(0, 3)>>}
MCLayouts == [size : {2, 3}, align : {1, 4}]
=============================================================================
