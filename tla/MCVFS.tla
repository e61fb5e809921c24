------------------------------- MODULE MCVFS --------------------------------
(* Instance of VFS for TLC: after the root's, inode numbers without a zero    *)
(* byte, with bytes u8::MAX (which replaces a zero) and 20 (which marks that  *)
(* there is no zero), and with zeros at either end.                           *)
EXTENDS VFS

MCOrder == <<
    [i \in 1..8 |-> 0],
    [i \in 1..8 |-> 255],
    <<0, 20, 255, 1, 255, 20, 10, 0>>,
    <<20, 255, 20, 255, 20, 255, 20, 255>>,
    <<1, 0, 0, 0, 0, 0, 0, 0>> >>

MCPaths == {<<a>> : a \in Names} \cup {<<a, b>> : a \in Names, b \in Names}
=============================================================================
