------------------------------- MODULE MCWire -------------------------------
(* Instances of Wire for TLC. *)
EXTENDS Wire

(* Every scheme of up to two sizes per packet: less than a frame, between  *)
(* a frame and one with room for padding, and more, with check marks.      *)
MCSizes == {1, 3, 6, CheckMark}
MCSizeLists == {<<>>} \cup [1 .. 1 -> MCSizes] \cup [1 .. 2 -> MCSizes]
=============================================================================
