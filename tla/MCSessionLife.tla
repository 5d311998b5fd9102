---------------------------- MODULE MCSessionLife ----------------------------
(* SessionLife for TLC: the streams are interchangeable.                   *)
EXTENDS SessionLife, TLC

HandleSymmetry == Permutations(Handles)
=============================================================================
