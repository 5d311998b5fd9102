--------------------------- MODULE MCUserRegistry ---------------------------
(* UserRegistry for TLC: connection slots are interchangeable, and so are  *)
(* passwords, which the registry only compares.                            *)
EXTENDS UserRegistry, TLC

Symmetry == Permutations(Conns) \cup Permutations(Passwords)
=============================================================================
