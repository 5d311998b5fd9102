----------------------------- MODULE MCPanelSync -----------------------------
(* PanelSync for TLC: clients are interchangeable.                         *)
EXTENDS PanelSync, TLC

ClientSymmetry == Permutations(Clients)
=============================================================================
