----------------------------- MODULE MCUdpRelay -----------------------------
(* Instances of UdpRelay for TLC. *)
EXTENDS UdpRelay

(* This program with a scheme other than the server's, a client of another *)
(* make that declares version 1 and asks for connected mode, and one that  *)
(* sends a heartbeat and leaves its settings out.                          *)
MCOpenings ==
  {[declares |-> TRUE, heart |-> FALSE, v |-> 2, padding |-> "old", mode |-> "datagram", packets |-> 2],
   [declares |-> TRUE, heart |-> FALSE, v |-> 1, padding |-> "old", mode |-> "connected", packets |-> 2],
   [declares |-> FALSE, heart |-> TRUE, v |-> 2, padding |-> "own", mode |-> "datagram", packets |-> 1]}
=============================================================================
