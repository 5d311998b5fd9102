------------------------------ MODULE Conduit ------------------------------
(***************************************************************************)
(* What one direction of a proxied connection promises: the pieces that    *)
(* one end put in come out at the other end in order, none of them twice   *)
(* and none left out before a later one.  Pieces are numbered as they are  *)
(* put in.  Nothing is promised about how many come out: either end may    *)
(* go away.                                                                *)
(***************************************************************************)
EXTENDS Integers, Sequences

VARIABLES
  sent,   \* pieces put in so far
  got     \* pieces that came out

Init == sent = 0 /\ got = <<>>

Put == sent' = sent + 1 /\ UNCHANGED got

Deliver ==
  /\ Len(got) < sent
  /\ got' = Append(got, Len(got) + 1)
  /\ UNCHANGED sent

Spec == Init /\ [][Put \/ Deliver]_<<sent, got>>
=============================================================================
