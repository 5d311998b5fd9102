--------------------------- MODULE PanelSyncProofs ---------------------------
(***************************************************************************)
(* The traffic accounting of PanelSync, and its rule for who is enabled,   *)
(* hold for any set of clients and any bounds.                             *)
(***************************************************************************)
EXTENDS PanelSync, TLAPS

(* What report_traffic_once read lies between what was reported and what   *)
(* is used by now; together with the types and the two accounting          *)
(* properties this is preserved by every step.                             *)
CurrentBetween ==
  pc \in {"read", "posted"} =>
    \A c \in Clients : current[c] = 0 \/ (reported[c] <= current[c] /\ current[c] <= used[c])

AccountInv == TypeOK /\ ReportedBehindUsed /\ CurrentBetween /\ TrafficConserved

(* The empty audit accounts for no traffic. *)
LEMMA InitAccount == Init => AccountInv
BY PanelAssumption DEF Init, AccountInv, TypeOK, ReportedBehindUsed, CurrentBetween, TrafficConserved, InFlight, Delta,
   InPayload, Zero

(* A connection that records traffic keeps the accounts. *)
LEMMA RecordAccount ==
  ASSUME AccountInv, NEW c \in Clients, Record(c)
  PROVE  AccountInv'
<1> USE PanelAssumption DEF AccountInv, Record
<1>1. TypeOK'
  BY DEF TypeOK
<1>2. ReportedBehindUsed'
  BY DEF TypeOK, ReportedBehindUsed
<1>3. CurrentBetween'
  BY DEF TypeOK, CurrentBetween
<1>4. TrafficConserved'
  BY DEF TypeOK, TrafficConserved, InFlight, Delta, InPayload
<1>5. QED
  BY <1>1, <1>2, <1>3, <1>4

(* sync_once keeps the accounts: a removed client takes along exactly what *)
(* was never reported.                                                     *)
LEMMA SyncAccount ==
  ASSUME AccountInv,
         Fetch \/ FetchFail \/ Added \/ Removed \/ \E c \in Clients : Add(c) \/ Remove(c)
  PROVE  AccountInv'
<1> USE PanelAssumption DEF AccountInv, auditVars, historyVars
<1>1. CASE Fetch
  BY <1>1 DEF Fetch, Listed, TypeOK, ReportedBehindUsed, CurrentBetween, TrafficConserved, InFlight, Delta, InPayload
<1>2. CASE FetchFail \/ Removed
  BY <1>2 DEF FetchFail, Removed, TypeOK, ReportedBehindUsed, CurrentBetween, TrafficConserved, InFlight, Delta,
     InPayload
<1>3. CASE Added
  BY <1>3 DEF Added, Missing, TypeOK, ReportedBehindUsed, CurrentBetween, TrafficConserved, InFlight, Delta, InPayload
<1>4. ASSUME NEW c \in Clients, Add(c)
      PROVE  AccountInv'
  BY <1>4 DEF Add, TypeOK, ReportedBehindUsed, CurrentBetween, TrafficConserved, InFlight, Delta, InPayload
<1>5. ASSUME NEW c \in Clients, Remove(c)
      PROVE  AccountInv'
  <2> USE <1>5 DEF Remove, ReportedDropped
  <2>1. TypeOK'
    BY DEF TypeOK, ReportedBehindUsed
  <2>2. ReportedBehindUsed' /\ CurrentBetween'
    BY DEF TypeOK, ReportedBehindUsed, CurrentBetween
  <2>3. TrafficConserved'
    BY DEF TypeOK, TrafficConserved, InFlight
  <2>4. QED
    BY <2>1, <2>2, <2>3
<1>6. QED
  BY <1>1, <1>2, <1>3, <1>4, <1>5

(* report_traffic_once keeps the accounts: an answer credits what the post *)
(* said, and a lost answer credits nothing.                                *)
LEMMA ReportAccount ==
  ASSUME AccountInv,
         List \/ Quiet \/ Post \/ PostFail \/ Answer \/ AnswerLost \/ \E c \in Clients : Read(c)
  PROVE  AccountInv'
<1> USE PanelAssumption DEF AccountInv, auditVars, historyVars
<1>1. CASE List
  BY <1>1 DEF List, Listed, Zero, TypeOK, ReportedBehindUsed, CurrentBetween, TrafficConserved, InFlight
<1>2. CASE Quiet \/ PostFail
  BY <1>2 DEF Quiet, PostFail, TypeOK, ReportedBehindUsed, CurrentBetween, TrafficConserved, InFlight
<1>3. ASSUME NEW c \in Clients, Read(c)
      PROVE  AccountInv'
  <2> USE <1>3 DEF Read, Grown
  <2>1. TypeOK' /\ ReportedBehindUsed'
    BY DEF TypeOK, ReportedBehindUsed
  <2>2. CurrentBetween' /\ TrafficConserved'
    BY DEF TypeOK, CurrentBetween, TrafficConserved, InFlight
  <2>3. QED
    BY <2>1, <2>2
<1>4. CASE Post
  <2>1. \A c \in Clients : Delta(c) \in Nat
    BY <1>4 DEF Post, Delta, InPayload, TypeOK, CurrentBetween
  <2>2. TypeOK' /\ ReportedBehindUsed' /\ CurrentBetween'
    BY <1>4, <2>1 DEF Post, TypeOK, ReportedBehindUsed, CurrentBetween
  <2>3. \A c \in Clients : InFlight(c) = 0 /\ InFlight(c)' = Delta(c)
    BY <1>4 DEF Post, InFlight, Delta, InPayload
  <2>4. TrafficConserved'
    BY <1>4, <2>1, <2>3 DEF Post, TypeOK, TrafficConserved
  <2>5. QED
    BY <2>2, <2>4
<1>5. CASE Answer
  <2>1. TypeOK' /\ ReportedBehindUsed' /\ CurrentBetween'
    BY <1>5 DEF Answer, Credit, InPayload, TypeOK, ReportedBehindUsed, CurrentBetween
  <2>2. TrafficConserved'
    BY <1>5 DEF Answer, Credit, TypeOK, TrafficConserved, InFlight, Delta, InPayload
  <2>3. QED
    BY <2>1, <2>2
<1>6. CASE AnswerLost
  <2>1. \A c \in Clients : Delta(c) \in Nat
    BY <1>6 DEF AnswerLost, Delta, InPayload, TypeOK, CurrentBetween
  <2>2. TypeOK' /\ ReportedBehindUsed' /\ CurrentBetween'
    BY <1>6, <2>1 DEF AnswerLost, TypeOK, ReportedBehindUsed, CurrentBetween
  <2>3. \A c \in Clients : InFlight(c) = Delta(c) /\ InFlight(c)' = 0
    BY <1>6 DEF AnswerLost, InFlight
  <2>4. TrafficConserved'
    BY <1>6, <2>1, <2>3 DEF AnswerLost, TypeOK, TrafficConserved
  <2>5. QED
    BY <2>2, <2>4
<1>7. QED
  BY <1>1, <1>2, <1>3, <1>4, <1>5, <1>6

(* Every step keeps the accounts. *)
LEMMA NextAccount ==
  ASSUME AccountInv, [Next]_vars
  PROVE  AccountInv'
<1>1. CASE UNCHANGED vars
  BY <1>1 DEF vars, auditVars, historyVars, AccountInv, TypeOK, ReportedBehindUsed, CurrentBetween, TrafficConserved,
     InFlight, Delta, InPayload
<1>2. QED
  BY <1>1, RecordAccount, SyncAccount, ReportAccount DEF Next, TaskStep

(* The accounts are kept in every reachable state. *)
LEMMA AccountHolds == Spec => []AccountInv
BY InitAccount, NextAccount, PTL DEF Spec

(* Every unit a connection recorded is with the panel, still to be         *)
(* reported or gone with its client, and the panel counts too much only    *)
(* where an answer was lost (sync_once, report_traffic_once).              *)
THEOREM TrafficConservedHolds == Spec => []TrafficConserved
<1>1. AccountInv => TrafficConserved
  BY DEF AccountInv
<1>2. QED
  BY <1>1, AccountHolds, PTL

(* What is marked as reported never exceeds what the client used, so the   *)
(* saturating subtraction of report_traffic_once hides no traffic.         *)
THEOREM ReportedBehindUsedHolds == Spec => []ReportedBehindUsed
<1>1. AccountInv => ReportedBehindUsed
  BY DEF AccountInv
<1>2. QED
  BY <1>1, AccountHolds, PTL

-----------------------------------------------------------------------------
(* Who is enabled.                                                         *)

(* Where the task stands tells which clients may still differ from the     *)
(* list: those the first loop has yet to visit and those the second one    *)
(* will remove, which existed before the fetch.                            *)
EnabledInv ==
  /\ \A c \in Clients : enabled[c] => listed[c]
  /\ pc \in {"fetch", "list", "read", "posted"} => \A c \in Clients : enabled[c] => users[c] = "on"
  /\ pc = "add" => \A c \in Clients :
                     /\ c \in todo => users[c] # "absent"
                     /\ listed[c] => c \in existing \/ users[c] # "absent"
                     /\ enabled[c] => c \in todo \/ users[c] \in {"on", "absent"}
  /\ pc = "remove" => \A c \in Clients : enabled[c] => c \in todo \/ users[c] = "on"

(* Every step keeps the enabled clients within the list, up to those the   *)
(* task is about to visit.                                                 *)
LEMMA NextEnabled ==
  ASSUME AccountInv, EnabledInv, [Next]_vars
  PROVE  EnabledInv'
<1> USE DEF EnabledInv, auditVars, historyVars
<1>0. TypeOK
  BY DEF AccountInv
<1>1. CASE Fetch
  BY <1>0, <1>1 DEF Fetch, Listed, TypeOK
<1>2. CASE FetchFail \/ List \/ Quiet \/ Post \/ PostFail \/ Answer \/ AnswerLost
  BY <1>2 DEF FetchFail, List, Quiet, Post, PostFail, Answer, AnswerLost
<1>3. CASE Added
  BY <1>3 DEF Added, Missing
<1>4. CASE Removed
  BY <1>4 DEF Removed
<1>5. ASSUME NEW c \in Clients, Add(c)
      PROVE  EnabledInv'
  <2>1. listed'[c] /\ (enabled'[c] <=> users[c] = "on") /\ c \notin todo'
    BY Zenon, <1>0, <1>5 DEF Add, TypeOK
  <2>2. \A d \in Clients \ {c} : listed'[d] = listed[d] /\ enabled'[d] = enabled[d] /\ (d \in todo' <=> d \in todo)
    BY Zenon, <1>0, <1>5 DEF Add, TypeOK
  <2>3. pc = "add" /\ pc' = "add" /\ users' = users /\ existing' = existing
    BY Zenon, <1>5 DEF Add
  <2>4. users[c] # "absent"
    BY Zenon, <1>5, <2>3 DEF Add
  <2>5. QED
    BY <2>1, <2>2, <2>3, <2>4
<1>6. ASSUME NEW c \in Clients, Remove(c)
      PROVE  EnabledInv'
  BY <1>0, <1>6 DEF Remove, TypeOK
<1>7. ASSUME NEW c \in Clients, Read(c) \/ Record(c)
      PROVE  EnabledInv'
  BY <1>7 DEF Read, Record
<1>8. CASE UNCHANGED vars
  BY <1>8 DEF vars
<1>9. QED
  BY <1>1, <1>2, <1>3, <1>4, <1>5, <1>6, <1>7, <1>8 DEF Next, TaskStep

(* Outside the two loops of sync_once a client is approved only if the     *)
(* last fetch that succeeded named it as enabled (add_client,              *)
(* set_enable_of, remove_client).                                          *)
THEOREM EnabledAsFetchedHolds == Spec => []EnabledAsFetched
<1>1. Init => EnabledInv
  BY DEF Init, EnabledInv
<1>2. EnabledInv => EnabledAsFetched
  BY DEF EnabledInv, EnabledAsFetched
<1>3. QED
  BY <1>1, <1>2, NextEnabled, AccountHolds, PTL DEF Spec
=============================================================================
