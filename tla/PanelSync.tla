------------------------------ MODULE PanelSync ------------------------------
(***************************************************************************)
(* The panel-sync task (src/src/panel_sync/core.rs) and the TrafficAudit   *)
(* map it shares with the server's connections (traffic_audit.rs).  Each   *)
(* round fetches the users of the panel, adds and removes clients, and     *)
(* posts what every client has used since the last answered post.          *)
(*                                                                         *)
(* The task awaits between two uses of the audit's lock, so connections    *)
(* record traffic at any point of a round.  A post may be lost, received   *)
(* and answered, or received while its answer is lost.  Upstream and       *)
(* downstream traffic are counted alike and one counter stands for both.   *)
(*                                                                         *)
(* A definition that directly precedes another one and differs from it in  *)
(* one respect is a mistake the code could have made.                      *)
(***************************************************************************)
EXTENDS Integers

CONSTANTS
  Clients,     \* client_id values
  MaxTraffic,  \* bound: units a client records in all
  MaxLost      \* bound: answers that are lost

ASSUME PanelAssumption == MaxTraffic \in Nat /\ MaxLost \in Nat

VARIABLES
  listed, enabled, used, \* TrafficAudit: membership, enable flag, traffic
  reported,              \* reported_traffic, 0 for a client it lacks
  pc,                    \* where the task is
  users,                 \* the response of the panel: "absent", "on" or "off"
  todo,                  \* clients the current loop has yet to visit
  existing,              \* existing_clients
  current,               \* current_traffic, 0 for a client it lacks
  panel,                 \* external: what the panel has added up
  recorded,              \* history: traffic recorded for a client since the start
  forgotten,             \* history: unreported traffic that went with its client
  doubled,               \* history: traffic the panel was told of and not credited for
  lost                   \* answers lost so far

auditVars == <<listed, enabled, used>>
historyVars == <<recorded, forgotten, doubled, lost>>
vars == <<auditVars, reported, pc, users, todo, existing, current, panel, historyVars>>

Zero == [c \in Clients |-> 0]
Listed == {c \in Clients : listed[c]}

Init ==
  /\ listed = [c \in Clients |-> FALSE]
  /\ enabled = [c \in Clients |-> FALSE]
  /\ used = Zero
  /\ reported = Zero
  /\ pc = "fetch"
  /\ users = [c \in Clients |-> "absent"]
  /\ todo = {}
  /\ existing = {}
  /\ current = Zero
  /\ panel = Zero
  /\ recorded = Zero
  /\ forgotten = Zero
  /\ doubled = Zero
  /\ lost = 0

(* add_upstream_traffic_of, add_downstream_traffic_of: only for a client   *)
(* of the map.                                                             *)
Record(c) ==
  /\ listed[c]
  /\ recorded[c] < MaxTraffic
  /\ used' = [used EXCEPT ![c] = @ + 1]
  /\ recorded' = [recorded EXCEPT ![c] = @ + 1]
  /\ UNCHANGED <<listed, enabled, reported, pc, users, todo, existing, current, panel, forgotten, doubled, lost>>

-----------------------------------------------------------------------------
(* sync_once.                                                              *)

(* fetch_sync_payload, and the list of the clients that exist. *)
Fetch ==
  /\ pc = "fetch"
  /\ users' \in [Clients -> {"absent", "on", "off"}]
  /\ existing' = Listed
  /\ todo' = {c \in Clients : users'[c] # "absent"}
  /\ pc' = "add"
  /\ UNCHANGED <<auditVars, reported, current, panel, historyVars>>

(* The fetch fails: the round goes on with the report. *)
FetchFail ==
  /\ pc = "fetch"
  /\ pc' = "list"
  /\ UNCHANGED <<auditVars, reported, users, todo, existing, current, panel, historyVars>>

(* add_client and set_enable_of, in one lock section per user. *)
Add(c) ==
  /\ pc = "add"
  /\ c \in todo
  /\ todo' = todo \ {c}
  /\ listed' = [listed EXCEPT ![c] = TRUE]
  /\ enabled' = [enabled EXCEPT ![c] = users[c] = "on"]
  /\ UNCHANGED <<used, reported, pc, users, existing, current, panel, historyVars>>

MissingNone == {}
Missing == {c \in existing : users[c] = "absent"}

(* The second loop visits the clients the panel no longer names. *)
Added ==
  /\ pc = "add"
  /\ todo = {}
  /\ todo' = Missing
  /\ pc' = "remove"
  /\ UNCHANGED <<auditVars, reported, users, existing, current, panel, historyVars>>

ReportedKept(c) == reported
ReportedDropped(c) == [reported EXCEPT ![c] = 0]

(* remove_client, and what was reported for the client. *)
Remove(c) ==
  /\ pc = "remove"
  /\ c \in todo
  /\ todo' = todo \ {c}
  /\ listed' = [listed EXCEPT ![c] = FALSE]
  /\ enabled' = [enabled EXCEPT ![c] = FALSE]
  /\ used' = [used EXCEPT ![c] = 0]
  /\ forgotten' = [forgotten EXCEPT ![c] = @ + used[c] - reported[c]]
  /\ reported' = ReportedDropped(c)
  /\ UNCHANGED <<pc, users, existing, current, panel, recorded, doubled, lost>>

Removed ==
  /\ pc = "remove"
  /\ todo = {}
  /\ pc' = "list"
  /\ UNCHANGED <<auditVars, reported, users, todo, existing, current, panel, historyVars>>

-----------------------------------------------------------------------------
(* report_traffic_once.                                                    *)

List ==
  /\ pc = "list"
  /\ todo' = Listed
  /\ current' = Zero
  /\ pc' = "read"
  /\ UNCHANGED <<auditVars, reported, users, existing, panel, historyVars>>

GrownByMore(c) == used[c] > reported[c] + 1
Grown(c) == used[c] > reported[c]

(* The totals of one client, kept if they have grown since the last report. *)
Read(c) ==
  /\ pc = "read"
  /\ c \in todo
  /\ todo' = todo \ {c}
  /\ current' = [current EXCEPT ![c] = IF Grown(c) THEN used[c] ELSE 0]
  /\ UNCHANGED <<auditVars, reported, pc, users, existing, panel, historyVars>>

InPayload == {c \in Clients : current[c] # 0}

(* Nothing to report: the round is over. *)
Quiet ==
  /\ pc = "read"
  /\ todo = {}
  /\ InPayload = {}
  /\ pc' = "fetch"
  /\ UNCHANGED <<auditVars, reported, users, todo, existing, current, panel, historyVars>>

(* What the record of a client says. *)
Delta(c) == IF c \in InPayload THEN current[c] - reported[c] ELSE 0

(* The post reaches the panel. *)
Post ==
  /\ pc = "read"
  /\ todo = {}
  /\ InPayload # {}
  /\ panel' = [c \in Clients |-> panel[c] + Delta(c)]
  /\ pc' = "posted"
  /\ UNCHANGED <<auditVars, reported, users, todo, existing, current, historyVars>>

(* The post fails before it reaches the panel. *)
PostFail ==
  /\ pc = "read"
  /\ todo = {}
  /\ InPayload # {}
  /\ pc' = "fetch"
  /\ UNCHANGED <<auditVars, reported, users, todo, existing, current, panel, historyVars>>

(* The value credited to a client of the payload. *)
CreditLatest(c) == used[c]
Credit(c) == current[c]

(* parse_payload accepts the answer. *)
Answer ==
  /\ pc = "posted"
  /\ reported' = [c \in Clients |-> IF c \in InPayload THEN Credit(c) ELSE reported[c]]
  /\ pc' = "fetch"
  /\ UNCHANGED <<auditVars, users, todo, existing, current, panel, historyVars>>

(* The answer is lost, or is an error although the panel counted the post. *)
AnswerLost ==
  /\ pc = "posted"
  /\ lost < MaxLost
  /\ lost' = lost + 1
  /\ doubled' = [c \in Clients |-> doubled[c] + Delta(c)]
  /\ pc' = "fetch"
  /\ UNCHANGED <<auditVars, reported, users, todo, existing, current, panel, recorded, forgotten>>

TaskStep ==
  \/ Fetch \/ FetchFail \/ Added \/ Removed \/ List \/ Quiet
  \/ Post \/ PostFail \/ Answer \/ AnswerLost
  \/ \E c \in Clients : Add(c) \/ Remove(c) \/ Read(c)

Next == TaskStep \/ \E c \in Clients : Record(c)

Spec == Init /\ [][Next]_vars

(* The interval keeps ticking and every request ends, although none has a  *)
(* timeout, and a panel that is asked again and again receives a post now  *)
(* and then and answers it.                                                *)
FairSpec == Spec /\ WF_vars(TaskStep) /\ SF_vars(Post) /\ SF_vars(Answer)

-----------------------------------------------------------------------------
(* Properties.                                                             *)

(* TrafficAudit, reported_traffic and the task's local state have their    *)
(* types.                                                                  *)
TypeOK ==
  /\ listed \in [Clients -> BOOLEAN] /\ enabled \in [Clients -> BOOLEAN]
  /\ used \in [Clients -> Nat] /\ reported \in [Clients -> Nat] /\ current \in [Clients -> Nat]
  /\ pc \in {"fetch", "add", "remove", "list", "read", "posted"}
  /\ users \in [Clients -> {"absent", "on", "off"}]
  /\ todo \subseteq Clients /\ existing \subseteq Clients
  /\ panel \in [Clients -> Nat]
  /\ recorded \in [Clients -> 0 .. MaxTraffic]
  /\ forgotten \in [Clients -> Nat] /\ doubled \in [Clients -> Nat]
  /\ lost \in 0 .. MaxLost

(* Traffic the panel counted and the node is about to take note of. *)
InFlight(c) == IF pc = "posted" THEN Delta(c) ELSE 0

(* Every unit of traffic is accounted for: what the panel added up, less   *)
(* what it counted twice because an answer was lost, together with what is *)
(* still to be reported and what went with a removed client, is what the   *)
(* connections recorded (sync_once, report_traffic_once).                  *)
TrafficConserved ==
  \A c \in Clients :
    panel[c] - InFlight(c) - doubled[c] + (used[c] - reported[c]) + forgotten[c] = recorded[c]

(* What is marked as reported was recorded for the same membership of the  *)
(* client: the saturating subtraction of a later report hides no traffic.  *)
ReportedBehindUsed == \A c \in Clients : reported[c] <= used[c]

(* Only a client of the current user list is approved: outside the two     *)
(* loops of sync_once, and so between two rounds, an enabled client is one *)
(* the last complete fetch named as enabled.                               *)
EnabledAsFetched ==
  pc \in {"fetch", "list", "read", "posted"} => \A c \in Clients : enabled[c] => users[c] = "on"

(* Traffic of a client that stays listed reaches the panel.                *)
TrafficReported ==
  \A c \in Clients : (listed[c] /\ used[c] > reported[c]) ~> (used[c] = reported[c] \/ ~listed[c])
=============================================================================
