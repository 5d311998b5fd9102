---------------------------- MODULE UserRegistry ----------------------------
(***************************************************************************)
(* The user registry of a panel-managed node: UserRegistry, UserEntry and  *)
(* AuthedUser (src/src/node_api/users.rs), the management API's PUT /users *)
(* and POST reset-quota (api.rs), and what a server connection does with   *)
(* them (bin/server.rs: handle_connection, handle_session and the          *)
(* once-per-second check of the relay loops).                              *)
(*                                                                         *)
(* An Arc<UserEntry> is a number in Entries; its fields are functions on   *)
(* Entries.  The index lock is a parking_lot::RwLock: a lookup is one step *)
(* and needs the lock free, a replace holds it over several steps, and the *)
(* atomics of an entry are read and written without it.                    *)
(*                                                                         *)
(* As in ClientPool, a definition that directly precedes another one and   *)
(* differs from it in one respect is a mistake the code could have made.   *)
(***************************************************************************)
EXTENDS Integers, FiniteSets

CONSTANTS
  NumEmails,    \* users are named 1 .. NumEmails, in the order into_specs sorts
  Passwords,    \* passwords, each its own hash
  NoPassword,   \* the empty password, which replace ignores
  Conns,        \* connection slots; a slot is used again once it is free
  Quotas,       \* values of quota_bytes
  Expiries,     \* values of expires_unix
  MaxReplaces,  \* bound: calls of replace
  MaxBytes,     \* bound: bytes an entry records in each direction
  MaxTime       \* bound: ticks of the clock

ASSUME RegistryAssumption ==
  /\ NumEmails \in Nat \ {0}
  /\ NoPassword \notin Passwords
  /\ IsFiniteSet(Conns)
  /\ Quotas \subseteq Nat /\ 0 \in Quotas
  /\ Expiries \subseteq Nat /\ 0 \in Expiries
  /\ MaxReplaces \in Nat /\ MaxBytes \in Nat /\ MaxTime \in Nat

VARIABLES
  byEmail, byHash,   \* Index
  lock,              \* "free", or "write" while a replace runs
  req, next,         \* the specs of that replace, and the next one to apply
  newEmail, newHash, \* its local maps
  nextEntry,         \* entries allocated so far, plus one
  replaces,          \* calls of replace so far
  gen, revoked, quota, expires, base, up, down, count, \* fields of UserEntry
  conn,              \* where a connection is
  ent, pass, myGen,  \* its AuthedUser, and the password it presented
  relay,             \* its two relay loops: "none", "select", or inside a "write"
  racers,            \* history: connections between lookup and guard during a rekey
  reset,             \* a reset_quota at work: its entry and the up it read
  now                \* unix time

None == 0
Emails == 1 .. NumEmails
Entries == 1 .. NumEmails * MaxReplaces
MaybeEntries == Entries \cup {None}
Absent == [password |-> NoPassword, quota |-> 0, expires |-> 0]
Specs == [password : Passwords, quota : Quotas, expires : Expiries] \cup {Absent}
Dirs == {"up", "down"}   \* s2o and o2s

indexVars == <<byEmail, byHash>>
workVars == <<lock, req, next, newEmail, newHash, replaces>>
entryVars == <<gen, revoked, quota, expires, base, up, down>>
connVars == <<conn, ent, pass, myGen, relay, racers>>
vars == <<indexVars, workVars, nextEntry, entryVars, count, connVars, reset, now>>

Init ==
  /\ byEmail = [m \in Emails |-> None]
  /\ byHash = [p \in Passwords |-> None]
  /\ lock = "free"
  /\ req = [m \in Emails |-> Absent]
  /\ next = 1
  /\ newEmail = [m \in Emails |-> None]
  /\ newHash = [p \in Passwords |-> None]
  /\ nextEntry = 1
  /\ replaces = 0
  /\ gen = [e \in Entries |-> 0]
  /\ revoked = [e \in Entries |-> FALSE]
  /\ quota = [e \in Entries |-> 0]
  /\ expires = [e \in Entries |-> 0]
  /\ base = [e \in Entries |-> 0]
  /\ up = [e \in Entries |-> 0]
  /\ down = [e \in Entries |-> 0]
  /\ count = [e \in Entries |-> 0]
  /\ conn = [c \in Conns |-> "new"]
  /\ ent = [c \in Conns |-> None]
  /\ pass = [c \in Conns |-> NoPassword]
  /\ myGen = [c \in Conns |-> 0]
  /\ relay = [c \in Conns |-> [d \in Dirs |-> "none"]]
  /\ racers = {}
  /\ reset = [entry |-> None, up |-> 0]
  /\ now = 0

-----------------------------------------------------------------------------
(* UserRegistry::replace, from PUT /users or the users file.               *)

(* A JSON object has each email at most once.  An email the body leaves    *)
(* out and one with an empty password are both passed over.                *)
ReplaceStart ==
  /\ lock = "free"
  /\ replaces < MaxReplaces
  /\ replaces' = replaces + 1
  /\ lock' = "write"
  /\ req' \in [Emails -> Specs]
  /\ next' = 1
  /\ newEmail' = [m \in Emails |-> None]
  /\ newHash' = [p \in Passwords |-> None]
  /\ UNCHANGED <<indexVars, nextEntry, entryVars, count, connVars, reset, now>>

CollidesNever(p) == FALSE
Collides(p) == newHash[p] # None
Skipped(p) == p \in Passwords => Collides(p)

(* The password is not the one the index knows the entry by. *)
RekeyedIfUnknown(e, p) == byHash[p] = None
RekeyedAlways(e, p) == TRUE
Rekeyed(e, p) == byHash[p] # e

NextGenFlips(e) == 1 - gen[e]
NextGen(e) == gen[e] + 1

(* The connections that looked e up but have not read its generation. *)
Authenticating(e) == {c \in Conns : ent[c] = e /\ conn[c] \in {"check", "guard"}}

(* One round of the loop over the specs. *)
ReplaceSpec ==
  /\ lock = "write"
  /\ next \in Emails
  /\ next' = next + 1
  /\ LET s == req[next]
         p == s.password
         old == byEmail[next]
         Publish(e) == /\ newEmail' = [newEmail EXCEPT ![next] = e]
                       /\ newHash' = [newHash EXCEPT ![p] = e]
                       /\ quota' = [quota EXCEPT ![e] = s.quota]
                       /\ expires' = [expires EXCEPT ![e] = s.expires]
     IN
     \/ /\ Skipped(p)
        /\ UNCHANGED <<newEmail, newHash, quota, expires, gen, racers, nextEntry>>
     \/ /\ ~Skipped(p) /\ old # None
        /\ Publish(old)
        /\ IF Rekeyed(old, p)
           THEN /\ gen' = [gen EXCEPT ![old] = NextGen(old)]
                /\ racers' = racers \cup Authenticating(old)
           ELSE UNCHANGED <<gen, racers>>
        /\ UNCHANGED nextEntry
     \/ /\ ~Skipped(p) /\ old = None
        /\ Publish(nextEntry)
        /\ nextEntry' = nextEntry + 1
        /\ UNCHANGED <<gen, racers>>
  /\ UNCHANGED <<indexVars, lock, req, replaces, revoked, base, up, down, count, conn, ent, pass, myGen,
                 relay, reset, now>>

(* The entries whose email is gone. *)
DroppedNone == {}
Dropped == {byEmail[m] : m \in {n \in Emails : newEmail[n] = None}}

(* The loop that revokes, the new index, and the release of the lock. *)
ReplaceCommit ==
  /\ lock = "write"
  /\ next \notin Emails
  /\ lock' = "free"
  /\ revoked' = [e \in Entries |-> revoked[e] \/ e \in Dropped]
  /\ byEmail' = newEmail
  /\ byHash' = newHash
  /\ UNCHANGED <<req, next, newEmail, newHash, replaces, nextEntry, gen, quota, expires, base, up, down,
                 count, connVars, reset, now>>

-----------------------------------------------------------------------------
(* UserRegistry::authenticate, in handle_connection.                       *)

QuotaUsed(e) == IF up[e] + down[e] >= base[e] THEN up[e] + down[e] - base[e] ELSE 0

(* UserEntry::deny_reason *)
Denied(e) ==
  \/ revoked[e]
  \/ expires[e] > 0 /\ now >= expires[e]
  \/ quota[e] > 0 /\ QuotaUsed(e) >= quota[e]

(* AuthedUser::deny_reason *)
ConnDeniedAnyGeneration(c) == Denied(ent[c])
ConnDenied(c) == gen[ent[c]] # myGen[c] \/ Denied(ent[c])

Freed(c) ==
  /\ conn' = [conn EXCEPT ![c] = "new"]
  /\ ent' = [ent EXCEPT ![c] = None]
  /\ pass' = [pass EXCEPT ![c] = NoPassword]
  /\ myGen' = [myGen EXCEPT ![c] = 0]
  /\ racers' = racers \ {c}

(* Looks the hash up under the read lock. *)
Lookup(c) ==
  /\ conn[c] = "new"
  /\ lock = "free"
  /\ \E p \in Passwords :
       /\ byHash[p] # None
       /\ ent' = [ent EXCEPT ![c] = byHash[p]]
       /\ pass' = [pass EXCEPT ![c] = p]
  /\ conn' = [conn EXCEPT ![c] = "check"]
  /\ UNCHANGED <<indexVars, workVars, nextEntry, entryVars, count, myGen, relay, racers, reset, now>>

(* An unknown hash: the client is relayed elsewhere, or dropped. *)
Reject(c) ==
  /\ conn[c] = "new"
  /\ lock = "free"
  /\ \E p \in Passwords : byHash[p] = None
  /\ UNCHANGED vars

(* deny_reason of the entry, outside the lock. *)
Check(c) ==
  /\ conn[c] = "check"
  /\ IF Denied(ent[c])
     THEN Freed(c)
     ELSE conn' = [conn EXCEPT ![c] = "guard"] /\ UNCHANGED <<ent, pass, myGen, racers>>
  /\ UNCHANGED <<indexVars, workVars, nextEntry, entryVars, count, relay, reset, now>>

MoreForgotten(e) == count[e]
More(e) == count[e] + 1

(* AuthedUser::new: reads the generation and counts the connection. *)
Guard(c) ==
  /\ conn[c] = "guard"
  /\ conn' = [conn EXCEPT ![c] = "padding"]
  /\ myGen' = [myGen EXCEPT ![c] = gen[ent[c]]]
  /\ count' = [count EXCEPT ![ent[c]] = More(ent[c])]
  /\ UNCHANGED <<indexVars, workVars, nextEntry, entryVars, ent, pass, relay, racers, reset, now>>

(* AuthedUser::drop *)
DropGuard(c) ==
  /\ Freed(c)
  /\ count' = [count EXCEPT ![ent[c]] = @ - 1]

(* The padding was read: ctx.approved(), or the read fails. *)
Approve(c) ==
  /\ conn[c] = "padding"
  /\ \/ /\ ~ConnDenied(c)
        /\ conn' = [conn EXCEPT ![c] = "session"]
        /\ UNCHANGED <<ent, pass, myGen, racers, count>>
     \/ DropGuard(c)
  /\ UNCHANGED <<indexVars, workVars, nextEntry, entryVars, relay, reset, now>>

-----------------------------------------------------------------------------
(* The connection at work.                                                 *)

Relaying(c) == \E d \in Dirs : relay[c][d] # "none"

(* handle_session: ctx.approved() guards the relay of the next destination. *)
StartRelay(c) ==
  /\ conn[c] = "session"
  /\ ~Relaying(c)
  /\ ~ConnDenied(c)
  /\ relay' = [relay EXCEPT ![c] = [d \in Dirs |-> "select"]]
  /\ UNCHANGED <<indexVars, workVars, nextEntry, entryVars, count, conn, ent, pass, myGen, racers, reset, now>>

(* A read arrived: record_up or record_down, then the write to the other side. *)
Relay(c, d) ==
  /\ relay[c][d] = "select"
  /\ relay' = [relay EXCEPT ![c][d] = "write"]
  /\ LET e == ent[c] IN
     \/ d = "up" /\ up[e] < MaxBytes /\ up' = [up EXCEPT ![e] = @ + 1] /\ UNCHANGED down
     \/ d = "down" /\ down[e] < MaxBytes /\ down' = [down EXCEPT ![e] = @ + 1] /\ UNCHANGED up
  /\ UNCHANGED <<indexVars, workVars, nextEntry, gen, revoked, quota, expires, base, count, conn, ent, pass,
                 myGen, racers, reset, now>>

(* The write is over: the loop goes on, or ends on an error. *)
Written(c, d) ==
  /\ relay[c][d] = "write"
  /\ \E r \in {"select", "none"} : relay' = [relay EXCEPT ![c][d] = r]
  /\ UNCHANGED <<indexVars, workVars, nextEntry, entryVars, count, conn, ent, pass, myGen, racers, reset, now>>

(* enable_check.tick() finds that the connection is no longer approved. *)
Poll(c, d) ==
  /\ relay[c][d] = "select"
  /\ ConnDenied(c)
  /\ relay' = [relay EXCEPT ![c][d] = "none"]
  /\ UNCHANGED <<indexVars, workVars, nextEntry, entryVars, count, conn, ent, pass, myGen, racers, reset, now>>

(* End of file, a read error, or relay_cancel. *)
EndRelay(c, d) ==
  /\ relay[c][d] = "select"
  /\ relay' = [relay EXCEPT ![c][d] = "none"]
  /\ UNCHANGED <<indexVars, workVars, nextEntry, entryVars, count, conn, ent, pass, myGen, racers, reset, now>>

(* The TLS connection ends: Session::run returns. *)
Disconnect(c) ==
  /\ conn[c] = "session"
  /\ conn' = [conn EXCEPT ![c] = "gone"]
  /\ UNCHANGED <<indexVars, workVars, nextEntry, entryVars, count, ent, pass, myGen, relay, racers, reset, now>>

(* The last holder of the ConnCtx is gone. *)
Release(c) ==
  /\ conn[c] = "gone"
  /\ ~Relaying(c)
  /\ DropGuard(c)
  /\ UNCHANGED <<indexVars, workVars, nextEntry, entryVars, relay, reset, now>>

-----------------------------------------------------------------------------
(* The other requests of the management API, and the clock.                *)

(* POST reset-quota: registry.get under the read lock, then bytes_up. *)
ResetStart(m) ==
  /\ reset.entry = None
  /\ lock = "free"
  /\ byEmail[m] # None
  /\ reset' = [entry |-> byEmail[m], up |-> up[byEmail[m]]]
  /\ UNCHANGED <<indexVars, workVars, nextEntry, entryVars, count, connVars, now>>

NewBaseAdded == base[reset.entry] + reset.up + down[reset.entry]
NewBase == reset.up + down[reset.entry]

(* bytes_down, and the store of the sum. *)
ResetStore ==
  /\ reset.entry # None
  /\ base' = [base EXCEPT ![reset.entry] = NewBase]
  /\ reset' = [entry |-> None, up |-> 0]
  /\ UNCHANGED <<indexVars, workVars, nextEntry, gen, revoked, quota, expires, up, down, count, connVars, now>>

Tick ==
  /\ now < MaxTime
  /\ now' = now + 1
  /\ UNCHANGED <<indexVars, workVars, nextEntry, entryVars, count, connVars, reset>>

ConnStep(c) ==
  \/ Lookup(c) \/ Reject(c) \/ Check(c) \/ Guard(c) \/ Approve(c)
  \/ StartRelay(c) \/ Disconnect(c) \/ Release(c)
  \/ \E d \in Dirs : Relay(c, d) \/ Written(c, d) \/ Poll(c, d) \/ EndRelay(c, d)

Next ==
  \/ ReplaceStart \/ ReplaceSpec \/ ReplaceCommit
  \/ \E c \in Conns : ConnStep(c)
  \/ \E m \in Emails : ResetStart(m)
  \/ ResetStore \/ Tick

Spec == Init /\ [][Next]_vars

(* A replace runs to its end, authentication does not wait for anyone but  *)
(* the lock, a write ends one day, and select! picks a ready tick again    *)
(* and again, however much data arrives.  Nothing makes a client send its  *)
(* padding or go away.                                                     *)
FairSpec ==
  /\ Spec
  /\ WF_vars(ReplaceSpec) /\ WF_vars(ReplaceCommit) /\ WF_vars(ResetStore)
  /\ \A c \in Conns :
       /\ WF_vars(Check(c)) /\ WF_vars(Guard(c)) /\ WF_vars(Release(c))
       /\ \A d \in Dirs : WF_vars(Written(c, d)) /\ SF_vars(Poll(c, d))

-----------------------------------------------------------------------------
(* Properties.                                                             *)

Guarded == {c \in Conns : conn[c] \in {"padding", "session", "gone"}}
Listed == {byEmail[m] : m \in Emails} \ {None}

(* Every variable keeps its type; in particular a connection count is      *)
(* never negative (UserEntry, Index, AuthedUser).                          *)
TypeOK ==
  /\ byEmail \in [Emails -> MaybeEntries] /\ newEmail \in [Emails -> MaybeEntries]
  /\ byHash \in [Passwords -> MaybeEntries] /\ newHash \in [Passwords -> MaybeEntries]
  /\ lock \in {"free", "write"}
  /\ req \in [Emails -> Specs]
  /\ next \in 1 .. NumEmails + 1
  /\ nextEntry \in 1 .. NumEmails * MaxReplaces + 1
  /\ replaces \in 0 .. MaxReplaces
  /\ gen \in [Entries -> Nat] /\ revoked \in [Entries -> BOOLEAN]
  /\ quota \in [Entries -> Quotas] /\ expires \in [Entries -> Expiries]
  /\ base \in [Entries -> Nat] /\ count \in [Entries -> Nat]
  /\ up \in [Entries -> 0 .. MaxBytes] /\ down \in [Entries -> 0 .. MaxBytes]
  /\ conn \in [Conns -> {"new", "check", "guard", "padding", "session", "gone"}]
  /\ ent \in [Conns -> MaybeEntries]
  /\ pass \in [Conns -> Passwords \cup {NoPassword}]
  /\ myGen \in [Conns -> Nat]
  /\ relay \in [Conns -> [Dirs -> {"none", "select", "write"}]]
  /\ racers \subseteq Conns
  /\ reset \in [entry : MaybeEntries, up : 0 .. MaxBytes]
  /\ now \in 0 .. MaxTime

(* The two maps of the Index that replace builds agree: a password leads   *)
(* to an entry that is listed under an email, a listed entry has exactly   *)
(* one password, and no entry is listed twice.                             *)
IndexConsistent ==
  /\ \A p \in Passwords : byHash[p] # None => byHash[p] \in Listed
  /\ \A e \in Listed : \E p \in Passwords : \A q \in Passwords : byHash[q] = e <=> q = p
  /\ \A m, n \in Emails : byEmail[m] # None /\ byEmail[m] = byEmail[n] => m = n

(* Between two calls of replace, an entry ever handed out is revoked       *)
(* exactly when the registry no longer lists it: no user who was removed   *)
(* goes on, and none who is listed is locked out by an earlier removal.    *)
RevokedIffUnlisted ==
  lock = "free" => \A e \in 1 .. nextEntry - 1 : revoked[e] <=> e \notin Listed

(* connections is the number of live AuthedUser guards of the entry,       *)
(* however authentication, replace and the ends of connections interleave. *)
ConnectionsExact ==
  \A e \in Entries : count[e] = Cardinality({c \in Guarded : ent[c] = e})

(* A connection that generation does not retire presented a password under *)
(* which the index knows its user, or the user is revoked; the only others *)
(* had looked the user up and not yet read the generation when it changed. *)
OnlyRacersOutliveRekey ==
  \A c \in Guarded \ racers :
    \/ gen[ent[c]] # myGen[c]
    \/ revoked[ent[c]]
    \/ byHash[pass[c]] = ent[c]

(* A reset never puts the start of the quota window ahead of the totals,   *)
(* so the saturating subtraction of quota_used never hides spent bytes.    *)
WindowBehindTotals == \A e \in Entries : base[e] <= up[e] + down[e]

(* A retired connection stays retired for as long as it lasts.             *)
RetiredForGood ==
  [][\A c \in Guarded :
       gen[ent[c]] # myGen[c] /\ conn'[c] # "new" => (gen[ent[c]] # myGen[c])']_vars

(* The spec of m repeats the password the index knows m by, and no spec    *)
(* applied earlier takes it.                                               *)
Keeps(m) ==
  /\ byEmail[m] # None
  /\ req[m].password # NoPassword
  /\ byHash[req[m].password] = byEmail[m]
  /\ \A n \in 1 .. m - 1 : req[n].password # req[m].password

(* Editing one client never disturbs the others: a replace neither retires *)
(* nor revokes a user whose password it leaves alone, unless it gives that *)
(* password to a user applied earlier.                                     *)
UntouchedKeep ==
  [][lock = "write" =>
       \A m \in Emails : Keeps(m) =>
         gen'[byEmail[m]] = gen[byEmail[m]] /\ revoked'[byEmail[m]] = revoked[byEmail[m]]]_vars

(* The user of c is re-keyed, revoked, expired or over quota. *)
ShutOut(c) ==
  LET e == ent[c] IN
  \/ gen[e] # myGen[c]
  \/ revoked[e]
  \/ 0 < expires[e] /\ expires[e] <= now
  \/ 0 < quota[e] /\ base[e] + quota[e] <= up[e] + down[e]

(* A relay loop of a user who is revoked, expired, over quota or re-keyed  *)
(* ends (enable_check of handle_tcp_stream), unless the denial is lifted   *)
(* first.                                                                  *)
DeniedRelaysEnd ==
  \A c \in Conns, d \in Dirs :
    (relay[c][d] # "none" /\ ShutOut(c)) ~> (relay[c][d] = "none" \/ ~ShutOut(c))
=============================================================================
