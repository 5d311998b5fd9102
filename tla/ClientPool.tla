----------------------------- MODULE ClientPool -----------------------------
(***************************************************************************)
(* The client side of session reuse: Client, IdleSessionPool and the part  *)
(* of Session that they touch (src/src/proxy/session/client.rs, inner.rs,  *)
(* stream.rs).                                                             *)
(*                                                                         *)
(* Every element of Calls is one call of Client::create_stream and also    *)
(* names the logical stream that call opens.  A session is named by its    *)
(* sequence number.  Each tokio task is a process with its own program     *)
(* counter: the call, the idle-return task a call spawns, the run task of  *)
(* a session, the cleanup task and Client::close.  A step ends where the   *)
(* code releases a lock or awaits, so other tasks can run in between.      *)
(* Session::terminate is one step here; SessionLife models it in detail.   *)
(*                                                                         *)
(* A definition that directly precedes another one and differs from it in  *)
(* one respect (HasCapacityOffByOne, DialOkUnchecked, ...) is a mistake    *)
(* the code could have made; no specification uses it.  It is there to     *)
(* confirm that a property notices the mistake.                            *)
(***************************************************************************)
EXTENDS Integers, Sequences, FiniteSets

CONSTANTS
  Calls,        \* calls of create_stream, one logical stream each
  MaxSessions,  \* bound: how many sessions may be dialled
  MaxTime,      \* bound: ticks of the clock
  Timeout,      \* idle_session_timeout, in ticks
  MinIdle,      \* min_idle_sessions
  MaxStreams,   \* max_streams_per_session, at least 1 by construction
  Attempts,     \* 3 in create_stream
  MaxFins,      \* bound: streams the server ends with FIN
  MaxWriterFails, \* bound: sessions whose writer fails
  MayClose      \* whether Client::close is ever called

ASSUME CallsFinite == IsFiniteSet(Calls)
ASSUME BoundsAssumption ==
  /\ MaxSessions \in Nat \ {0}
  /\ MaxTime \in Nat
  /\ Timeout \in Nat
  /\ MinIdle \in Nat
  /\ MaxStreams \in Nat \ {0}
  /\ Attempts \in Nat \ {0}
  /\ MaxFins \in Nat
  /\ MaxWriterFails \in Nat
  /\ MayClose \in BOOLEAN

VARIABLES
  pc,        \* where each call is
  att,       \* attempts a call has started
  cand,      \* the session a call works on; after "ok", the stream's session
  took,      \* what take_reusable read with the entry it popped
  todo,      \* rest of a call's snapshot of active_sessions
  waiter,    \* where the idle-return task of a call is
  fin,       \* calls whose stream already got its FIN from the server
  pend,      \* removals that found no stream left and have yet to publish it
  closed,    \* Session.closed
  writerUp,  \* the writer task still holds frame_rx
  streams,   \* Session.streams
  idle,      \* value of the watch channel idle_state
  run,       \* the session's run task
  pool,      \* IdleSessionPool.sessions, in IndexMap order
  active,    \* Client.active_sessions, in IndexMap order
  nextSeq,   \* session_seq_number
  now,       \* the clock
  cleanup,   \* where the cleanup task is; "removing" holds the pool's lock
  toRemove,  \* indices cleanup_stale has yet to remove
  kill,      \* sessions cleanup_stale has yet to terminate
  closer,    \* where Client::close is; closed_flag is set from "join" on
  closing,   \* sessions Client::close has yet to terminate
  racers     \* history: sessions past their closed check, not yet in
             \* active_sessions, when close emptied active_sessions

callVars == <<pc, att, cand, took, todo>>
sessVars == <<closed, writerUp, streams, idle, run>>
poolVars == <<pool, active, nextSeq>>
cleanVars == <<cleanup, toRemove, kill>>
closeVars == <<closer, closing, racers>>
vars == <<callVars, waiter, fin, pend, sessVars, poolVars, now, cleanVars, closeVars>>

Seqs == 0 .. MaxSessions - 1
Times == 0 .. MaxTime
Entry == [seq : Seqs, since : Times]

ClosedFlag == closer # "open"

(* Session::is_terminated *)
IsTerminated(s) == closed[s] \/ ~writerUp[s]

(* Session::has_stream_capacity, also the limit open_stream enforces. *)
HasCapacityOffByOne(s) == Cardinality(streams[s]) <= MaxStreams
HasCapacity(s) == Cardinality(streams[s]) < MaxStreams

(* HashMap::remove on Session.streams. *)
RemainingForgotten(s, c) == streams[s]
Remaining(s, c) == streams[s] \ {c}

(* IndexMap::swap_remove_index: the last entry takes the place of entry i. *)
SwapRemove(q, i) == [j \in 1 .. Len(q) - 1 |-> IF j = i THEN q[Len(q)] ELSE q[j]]

SeqsOf(q) == {q[i].seq : i \in DOMAIN q}

Expired(since) == now - since >= Timeout

(* Session::terminate: the first call wins, drops every stream and reports idle. *)
Terminate(s) ==
  IF closed[s]
  THEN UNCHANGED <<closed, streams, idle>>
  ELSE /\ closed' = [closed EXCEPT ![s] = TRUE]
       /\ streams' = [streams EXCEPT ![s] = {}]
       /\ idle' = [idle EXCEPT ![s] = TRUE]

Goto(c, label) == pc' = [pc EXCEPT ![c] = label]

NothingTaken == [since |-> 0, protected |-> FALSE]

(* create_stream returns an error and its local variables are gone. *)
ReturnErr(c) ==
  /\ Goto(c, "err")
  /\ att' = [att EXCEPT ![c] = 0]
  /\ cand' = [cand EXCEPT ![c] = 0]

-----------------------------------------------------------------------------
Init ==
  /\ pc = [c \in Calls |-> "attempt"]
  /\ att = [c \in Calls |-> 0]
  /\ cand = [c \in Calls |-> 0]
  /\ took = [c \in Calls |-> NothingTaken]
  /\ todo = [c \in Calls |-> <<>>]
  /\ waiter = [c \in Calls |-> "none"]
  /\ fin = {}
  /\ pend = {}
  /\ closed = [s \in Seqs |-> FALSE]
  /\ writerUp = [s \in Seqs |-> TRUE]
  /\ streams = [s \in Seqs |-> {}]
  /\ idle = [s \in Seqs |-> TRUE]
  /\ run = [s \in Seqs |-> "none"]
  /\ pool = <<>>
  /\ active = <<>>
  /\ nextSeq = 0
  /\ now = 0
  /\ cleanup = "idle"
  /\ toRemove = {}
  /\ kill = <<>>
  /\ closer = "open"
  /\ closing = <<>>
  /\ racers = {}

-----------------------------------------------------------------------------
(* Client::create_stream.                                                  *)

(* "for _ in 0..3" is over. *)
ExhaustedLate(c) == att[c] > Attempts
Exhausted(c) == att[c] = Attempts

(* The head of the retry loop, with find_or_create_session's first check. *)
Attempt(c) ==
  /\ pc[c] = "attempt"
  /\ IF Exhausted(c) \/ ClosedFlag
     THEN ReturnErr(c)
     ELSE /\ Goto(c, "take")
          /\ att' = [att EXCEPT ![c] = @ + 1]
          /\ UNCHANGED cand
  /\ UNCHANGED <<took, todo, waiter, fin, pend, sessVars, poolVars, now, cleanVars, closeVars>>

(* take_reusable, under the pool's lock: pop the last entry. *)
TakePop(c) ==
  /\ pc[c] = "take"
  /\ cleanup # "removing"
  /\ IF pool = <<>>
     THEN Goto(c, "snapshot") /\ UNCHANGED <<cand, took, pool>>
     ELSE LET e == pool[Len(pool)] IN
          /\ Goto(c, "check")
          /\ cand' = [cand EXCEPT ![c] = e.seq]
          /\ took' = [took EXCEPT ![c] = [since |-> e.since, protected |-> Len(pool) <= MinIdle]]
          /\ pool' = SwapRemove(pool, Len(pool))
  /\ UNCHANGED <<att, todo, waiter, fin, pend, sessVars, active, nextSeq, now, cleanVars, closeVars>>

(* take_reusable, after the lock: skip a dead session, drop a stale one. *)
TakeCheck(c) ==
  /\ pc[c] = "check"
  /\ \/ /\ IsTerminated(cand[c])
        /\ Goto(c, "take")
        /\ UNCHANGED <<closed, streams, idle>>
     \/ /\ ~IsTerminated(cand[c])
        /\ ~took[c].protected /\ Expired(took[c].since)
        /\ Goto(c, "take")
        /\ Terminate(cand[c])
     \/ /\ ~IsTerminated(cand[c])
        /\ took[c].protected \/ ~Expired(took[c].since)
        /\ Goto(c, "open")
        /\ UNCHANGED <<closed, streams, idle>>
  /\ took' = [took EXCEPT ![c] = NothingTaken]
  /\ UNCHANGED <<att, cand, todo, waiter, fin, pend, writerUp, run, poolVars, now, cleanVars, closeVars>>

(* find_or_create_session: snapshot of active_sessions under its lock. *)
Snapshot(c) ==
  /\ pc[c] = "snapshot"
  /\ Goto(c, "scan")
  /\ todo' = [todo EXCEPT ![c] = active]
  /\ UNCHANGED <<att, cand, took, waiter, fin, pend, sessVars, poolVars, now, cleanVars, closeVars>>

(* The loop over the snapshot: is_terminated of the next session, or the   *)
(* closed check after the last one.                                        *)
Scan(c) ==
  /\ pc[c] = "scan"
  /\ \/ /\ todo[c] = <<>>
        /\ IF ClosedFlag THEN ReturnErr(c) ELSE Goto(c, "dial") /\ UNCHANGED <<att, cand>>
        /\ UNCHANGED todo
     \/ /\ todo[c] # <<>>
        /\ IF IsTerminated(Head(todo[c]))
           THEN todo' = [todo EXCEPT ![c] = Tail(@)] /\ UNCHANGED pc
           ELSE Goto(c, "capacity") /\ UNCHANGED todo
        /\ UNCHANGED <<att, cand>>
  /\ UNCHANGED <<took, waiter, fin, pend, sessVars, poolVars, now, cleanVars, closeVars>>

(* has_stream_capacity, under the streams lock. *)
ScanCapacityWaiting(c) ==
  /\ pc[c] = "capacity"
  /\ LET s == Head(todo[c]) IN
     IF HasCapacity(s)
     THEN /\ Goto(c, "open")
          /\ cand' = [cand EXCEPT ![c] = s]
          /\ todo' = [todo EXCEPT ![c] = <<>>]
     ELSE UNCHANGED <<pc, cand, todo>>
  /\ UNCHANGED <<att, took, waiter, fin, pend, sessVars, poolVars, now, cleanVars, closeVars>>
ScanCapacity(c) ==
  /\ pc[c] = "capacity"
  /\ LET s == Head(todo[c]) IN
     IF HasCapacity(s)
     THEN /\ Goto(c, "open")
          /\ cand' = [cand EXCEPT ![c] = s]
          /\ todo' = [todo EXCEPT ![c] = <<>>]
     ELSE /\ Goto(c, "scan")
          /\ todo' = [todo EXCEPT ![c] = Tail(@)]
          /\ UNCHANGED cand
  /\ UNCHANGED <<att, took, waiter, fin, pend, sessVars, poolVars, now, cleanVars, closeVars>>

(* create_session: dial_out or ensure_started fails; "?" ends the call. *)
DialFail(c) ==
  /\ pc[c] = "dial"
  /\ ReturnErr(c)
  /\ UNCHANGED <<took, todo, waiter, fin, pend, sessVars, poolVars, now, cleanVars, closeVars>>

(* create_session: connected; the closed check, then the sequence number. *)
DialOkUnchecked(c) ==
  /\ pc[c] = "dial"
  /\ nextSeq < MaxSessions
  /\ Goto(c, "insert")
  /\ cand' = [cand EXCEPT ![c] = nextSeq]
  /\ nextSeq' = nextSeq + 1
  /\ UNCHANGED <<att, took, todo, waiter, fin, pend, sessVars, pool, active, now, cleanVars, closeVars>>
DialOk(c) ==
  /\ pc[c] = "dial"
  /\ nextSeq < MaxSessions
  /\ IF ClosedFlag
     THEN ReturnErr(c) /\ UNCHANGED nextSeq
     ELSE /\ Goto(c, "insert")
          /\ cand' = [cand EXCEPT ![c] = nextSeq]
          /\ nextSeq' = nextSeq + 1
          /\ UNCHANGED att
  /\ UNCHANGED <<took, todo, waiter, fin, pend, sessVars, pool, active, now, cleanVars, closeVars>>

(* create_session: insert into active_sessions and spawn the run task. *)
InsertUnlisted(c) ==
  /\ pc[c] = "insert"
  /\ Goto(c, "open")
  /\ run' = [run EXCEPT ![cand[c]] = "running"]
  /\ UNCHANGED <<att, cand, took, todo, waiter, fin, pend, closed, writerUp, streams, idle,
                 poolVars, now, cleanVars, closeVars>>
Insert(c) ==
  /\ pc[c] = "insert"
  /\ Goto(c, "open")
  /\ active' = Append(active, cand[c])
  /\ run' = [run EXCEPT ![cand[c]] = "running"]
  /\ UNCHANGED <<att, cand, took, todo, waiter, fin, pend, closed, writerUp, streams, idle,
                 pool, nextSeq, now, cleanVars, closeVars>>

(* Session::open_stream up to the release of the streams lock. *)
Open(c) ==
  /\ pc[c] = "open"
  /\ LET s == cand[c] IN
     \/ /\ IsTerminated(s)
        /\ Goto(c, "fail")
        /\ UNCHANGED <<streams, idle>>
     \/ /\ ~IsTerminated(s)
        /\ ~HasCapacity(s)
        /\ Goto(c, "attempt")
        /\ UNCHANGED <<streams, idle>>
     \/ /\ ~IsTerminated(s)
        /\ HasCapacity(s)
        /\ Goto(c, "syn")
        /\ streams' = [streams EXCEPT ![s] = @ \cup {c}]
        /\ idle' = [idle EXCEPT ![s] = FALSE]
  /\ UNCHANGED <<att, cand, took, todo, waiter, fin, pend, closed, writerUp, run, poolVars, now,
                 cleanVars, closeVars>>

(* open_stream: send SYN, or undo the insertion when the writer is gone. *)
Syn(c) ==
  /\ pc[c] = "syn"
  /\ LET s == cand[c] IN
     IF writerUp[s]
     THEN /\ Goto(c, "ok")
          /\ att' = [att EXCEPT ![c] = 0]
          /\ waiter' = [waiter EXCEPT ![c] = "start"]
          /\ UNCHANGED streams
     ELSE /\ streams' = [streams EXCEPT ![s] = Remaining(s, c)]
          /\ Goto(c, IF Remaining(s, c) = {} THEN "publish" ELSE "fail")
          /\ UNCHANGED <<att, waiter>>
  /\ UNCHANGED <<cand, took, todo, fin, pend, closed, writerUp, idle, run, poolVars, now,
                 cleanVars, closeVars>>

(* remove_stream of a failed open: idle_state is written after the lock. *)
SynPublish(c) ==
  /\ pc[c] = "publish"
  /\ Goto(c, "fail")
  /\ idle' = [idle EXCEPT ![cand[c]] = TRUE]
  /\ UNCHANGED <<att, cand, took, todo, waiter, fin, pend, closed, writerUp, streams, run, poolVars,
                 now, cleanVars, closeVars>>

(* create_stream: a session that failed is terminated before the retry. *)
Fail(c) ==
  /\ pc[c] = "fail"
  /\ Goto(c, "attempt")
  /\ Terminate(cand[c])
  /\ UNCHANGED <<att, cand, took, todo, waiter, fin, pend, writerUp, run, poolVars, now, cleanVars,
                 closeVars>>

-----------------------------------------------------------------------------
(* The end of a logical stream.                                            *)

RemoveStream(c, by) ==
  /\ streams' = [streams EXCEPT ![cand[c]] = Remaining(cand[c], c)]
  /\ pend' = IF Remaining(cand[c], c) = {} THEN pend \cup {<<by, c>>} ELSE pend

(* Stream::close by the owner of the stream; a no-op on a closed stream. *)
LocalClose(c) ==
  /\ pc[c] = "ok"
  /\ c \in streams[cand[c]]
  /\ RemoveStream(c, "local")
  /\ UNCHANGED <<callVars, waiter, fin, closed, writerUp, idle, run, poolVars, now, cleanVars, closeVars>>

(* The run task gets FIN: close_logical_stream.  Removing an absent stream *)
(* still reports idle when no stream is left.                              *)
PeerFin(c) ==
  /\ pc[c] = "ok" /\ c \notin fin
  /\ Cardinality(fin) < MaxFins
  /\ run[cand[c]] = "running"
  /\ \A d \in Calls : cand[d] = cand[c] => <<"peer", d>> \notin pend
  /\ fin' = fin \cup {c}
  /\ RemoveStream(c, "peer")
  /\ UNCHANGED <<callVars, waiter, closed, writerUp, idle, run, poolVars, now, cleanVars, closeVars>>

(* remove_stream / remove_from_session: idle_state.send_replace(true). *)
Publish(by, c) ==
  /\ <<by, c>> \in pend
  /\ pend' = pend \ {<<by, c>>}
  /\ idle' = [idle EXCEPT ![cand[c]] = TRUE]
  /\ UNCHANGED <<callVars, waiter, fin, closed, writerUp, streams, run, poolVars, now, cleanVars, closeVars>>

-----------------------------------------------------------------------------
(* The idle-return task: spawn_idle_return_task.                           *)

(* Its first is_terminated. *)
WaiterStart(c) ==
  /\ waiter[c] = "start"
  /\ waiter' = [waiter EXCEPT ![c] = IF IsTerminated(cand[c]) THEN "done" ELSE "look"]
  /\ UNCHANGED <<callVars, fin, pend, sessVars, poolVars, now, cleanVars, closeVars>>

(* Its first is_stream_open. *)
WaiterLook(c) ==
  /\ waiter[c] = "look"
  /\ waiter' = [waiter EXCEPT ![c] = IF streams[cand[c]] = {} THEN "return" ELSE "wait"]
  /\ UNCHANGED <<callVars, fin, pend, sessVars, poolVars, now, cleanVars, closeVars>>

(* wait_for_idle returns. *)
WaiterWake(c) ==
  /\ waiter[c] = "wait"
  /\ idle[cand[c]] \/ IsTerminated(cand[c])
  /\ waiter' = [waiter EXCEPT ![c] = "woken"]
  /\ UNCHANGED <<callVars, fin, pend, sessVars, poolVars, now, cleanVars, closeVars>>

(* is_terminated again. *)
WaiterRecheck(c) ==
  /\ waiter[c] = "woken"
  /\ waiter' = [waiter EXCEPT ![c] = IF IsTerminated(cand[c]) THEN "done" ELSE "relook"]
  /\ UNCHANGED <<callVars, fin, pend, sessVars, poolVars, now, cleanVars, closeVars>>

(* is_stream_open again; it gives up when a stream was opened. *)
WaiterRelook(c) ==
  /\ waiter[c] = "relook"
  /\ waiter' = [waiter EXCEPT ![c] = IF streams[cand[c]] = {} THEN "return" ELSE "done"]
  /\ UNCHANGED <<callVars, fin, pend, sessVars, poolVars, now, cleanVars, closeVars>>

(* return_session, under the pool's lock. *)
WaiterReturn(c) ==
  /\ waiter[c] = "return"
  /\ cleanup # "removing"
  /\ waiter' = [waiter EXCEPT ![c] = "done"]
  /\ pool' = IF cand[c] \in SeqsOf(pool)
             THEN pool
             ELSE Append(pool, [seq |-> cand[c], since |-> now])
  /\ UNCHANGED <<callVars, fin, pend, sessVars, active, nextSeq, now, cleanVars, closeVars>>

-----------------------------------------------------------------------------
(* The session's run task and its writer.                                  *)

(* recv_loop returns (EOF, read error, protocol error or close_notify); run *)
(* terminates the session.                                                  *)
RunEnd(s) ==
  /\ run[s] = "running"
  /\ \A d \in Calls : cand[d] = s => <<"peer", d>> \notin pend
  /\ run' = [run EXCEPT ![s] = "ended"]
  /\ Terminate(s)
  /\ UNCHANGED <<callVars, waiter, fin, pend, writerUp, poolVars, now, cleanVars, closeVars>>

(* The spawned task then removes the session from active_sessions. *)
RunRemove(s) ==
  /\ run[s] = "ended"
  /\ run' = [run EXCEPT ![s] = "done"]
  /\ active' = IF \E i \in DOMAIN active : active[i] = s
               THEN SwapRemove(active, CHOOSE i \in DOMAIN active : active[i] = s)
               ELSE active
  /\ UNCHANGED <<callVars, waiter, fin, pend, closed, writerUp, streams, idle, pool, nextSeq, now,
                 cleanVars, closeVars>>

(* The writer task stops on a write error, which closes frame_tx. *)
WriterFail(s) ==
  /\ s < nextSeq
  /\ writerUp[s]
  /\ Cardinality({r \in Seqs : ~writerUp[r]}) < MaxWriterFails
  /\ writerUp' = [writerUp EXCEPT ![s] = FALSE]
  /\ UNCHANGED <<callVars, waiter, fin, pend, closed, streams, idle, run, poolVars, now, cleanVars, closeVars>>

-----------------------------------------------------------------------------
(* The cleanup task: cleanup_stale.                                        *)

TimedOut == {i \in DOMAIN pool : Expired(pool[i].since)}

(* The first n members of a set of indices. *)
FirstN(S, n) == {i \in S : Cardinality({j \in S : j <= i}) <= n}

(* max_removable. *)
MaxRemovableAll == Len(pool)
MaxRemovable == Len(pool) - MinIdle

(* Takes the lock and selects.  Its two early returns change nothing. *)
CleanupScan ==
  /\ cleanup = "idle"
  /\ Len(pool) > MinIdle
  /\ TimedOut # {}
  /\ cleanup' = "removing"
  /\ toRemove' = FirstN(TimedOut, MaxRemovable)
  /\ UNCHANGED <<callVars, waiter, fin, pend, sessVars, poolVars, now, kill, closeVars>>

(* to_remove.iter().rev(): the largest index that is left comes next. *)
NextIndex(i) == \A j \in toRemove : j <= i

(* One swap_remove_index, from the highest index down; then the lock is dropped. *)
CleanupRemove ==
  /\ cleanup = "removing"
  /\ \E i \in toRemove :
       /\ NextIndex(i)
       /\ pool' = SwapRemove(pool, i)
       /\ kill' = Append(kill, pool[i].seq)
       /\ toRemove' = toRemove \ {i}
       /\ cleanup' = IF toRemove = {i} THEN "killing" ELSE "removing"
  /\ UNCHANGED <<callVars, waiter, fin, pend, sessVars, active, nextSeq, now, closeVars>>

(* Terminates what it removed, one session at a time. *)
CleanupKill ==
  /\ cleanup = "killing"
  /\ kill # <<>>
  /\ Terminate(Head(kill))
  /\ kill' = Tail(kill)
  /\ cleanup' = IF Tail(kill) = <<>> THEN "idle" ELSE "killing"
  /\ UNCHANGED <<callVars, waiter, fin, pend, writerUp, run, poolVars, now, toRemove, closeVars>>

(* The select of the cleanup loop sees the cancelled token. *)
CleanupGoesOn == cleanup = "idle" /\ ClosedFlag /\ UNCHANGED vars
CleanupStop ==
  /\ cleanup = "idle"
  /\ ClosedFlag
  /\ cleanup' = "stopped"
  /\ UNCHANGED <<callVars, waiter, fin, pend, sessVars, poolVars, now, toRemove, kill, closeVars>>

-----------------------------------------------------------------------------
(* Client::close.                                                          *)

(* closed_flag.swap(true) and cleanup_cancel.cancel(). *)
CloseStart ==
  /\ MayClose
  /\ closer = "open"
  /\ closer' = "join"
  /\ UNCHANGED <<callVars, waiter, fin, pend, sessVars, poolVars, now, cleanVars, closing, racers>>

(* The cleanup task was joined; empty active_sessions under its lock. *)
CloseTakeActive ==
  /\ closer = "join"
  /\ cleanup = "stopped"
  /\ closer' = "drain"
  /\ closing' = active
  /\ active' = <<>>
  /\ racers' = {cand[c] : c \in {d \in Calls : pc[d] = "insert"}}
  /\ UNCHANGED <<callVars, waiter, fin, pend, sessVars, pool, nextSeq, now, cleanVars>>

(* IdleSessionPool::drain. *)
CloseDrain ==
  /\ closer = "drain"
  /\ closer' = "killing"
  /\ closing' = closing \o [i \in DOMAIN pool |-> pool[i].seq]
  /\ pool' = <<>>
  /\ UNCHANGED <<callVars, waiter, fin, pend, sessVars, active, nextSeq, now, cleanVars, racers>>

(* Terminates what it collected, one session at a time. *)
CloseKill ==
  /\ closer = "killing"
  /\ IF closing = <<>>
     THEN closer' = "done" /\ UNCHANGED <<closing, closed, streams, idle>>
     ELSE /\ Terminate(Head(closing))
          /\ closing' = Tail(closing)
          /\ UNCHANGED closer
  /\ UNCHANGED <<callVars, waiter, fin, pend, writerUp, run, poolVars, now, cleanVars, racers>>

Tick ==
  /\ now < MaxTime
  /\ now' = now + 1
  /\ UNCHANGED <<callVars, waiter, fin, pend, sessVars, poolVars, cleanVars, closeVars>>

(* All calls returned, and close too if it was called: nothing has to happen. *)
Stopped ==
  /\ closer \in {"open", "done"}
  /\ \A c \in Calls : pc[c] \in {"ok", "err"}
  /\ UNCHANGED vars

-----------------------------------------------------------------------------
CallStep(c) ==
  \/ Attempt(c) \/ TakePop(c) \/ TakeCheck(c) \/ Snapshot(c)
  \/ Scan(c) \/ ScanCapacity(c)
  \/ DialFail(c) \/ DialOk(c) \/ Insert(c) \/ Open(c) \/ Syn(c) \/ SynPublish(c) \/ Fail(c)

WaiterStep(c) ==
  \/ WaiterStart(c) \/ WaiterLook(c) \/ WaiterWake(c)
  \/ WaiterRecheck(c) \/ WaiterRelook(c) \/ WaiterReturn(c)

CleanupStep == CleanupScan \/ CleanupRemove \/ CleanupKill \/ CleanupStop

CloseStep == CloseTakeActive \/ CloseDrain \/ CloseKill

Next ==
  \/ \E c \in Calls : CallStep(c) \/ WaiterStep(c) \/ LocalClose(c) \/ PeerFin(c)
  \/ \E c \in Calls, by \in {"local", "peer"} : Publish(by, c)
  \/ \E s \in Seqs : RunEnd(s) \/ RunRemove(s) \/ WriterFail(s)
  \/ CleanupStep \/ CloseStart \/ CloseStep \/ Tick \/ Stopped

Spec == Init /\ [][Next]_vars

(* What a call does not control: dial_out and ensure_started end when the  *)
(* server lets them, and SYN waits for room in the bounded queue of a      *)
(* writer that is at work.  Neither has a timeout.                         *)
AwaitsServer(c) == pc[c] = "dial" \/ (pc[c] = "syn" /\ writerUp[cand[c]])

(* tokio polls every runnable task, so each started task makes progress.   *)
(* Nothing obliges a user to close a stream or the client, a server to     *)
(* answer a dial or to read what is sent, or a connection to fail.         *)
Fairness ==
  /\ \A c \in Calls : WF_vars(~AwaitsServer(c) /\ CallStep(c)) /\ WF_vars(WaiterStep(c))
  /\ \A c \in Calls, by \in {"local", "peer"} : WF_vars(Publish(by, c))
  /\ \A s \in Seqs : WF_vars(RunRemove(s))
  /\ WF_vars(CleanupStep) /\ WF_vars(CloseStep) /\ WF_vars(Tick)

FairSpec == Spec /\ Fairness

-----------------------------------------------------------------------------
(* Properties.                                                             *)

CallLabels == {"attempt", "take", "check", "snapshot", "scan", "capacity", "dial", "insert", "open",
               "syn", "publish", "fail", "ok", "err"}
WaiterLabels == {"none", "start", "look", "wait", "woken", "relook", "return", "done"}

(* Every variable keeps its type. *)
TypeOK ==
  /\ pc \in [Calls -> CallLabels]
  /\ att \in [Calls -> 0 .. Attempts]
  /\ cand \in [Calls -> Seqs]
  /\ took \in [Calls -> [since : Times, protected : BOOLEAN]]
  /\ todo \in [Calls -> Seq(Seqs)]
  /\ waiter \in [Calls -> WaiterLabels]
  /\ fin \in SUBSET Calls
  /\ pend \in SUBSET ({"local", "peer"} \X Calls)
  /\ closed \in [Seqs -> BOOLEAN]
  /\ writerUp \in [Seqs -> BOOLEAN]
  /\ streams \in [Seqs -> SUBSET Calls]
  /\ idle \in [Seqs -> BOOLEAN]
  /\ run \in [Seqs -> {"none", "running", "ended", "done"}]
  /\ pool \in Seq(Entry)
  /\ active \in Seq(Seqs)
  /\ nextSeq \in 0 .. MaxSessions
  /\ now \in Times
  /\ cleanup \in {"idle", "removing", "killing", "stopped"}
  /\ toRemove \in SUBSET Nat
  /\ kill \in Seq(Seqs)
  /\ closer \in {"open", "join", "drain", "killing", "done"}
  /\ closing \in Seq(Seqs)
  /\ racers \in SUBSET Seqs

Live(s) == run[s] = "running" /\ ~closed[s]

(* However many calls pick the same session at once, from the pool or from *)
(* active_sessions, open_stream never lets it hold more than              *)
(* max_streams_per_session streams.                                        *)
StreamsBounded == \A s \in Seqs : Cardinality(streams[s]) <= MaxStreams

(* A session's stream map holds only streams that a call is opening or has *)
(* handed to its user: a create_stream that failed or moved on to another  *)
(* session leaves nothing behind that would keep a session from going idle. *)
NoOrphanStream ==
  \A s \in Seqs : \A c \in streams[s] : cand[c] = s /\ pc[c] \in {"syn", "ok"}

(* A session whose run task is at work and which nobody terminated can be  *)
(* found by close: it is in active_sessions or in close's own list.        *)
LiveAccounted ==
  \A s \in Seqs : Live(s) =>
    \/ \E i \in DOMAIN active : active[i] = s
    \/ \E i \in DOMAIN closing : closing[i] = s

(* After close returned, the only sessions left alive are those whose call *)
(* had passed its closed check and not yet reached active_sessions when    *)
(* close emptied it.                                                       *)
CloseLeavesOnlyRacers == closer = "done" => \A s \in Seqs : Live(s) => s \in racers

(* While cleanup_stale removes by index, the indices it has left still name *)
(* timed-out entries, although each swap_remove_index moves an entry.      *)
CleanupIndicesValid ==
  \A i \in toRemove : i \in DOMAIN pool /\ Expired(pool[i].since)

(* cleanup_stale never leaves fewer than min_idle_sessions in the pool. *)
CleanupKeepsMinIdle ==
  [][cleanup = "removing" /\ pool' # pool => Len(pool') >= MinIdle]_vars

(* Every create_stream returns, also when sessions die under it, when other *)
(* calls take its candidates and when the client is closed meanwhile,      *)
(* unless the server keeps one dial, or one SYN, of it waiting for ever.   *)
CallsReturn == \A c \in Calls : pc[c] = "take" ~> (pc[c] \in {"ok", "err"} \/ []AwaitsServer(c))

(* close returns: the cleanup task it waits for stops, whatever it was at. *)
CloseReturns == closer = "join" ~> closer = "done"
=============================================================================
