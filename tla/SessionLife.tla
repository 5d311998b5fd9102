----------------------------- MODULE SessionLife -----------------------------
(***************************************************************************)
(* One client session in detail: Session (src/src/proxy/session/inner.rs)  *)
(* and the end of its streams (stream.rs).  ClientPool takes terminate and *)
(* the end of a stream as single steps; here every lock section and every  *)
(* atomic access is a step of its own, so open_stream, Stream::close, the  *)
(* receive loop and terminate interleave as tokio tasks do.                *)
(*                                                                         *)
(* A handle stands for one Arc<Stream> and the task that opens it, uses it *)
(* and may close it.  terminate is called by the receive loop when it ends *)
(* and, at most once, from outside ("ext": Client::close, the cleanup task *)
(* or take_reusable).                                                      *)
(*                                                                         *)
(* A definition that directly precedes another one and differs from it in  *)
(* one respect is a mistake the code could have made; no specification     *)
(* uses it.                                                                *)
(***************************************************************************)
EXTENDS Integers, FiniteSets

CONSTANTS
  Handles,     \* streams ever opened; also a bound on calls of open_stream
  None,        \* no stream
  SidSpace,    \* number of stream identifiers, 2^32 in the code
  MaxStreams,  \* max_streams
  MayTerminate \* whether terminate is ever called from outside

ASSUME SessionAssumption ==
  /\ IsFiniteSet(Handles)
  /\ None \notin Handles
  /\ SidSpace \in Nat \ {0, 1}
  /\ MaxStreams \in Nat \ {0}
  /\ MayTerminate \in BOOLEAN

VARIABLES
  closed,    \* Session.closed
  writerUp,  \* the writer task still holds frame_rx
  nextId,    \* next_stream_id
  map,       \* streams: the handle under each identifier
  idle,      \* idle_state
  sid,       \* Stream.id of each handle, 0 before it has one
  ended,     \* handles whose Stream.closed is set
  pc,        \* where the task of each handle is
  rpc, rcur, \* where the receive loop is, and the stream it removed
  armed,     \* the receive loop holds a Notified future
  woken,     \* and notify_waiters reached it
  tpc, tlist \* where each caller of terminate is, and the streams it took

Sids == 0 .. SidSpace - 1
Callers == {"run", "ext"}

sessVars == <<closed, writerUp>>
runVars == <<rpc, rcur, armed, woken>>
termVars == <<tpc, tlist>>
vars == <<sessVars, nextId, map, idle, sid, ended, pc, runVars, termVars>>

Init ==
  /\ closed = FALSE
  /\ writerUp = TRUE
  /\ nextId = 0
  /\ map = [s \in Sids |-> None]
  /\ idle = TRUE
  /\ sid = [h \in Handles |-> 0]
  /\ ended = {}
  /\ pc = [h \in Handles |-> "new"]
  /\ rpc = "check"
  /\ rcur = None
  /\ armed = FALSE
  /\ woken = FALSE
  /\ tpc = [t \in Callers |-> "none"]
  /\ tlist = [t \in Callers |-> {}]

Mapped(m) == {m[s] : s \in Sids} \ {None}
Open == {s \in Sids : map[s] # None}
IsTerminated == closed \/ ~writerUp

Goto(h, l) == pc' = [pc EXCEPT ![h] = l]

-----------------------------------------------------------------------------
(* Session::open_stream.                                                   *)

OpenCheck(h) ==
  /\ pc[h] = "new"
  /\ Goto(h, IF IsTerminated THEN "done" ELSE "lock")
  /\ UNCHANGED <<sessVars, nextId, map, idle, sid, ended, runVars, termVars>>

(* fetch_add(1).wrapping_add(1) *)
NextSid == (nextId + 1) % SidSpace

RefusedUnchecked == Cardinality(Open) >= MaxStreams
Refused == closed \/ Cardinality(Open) >= MaxStreams

(* The lock section: a new identifier, and the stream under it. *)
OpenInsert(h) ==
  /\ pc[h] = "lock"
  /\ \/ /\ Refused
        /\ Goto(h, "done")
        /\ UNCHANGED <<nextId, map, idle, sid>>
     \/ /\ ~Refused
        /\ nextId' = NextSid
        /\ IF NextSid = 0
           THEN Goto(h, "done") /\ UNCHANGED <<map, idle, sid>>
           ELSE /\ sid' = [sid EXCEPT ![h] = NextSid]
                /\ map' = [map EXCEPT ![NextSid] = h]
                /\ idle' = FALSE
                /\ Goto(h, "syn")
  /\ UNCHANGED <<sessVars, ended, runVars, termVars>>

(* write_frame(SYN), which fails once the writer is gone. *)
Syn(h) ==
  /\ pc[h] = "syn"
  /\ Goto(h, IF writerUp THEN "open" ELSE "undo")
  /\ UNCHANGED <<sessVars, nextId, map, idle, sid, ended, runVars, termVars>>

(* remove_stream and remove_from_session: the lock section of both. *)
Removed(s) == [map EXCEPT ![s] = None]
EmptyWithout(s) == Mapped(Removed(s)) = {}

(* remove_stream after a failed SYN, then the publication if none is left. *)
Undo(h) ==
  /\ pc[h] = "undo"
  /\ map' = Removed(sid[h])
  /\ Goto(h, IF EmptyWithout(sid[h]) THEN "undoPublish" ELSE "undoEnd")
  /\ UNCHANGED <<sessVars, nextId, idle, sid, ended, runVars, termVars>>

UndoPublish(h) ==
  /\ pc[h] = "undoPublish"
  /\ idle' = TRUE
  /\ Goto(h, "undoEnd")
  /\ UNCHANGED <<sessVars, nextId, map, sid, ended, runVars, termVars>>

(* close_from_session. *)
UndoEnd(h) ==
  /\ pc[h] = "undoEnd"
  /\ ended' = ended \cup {h}
  /\ Goto(h, "done")
  /\ UNCHANGED <<sessVars, nextId, map, idle, sid, runVars, termVars>>

-----------------------------------------------------------------------------
(* Stream::close by the user of the stream.                                *)

(* mark_closed; nothing more is done for a stream that was already closed. *)
CloseMark(h) ==
  /\ pc[h] = "open"
  /\ ended' = ended \cup {h}
  /\ Goto(h, IF h \in ended THEN "done" ELSE "unmap")
  /\ UNCHANGED <<sessVars, nextId, map, idle, sid, runVars, termVars>>

EmptyUnmapNever(h) == FALSE
EmptyUnmap(h) == EmptyWithout(sid[h])

(* remove_from_session. *)
CloseUnmap(h) ==
  /\ pc[h] = "unmap"
  /\ map' = Removed(sid[h])
  /\ Goto(h, IF EmptyUnmap(h) THEN "publish" ELSE "fin")
  /\ UNCHANGED <<sessVars, nextId, idle, sid, ended, runVars, termVars>>

ClosePublish(h) ==
  /\ pc[h] = "publish"
  /\ idle' = TRUE
  /\ Goto(h, "fin")
  /\ UNCHANGED <<sessVars, nextId, map, sid, ended, runVars, termVars>>

(* The pipe is closed and FIN sent, or not if the writer is gone. *)
CloseFin(h) ==
  /\ pc[h] = "fin"
  /\ Goto(h, "done")
  /\ UNCHANGED <<sessVars, nextId, map, idle, sid, ended, runVars, termVars>>

-----------------------------------------------------------------------------
(* Session::run: recv_loop, then terminate.                                *)

RunGoto(l) == rpc' = l /\ UNCHANGED <<rcur, armed, woken>>

(* The test of closed at the head of the loop. *)
RunCheck ==
  /\ rpc = "check"
  /\ RunGoto(IF closed THEN "ended" ELSE "arm")
  /\ UNCHANGED <<sessVars, nextId, map, idle, sid, ended, pc, termVars>>

(* select! creates the Notified future, which from now on hears notify_waiters. *)
RunArm ==
  /\ rpc = "arm"
  /\ rpc' = "select"
  /\ armed' = TRUE
  /\ UNCHANGED <<sessVars, nextId, map, idle, sid, ended, pc, rcur, woken, termVars>>

RunWake ==
  /\ rpc = "select"
  /\ woken
  /\ RunGoto("ended")
  /\ UNCHANGED <<sessVars, nextId, map, idle, sid, ended, pc, termVars>>

(* The read returns: data, or end of file or an error. *)
RunRead ==
  /\ rpc = "select"
  /\ \E l \in {"frames", "ended"} : rpc' = l
  /\ armed' = FALSE
  /\ woken' = FALSE
  /\ UNCHANGED <<sessVars, nextId, map, idle, sid, ended, pc, rcur, termVars>>

(* FIN, or SYNACK with an error, of a stream the peer has been told of:    *)
(* remove_stream.  The other frames leave the streams alone.               *)
RunFin(s) ==
  /\ rpc = "frames"
  /\ s # 0 /\ \E h \in Handles : sid[h] = s /\ pc[h] \notin {"syn", "undo", "undoPublish", "undoEnd"}
  /\ rcur' = map[s]
  /\ map' = Removed(s)
  /\ rpc' = IF EmptyWithout(s) THEN "publish" ELSE "end"
  /\ UNCHANGED <<sessVars, nextId, idle, sid, ended, pc, armed, woken, termVars>>

RunPublish ==
  /\ rpc = "publish"
  /\ idle' = TRUE
  /\ RunGoto("end")
  /\ UNCHANGED <<sessVars, nextId, map, sid, ended, pc, termVars>>

(* The stream that remove_stream returned, if there was one. *)
PeerEnded == {rcur} \ {None}

(* close_from_peer. *)
RunEnd ==
  /\ rpc = "end"
  /\ ended' = ended \cup PeerEnded
  /\ rcur' = None
  /\ rpc' = "frames"
  /\ UNCHANGED <<sessVars, nextId, map, idle, sid, pc, armed, woken, termVars>>

(* No complete frame is left. *)
RunDrained ==
  /\ rpc = "frames"
  /\ RunGoto("check")
  /\ UNCHANGED <<sessVars, nextId, map, idle, sid, ended, pc, termVars>>

(* ALERT, or handle_frame fails. *)
RunFail ==
  /\ rpc = "frames"
  /\ RunGoto("ended")
  /\ UNCHANGED <<sessVars, nextId, map, idle, sid, ended, pc, termVars>>

-----------------------------------------------------------------------------
(* Session::terminate.                                                     *)

MayCall(t) == IF t = "run" THEN rpc = "ended" ELSE MayTerminate

(* closed.swap(true): only the first caller goes on. *)
TermSwap(t) ==
  /\ tpc[t] = "none"
  /\ MayCall(t)
  /\ closed' = TRUE
  /\ tpc' = [tpc EXCEPT ![t] = IF closed THEN "done" ELSE "notify"]
  /\ UNCHANGED <<writerUp, nextId, map, idle, sid, ended, pc, runVars, tlist>>

(* notify_waiters reaches the futures that exist, and leaves no permit. *)
TermNotify(t) ==
  /\ tpc[t] = "notify"
  /\ woken' = armed
  /\ tpc' = [tpc EXCEPT ![t] = "clear"]
  /\ UNCHANGED <<sessVars, nextId, map, idle, sid, ended, pc, rpc, rcur, armed, tlist>>

TakenAfterClear == {}
Taken == Mapped(map)

(* The lock section: takes the streams, clears the map, publishes idle. *)
TermClear(t) ==
  /\ tpc[t] = "clear"
  /\ tlist' = [tlist EXCEPT ![t] = Taken]
  /\ map' = [s \in Sids |-> None]
  /\ idle' = TRUE
  /\ tpc' = [tpc EXCEPT ![t] = "end"]
  /\ UNCHANGED <<sessVars, nextId, sid, ended, pc, runVars>>

(* close_from_session of one stream, in the map's arbitrary order. *)
TermEnd(t) ==
  /\ tpc[t] = "end"
  /\ \E h \in tlist[t] :
       /\ ended' = ended \cup {h}
       /\ tlist' = [tlist EXCEPT ![t] = @ \ {h}]
  /\ UNCHANGED <<sessVars, nextId, map, idle, sid, pc, runVars, tpc>>

TermReturn(t) ==
  /\ tpc[t] = "end"
  /\ tlist[t] = {}
  /\ tpc' = [tpc EXCEPT ![t] = "done"]
  /\ UNCHANGED <<sessVars, nextId, map, idle, sid, ended, pc, runVars, tlist>>

-----------------------------------------------------------------------------
(* A write to the connection fails and the writer task ends. *)
WriterFail ==
  /\ writerUp
  /\ writerUp' = FALSE
  /\ UNCHANGED <<closed, nextId, map, idle, sid, ended, pc, runVars, termVars>>

(* Every task is over. *)
Stopped ==
  /\ \A h \in Handles : pc[h] = "done"
  /\ tpc["run"] = "done"
  /\ UNCHANGED vars

OpenStep(h) ==
  \/ OpenCheck(h) \/ OpenInsert(h) \/ Syn(h)
  \/ Undo(h) \/ UndoPublish(h) \/ UndoEnd(h)
CloseStep(h) == CloseUnmap(h) \/ ClosePublish(h) \/ CloseFin(h)
RunStep == RunCheck \/ RunArm \/ RunWake \/ RunPublish \/ RunEnd
TermStep(t) == TermNotify(t) \/ TermClear(t) \/ TermEnd(t) \/ TermReturn(t)

Next ==
  \/ \E h \in Handles : OpenStep(h) \/ CloseMark(h) \/ CloseStep(h)
  \/ RunStep \/ RunRead \/ RunDrained \/ RunFail
  \/ \E s \in Sids : RunFin(s)
  \/ \E t \in Callers : TermSwap(t) \/ TermStep(t)
  \/ WriterFail \/ Stopped

Spec == Init /\ [][Next]_vars

(* SYN and FIN wait for room in the bounded queue of a writer at work.     *)
AwaitsWriter(h) == pc[h] \in {"syn", "fin"} /\ writerUp

(* tokio polls every runnable task, and a read buffer holds finitely many  *)
(* frames.  Nothing obliges the peer to send or to read what is sent, a    *)
(* user to close a stream or anyone to call terminate from outside.        *)
FairSpec ==
  /\ Spec
  /\ \A h \in Handles : WF_vars(~AwaitsWriter(h) /\ (OpenStep(h) \/ CloseStep(h)))
  /\ WF_vars(RunStep) /\ SF_vars(RunDrained)
  /\ WF_vars(TermSwap("run")) /\ \A t \in Callers : WF_vars(TermStep(t))

-----------------------------------------------------------------------------
(* Properties.                                                             *)

Labels == {"new", "lock", "syn", "open", "undo", "undoPublish", "undoEnd", "unmap", "publish", "fin", "done"}
RunLabels == {"check", "arm", "select", "frames", "publish", "end", "ended"}

(* Every variable of Session, its receive loop and its streams has its     *)
(* type; in particular next_stream_id stays within its width.              *)
TypeOK ==
  /\ closed \in BOOLEAN /\ writerUp \in BOOLEAN /\ idle \in BOOLEAN
  /\ nextId \in Sids
  /\ map \in [Sids -> Handles \cup {None}]
  /\ sid \in [Handles -> Sids]
  /\ ended \subseteq Handles
  /\ pc \in [Handles -> Labels]
  /\ rpc \in RunLabels
  /\ rcur \in Handles \cup {None}
  /\ armed \in BOOLEAN /\ woken \in BOOLEAN
  /\ tpc \in [Callers -> {"none", "notify", "clear", "end", "done"}]
  /\ tlist \in [Callers -> SUBSET Handles]

(* A session without streams is known to be idle, unless the task that     *)
(* removed the last one has yet to publish it (remove_stream and           *)
(* remove_from_session publish outside the lock): wait_for_idle never      *)
(* waits for a publication that does not come.                             *)
NoLostIdle ==
  /\ Open = {}
  /\ rpc # "publish"
  /\ \A h \in Handles : pc[h] \notin {"publish", "undoPublish"}
  => idle

(* Someone can still end every live stream: it is in the map under its own *)
(* identifier, or the receive loop or a terminate has just taken it out.   *)
StreamsTracked ==
  \A h \in Handles :
    pc[h] \in {"syn", "open", "undo"} /\ h \notin ended =>
      map[sid[h]] = h \/ rcur = h \/ \E t \in Callers : h \in tlist[t]

(* Once the terminate that closed the session has returned, the session    *)
(* has no stream and gets none: no open_stream slips in behind the clear.  *)
TerminateIsFinal ==
  closed /\ (\A t \in Callers : tpc[t] \in {"none", "done"}) =>
    /\ Open = {}
    /\ \A h \in Handles : pc[h] = "open" => h \in ended \/ rcur = h

(* terminate ends every stream, so that no reader waits for ever.          *)
StreamsEnd ==
  \A h \in Handles : (closed /\ pc[h] = "open") ~> (h \in ended)

(* Terminating a session stops its run task.                               *)
RunStops == closed ~> (rpc = "ended")
=============================================================================
