-------------------------- MODULE SessionLifeProofs --------------------------
(***************************************************************************)
(* What the runs of SessionLife check holds for any number of streams and  *)
(* any max_streams.  The idle state needs no more than the types.  That a  *)
(* live stream can always be found again rests on identifiers that are not *)
(* given twice, so those theorems assume fewer streams than identifiers.   *)
(***************************************************************************)
EXTENDS SessionLife, FiniteSetTheorems, TLAPS

(* A closed session has no stream, or the terminate that closed it has yet *)
(* to clear the map.                                                       *)
ClearedOrToClear == closed => Open = {} \/ \E t \in Callers : tpc[t] \in {"notify", "clear"}

BaseInv == TypeOK /\ NoLostIdle /\ ClearedOrToClear

(* Taking an identifier out leaves no stream exactly when the caller is    *)
(* told to publish the idle state.                                         *)
LEMMA RemovedEmpty ==
  ASSUME TypeOK, NEW s \in Sids, map' = Removed(s)
  PROVE  /\ EmptyWithout(s) <=> Open' = {}
         /\ Open = {} => Open' = {}
         /\ map' \in [Sids -> Handles \cup {None}]
BY SMTT(30) DEF TypeOK, Removed, EmptyWithout, Mapped, Open

(* A new session is idle and has no stream. *)
LEMMA InitBase == Init => BaseInv
<1> SUFFICES ASSUME Init
             PROVE  BaseInv
  BY Zenon
<1>1. 0 \in Sids
  BY SessionAssumption DEF Sids
<1>2. TypeOK
  BY Zenon, <1>1 DEF Init, TypeOK, Labels, RunLabels
<1> QED BY Zenon, <1>2 DEF Init, BaseInv, NoLostIdle, ClearedOrToClear

(* A remainder is smaller than the divisor. *)
LEMMA Remainder ==
  ASSUME NEW a \in Nat, NEW b \in Nat \ {0}
  PROVE  a % b \in 0 .. b - 1
OBVIOUS

(* open_stream, the failed SYN included, keeps BaseInv. *)
LEMMA OpenBase ==
  ASSUME BaseInv, NEW h \in Handles, OpenStep(h)
  PROVE  BaseInv'
<1> USE SessionAssumption DEF BaseInv, sessVars, runVars, termVars, Goto
<1>s. sid[h] \in Sids
  BY Zenon DEF TypeOK
<1>1. CASE OpenCheck(h)
  BY <1>1 DEF OpenCheck, TypeOK, NoLostIdle, ClearedOrToClear, Open, Labels
<1>2. CASE OpenInsert(h)
  <2>1. NextSid \in Sids
    <3>1. nextId + 1 \in Nat /\ SidSpace \in Nat \ {0}
      BY DEF TypeOK, Sids
    <3>2. (nextId + 1) % SidSpace \in 0 .. SidSpace - 1
      BY <3>1, Remainder, Zenon
    <3> QED BY <3>2, Zenon DEF NextSid, Sids
  <2>2. CASE UNCHANGED <<map, idle, sid>> /\ nextId' \in {nextId, NextSid} /\ Goto(h, "done")
    <3>1. TypeOK'
      BY ZenonT(30), <1>2, <2>1, <2>2 DEF OpenInsert, TypeOK, Labels
    <3> QED BY <1>2, <2>2, <3>1 DEF OpenInsert, TypeOK, NoLostIdle, ClearedOrToClear, Open
  <2>3. CASE /\ ~Refused
             /\ nextId' = NextSid
             /\ sid' = [sid EXCEPT ![h] = NextSid]
             /\ map' = [map EXCEPT ![NextSid] = h]
             /\ idle' = FALSE
             /\ Goto(h, "syn")
    <3>1. TypeOK'
      BY Zenon, <1>2, <2>1, <2>3 DEF OpenInsert, TypeOK, Labels
    <3>2. NextSid \in Open'
      BY Zenon, <2>1, <2>3 DEF TypeOK, Open
    <3>3. ~closed'
      BY Zenon, <1>2, <2>3 DEF OpenInsert, Refused
    <3> QED BY Zenon, <3>1, <3>2, <3>3 DEF NoLostIdle, ClearedOrToClear
  <2> QED BY Zenon, <1>2, <2>2, <2>3 DEF OpenInsert
<1>3. CASE Syn(h)
  BY ZenonT(30), <1>3 DEF Syn, TypeOK, NoLostIdle, ClearedOrToClear, Open, Labels
<1>4. CASE Undo(h)
  BY ZenonT(30), <1>4, <1>s, RemovedEmpty DEF Undo, TypeOK, NoLostIdle, ClearedOrToClear, Labels
<1>5. CASE UndoPublish(h)
  BY Zenon, <1>5 DEF UndoPublish, TypeOK, NoLostIdle, ClearedOrToClear, Open, Labels
<1>6. CASE UndoEnd(h)
  BY <1>6 DEF UndoEnd, TypeOK, NoLostIdle, ClearedOrToClear, Open, Labels
<1> QED BY Zenon, <1>1, <1>2, <1>3, <1>4, <1>5, <1>6 DEF OpenStep

(* Stream::close keeps BaseInv. *)
LEMMA CloseBase ==
  ASSUME BaseInv, NEW h \in Handles, CloseMark(h) \/ CloseStep(h)
  PROVE  BaseInv'
<1> USE DEF BaseInv, sessVars, runVars, termVars, Goto
<1>s. sid[h] \in Sids
  BY Zenon DEF TypeOK
<1>1. CASE CloseMark(h)
  BY ZenonT(30), <1>1 DEF CloseMark, TypeOK, NoLostIdle, ClearedOrToClear, Open, Labels
<1>2. CASE CloseUnmap(h)
  BY ZenonT(30), <1>2, <1>s, RemovedEmpty DEF CloseUnmap, EmptyUnmap, TypeOK, NoLostIdle, ClearedOrToClear, Labels
<1>3. CASE ClosePublish(h)
  BY Zenon, <1>3 DEF ClosePublish, TypeOK, NoLostIdle, ClearedOrToClear, Open, Labels
<1>4. CASE CloseFin(h)
  BY ZenonT(30), <1>4 DEF CloseFin, TypeOK, NoLostIdle, ClearedOrToClear, Open, Labels
<1> QED BY Zenon, <1>1, <1>2, <1>3, <1>4 DEF CloseStep

RunAny == RunStep \/ RunRead \/ RunDrained \/ RunFail \/ \E s \in Sids : RunFin(s)

(* The receive loop keeps BaseInv. *)
LEMMA RunBase ==
  ASSUME BaseInv, RunAny
  PROVE  BaseInv'
<1> USE DEF BaseInv, sessVars, runVars, termVars, RunGoto
<1>1. CASE RunCheck \/ RunArm \/ RunWake \/ RunRead \/ RunDrained \/ RunFail
  <2>1. TypeOK' /\ UNCHANGED <<closed, map, idle, pc, tpc>> /\ rpc # "publish"
    BY ZenonT(30), <1>1 DEF RunCheck, RunArm, RunWake, RunRead, RunDrained, RunFail, TypeOK, RunLabels
  <2> QED BY Zenon, <2>1 DEF NoLostIdle, ClearedOrToClear, Open
<1>2. ASSUME NEW s \in Sids, RunFin(s)
      PROVE  BaseInv'
  <2>1. TypeOK'
    BY Zenon, <1>2, RemovedEmpty DEF RunFin, TypeOK, RunLabels
  <2> QED BY Zenon, <1>2, <2>1, RemovedEmpty DEF RunFin, NoLostIdle, ClearedOrToClear
<1>3. CASE RunPublish
  BY Zenon, <1>3 DEF RunPublish, TypeOK, NoLostIdle, ClearedOrToClear, Open, RunLabels
<1>4. CASE RunEnd
  BY ZenonT(30), <1>4 DEF RunEnd, PeerEnded, TypeOK, NoLostIdle, ClearedOrToClear, Open, RunLabels
<1> QED BY Zenon, <1>1, <1>2, <1>3, <1>4 DEF RunAny, RunStep

(* terminate keeps BaseInv. *)
LEMMA TermBase ==
  ASSUME BaseInv, NEW t \in Callers, TermSwap(t) \/ TermStep(t)
  PROVE  BaseInv'
<1> USE DEF BaseInv, sessVars, runVars, termVars
<1>1. CASE TermSwap(t)
  BY ZenonT(30), <1>1 DEF TermSwap, TypeOK, NoLostIdle, ClearedOrToClear, Open
<1>2. CASE TermNotify(t)
  BY Zenon, <1>2 DEF TermNotify, TypeOK, NoLostIdle, ClearedOrToClear, Open
<1>3. CASE TermClear(t)
  <2>1. Open' = {} /\ idle'
    BY Zenon, <1>3 DEF TermClear, Open
  <2>2. Taken \subseteq Handles
    BY DEF TypeOK, Taken, Mapped
  <2>3. TypeOK'
    BY Zenon, <1>3, <2>2 DEF TermClear, TypeOK
  <2> QED BY Zenon, <2>1, <2>3 DEF NoLostIdle, ClearedOrToClear
<1>4. CASE TermEnd(t)
  BY ZenonT(30), <1>4 DEF TermEnd, TypeOK, NoLostIdle, ClearedOrToClear, Open
<1>5. CASE TermReturn(t)
  BY ZenonT(30), <1>5 DEF TermReturn, TypeOK, NoLostIdle, ClearedOrToClear, Open
<1> QED BY Zenon, <1>1, <1>2, <1>3, <1>4, <1>5 DEF TermStep

(* Nothing moves but, perhaps, the writer. *)
LEMMA RestBase ==
  ASSUME BaseInv, WriterFail \/ UNCHANGED vars
  PROVE  BaseInv'
<1>1. TypeOK' /\ UNCHANGED <<closed, map, idle, pc, rpc, tpc>>
  BY Zenon DEF BaseInv, WriterFail, vars, sessVars, runVars, termVars, TypeOK
<1> QED BY Zenon, <1>1 DEF BaseInv, NoLostIdle, ClearedOrToClear, Open

(* The steps of Next, by the task that takes them. *)
LEMMA NextByTask ==
  ASSUME [Next]_vars
  PROVE  \/ \E h \in Handles : OpenStep(h) \/ CloseMark(h) \/ CloseStep(h)
         \/ RunAny
         \/ \E t \in Callers : TermSwap(t) \/ TermStep(t)
         \/ WriterFail \/ UNCHANGED vars
BY Zenon DEF Next, RunAny, Stopped

(* Every step keeps BaseInv. *)
LEMMA NextBase == BaseInv /\ [Next]_vars => BaseInv'
BY Zenon, NextByTask, OpenBase, CloseBase, RunBase, TermBase, RestBase

(* Every variable of the session keeps its type. *)
THEOREM SessionTypes == Spec => []TypeOK
<1>1. BaseInv => TypeOK
  BY Zenon DEF BaseInv
<1> QED BY <1>1, InitBase, NextBase, PTL DEF Spec

(* A session without streams is known to be idle once the task that took   *)
(* out the last one has published it (remove_stream, remove_from_session,  *)
(* terminate): wait_for_idle waits for no publication that does not come.  *)
THEOREM IdleNotLost == Spec => []NoLostIdle
<1>1. BaseInv => NoLostIdle
  BY Zenon DEF BaseInv
<1> QED BY <1>1, InitBase, NextBase, PTL DEF Spec

-----------------------------------------------------------------------------
(* Live streams can be found.                                              *)

(* The calls of open_stream that have been through the lock section, or    *)
(* were refused before it.                                                 *)
Opened == {h \in Handles : pc[h] \notin {"new", "lock"}}
Named == {"syn", "open", "undo", "unmap"}

(* An identifier was given by its own call of open_stream, so none is      *)
(* given twice; only remove_stream leaves a stream with the receive loop,  *)
(* and only terminate keeps a list.                                        *)
Identified ==
  /\ nextId <= Cardinality(Opened)
  /\ \A h \in Handles : sid[h] <= nextId /\ (pc[h] \in Named => sid[h] # 0)
  /\ \A g, h \in Handles : sid[g] = sid[h] /\ sid[g] # 0 => g = h
InHand ==
  /\ rcur # None => rpc \in {"publish", "end"}
  /\ \A t \in Callers : tpc[t] # "end" => tlist[t] = {}

FewStreams == Cardinality(Handles) < SidSpace
TrackInv == BaseInv /\ Identified /\ InHand /\ StreamsTracked

(* No call of open_stream is undone. *)
LEMMA OpenedGrows ==
  ASSUME Opened \subseteq Opened', nextId <= Cardinality(Opened), nextId \in Nat
  PROVE  nextId <= Cardinality(Opened')
<1>1. IsFiniteSet(Opened')
  BY Zenon, FS_Subset, SessionAssumption DEF Opened
<1>2. Cardinality(Opened) <= Cardinality(Opened') /\ IsFiniteSet(Opened)
  BY Zenon, <1>1, FS_Subset
<1>3. Cardinality(Opened) \in Nat /\ Cardinality(Opened') \in Nat
  BY Zenon, <1>1, <1>2, FS_CardinalityType
<1> QED BY <1>2, <1>3

(* The next identifier is a new one. *)
LEMMA FreshSid ==
  ASSUME FewStreams, TypeOK, Identified, NEW h \in Handles, pc[h] = "lock"
  PROVE  NextSid = nextId + 1 /\ NextSid \in Sids
<1>1. IsFiniteSet(Handles \ {h}) /\ Cardinality(Handles \ {h}) = Cardinality(Handles) - 1
  BY Zenon, FS_RemoveElement, SessionAssumption
<1>2. Opened \subseteq Handles \ {h}
  BY Zenon DEF Opened
<1>3. IsFiniteSet(Opened) /\ Cardinality(Opened) <= Cardinality(Handles \ {h})
  BY Zenon, <1>1, <1>2, FS_Subset
<1>4. Cardinality(Opened) \in Nat /\ Cardinality(Handles) \in Nat
  BY Zenon, <1>3, FS_CardinalityType, SessionAssumption
<1>5. nextId \in Nat /\ SidSpace \in Nat
  BY SessionAssumption DEF TypeOK, Sids
<1>6. nextId + 1 < SidSpace
  BY <1>1, <1>3, <1>4, <1>5 DEF FewStreams, Identified
<1>7. (nextId + 1) % SidSpace = nextId + 1
  BY <1>5, <1>6
<1> QED BY <1>5, <1>6, <1>7 DEF NextSid, Sids

(* A step that only takes tasks from label to label, gives no name and     *)
(* starts no new call keeps what Identified says.                          *)
LEMMA IdentifiedKept ==
  ASSUME TypeOK, Identified, nextId' = nextId, sid' = sid, Opened \subseteq Opened',
         \A h \in Handles : pc'[h] \in Named => pc[h] \in Named
  PROVE  Identified'
<1>1. nextId \in Nat
  BY SessionAssumption DEF TypeOK, Sids
<1>2. nextId' <= Cardinality(Opened')
  BY Zenon, <1>1, OpenedGrows DEF Identified
<1> QED BY Zenon, <1>2 DEF Identified

(* Nothing is found yet, and nothing has to be. *)
LEMMA InitTrack == Init => TrackInv
<1> SUFFICES ASSUME Init
             PROVE  TrackInv
  BY Zenon
<1>1. Opened = {}
  BY Zenon DEF Init, Opened
<1>2. Cardinality(Opened) = 0
  BY Zenon, <1>1, FS_EmptySet
<1>3. Identified
  BY <1>2 DEF Init, Identified, Named
<1> QED BY Zenon, <1>3, InitBase DEF Init, TrackInv, InHand, StreamsTracked

(* open_stream tracks the stream it opens, and hides no other. *)
LEMMA OpenTrack ==
  ASSUME FewStreams, TrackInv, NEW h \in Handles, OpenStep(h)
  PROVE  TrackInv'
<1> USE DEF sessVars, runVars, termVars
<1>b. BaseInv' /\ BaseInv /\ TypeOK /\ TypeOK' /\ Identified /\ InHand /\ StreamsTracked
  BY Zenon, OpenBase DEF TrackInv, BaseInv
<1>i. InHand'
  BY Zenon, <1>b DEF OpenStep, OpenCheck, OpenInsert, Syn, Undo, UndoPublish, UndoEnd, InHand
<1>1. CASE OpenCheck(h)
  <2>1. Identified'
    BY Zenon, <1>1, <1>b, IdentifiedKept DEF OpenCheck, Goto, Opened, Named, TypeOK
  <2> QED BY Zenon, <1>1, <1>b, <1>i, <2>1 DEF OpenCheck, Goto, TrackInv, StreamsTracked, TypeOK
<1>2. CASE OpenInsert(h)
  <2>1. NextSid = nextId + 1 /\ NextSid \in Sids /\ nextId \in Nat /\ NextSid # 0
    BY <1>2, <1>b, FreshSid, SessionAssumption DEF OpenInsert, TypeOK, Sids
  <2>2. CASE UNCHANGED <<nextId, map, sid>> /\ Goto(h, "done")
    <3>1. Identified'
      BY Zenon, <1>2, <2>2, <1>b, IdentifiedKept DEF OpenInsert, Goto, Opened, Named, TypeOK
    <3> QED BY ZenonT(30), <1>2, <2>2, <1>b, <1>i, <3>1 DEF OpenInsert, Goto, TrackInv, StreamsTracked, TypeOK
  <2>3. CASE /\ nextId' = NextSid
             /\ sid' = [sid EXCEPT ![h] = NextSid]
             /\ map' = [map EXCEPT ![NextSid] = h]
             /\ Goto(h, "syn")
    <3>1. Opened' = Opened \cup {h} /\ h \notin Opened
      BY <1>2, <2>3, <1>b DEF OpenInsert, Goto, Opened, TypeOK
    <3>2. IsFiniteSet(Opened)
      BY Zenon, FS_Subset, SessionAssumption DEF Opened
    <3>3. Cardinality(Opened') = Cardinality(Opened) + 1 /\ Cardinality(Opened) \in Nat
      BY Zenon, <3>1, <3>2, FS_AddElement, FS_CardinalityType
    <3>4. nextId' <= Cardinality(Opened')
      BY <3>3, <2>1, <2>3, <1>b DEF Identified
    <3>5. \A g \in Handles : sid[g] \in Nat /\ sid[g] < NextSid
      BY <2>1, <1>b, SessionAssumption DEF Identified, TypeOK, Sids
    <3>6. Identified'
      BY <3>4, <3>5, <2>1, <2>3, <1>b DEF Identified, Goto, TypeOK
    <3>7. StreamsTracked'
      BY <3>5, <1>2, <2>1, <2>3, <1>b DEF OpenInsert, Goto, StreamsTracked, TypeOK
    <3> QED BY Zenon, <1>b, <1>i, <3>6, <3>7 DEF TrackInv
  <2> QED BY Zenon, <1>2, <2>1, <2>2, <2>3 DEF OpenInsert
<1>3. CASE Syn(h)
  <2>1. Identified'
    BY Zenon, <1>3, <1>b, IdentifiedKept DEF Syn, Goto, Opened, Named, TypeOK
  <2> QED BY Zenon, <1>3, <1>b, <1>i, <2>1 DEF Syn, Goto, TrackInv, StreamsTracked, TypeOK
<1>4. CASE Undo(h)
  <2>1. Identified'
    BY Zenon, <1>4, <1>b, IdentifiedKept DEF Undo, Goto, Opened, Named, TypeOK
  <2>2. \A g \in Handles : g # h /\ pc[g] \in Named => sid[g] # sid[h]
    BY Zenon, <1>b DEF Identified
  <2>3. StreamsTracked'
    BY ZenonT(30), <1>4, <1>b, <2>2 DEF Undo, Goto, Removed, Named, StreamsTracked, TypeOK
  <2> QED BY Zenon, <1>b, <1>i, <2>1, <2>3 DEF TrackInv
<1>5. CASE UndoPublish(h)
  <2>1. Identified'
    BY Zenon, <1>5, <1>b, IdentifiedKept DEF UndoPublish, Goto, Opened, Named, TypeOK
  <2> QED BY Zenon, <1>5, <1>b, <1>i, <2>1 DEF UndoPublish, Goto, TrackInv, StreamsTracked, TypeOK
<1>6. CASE UndoEnd(h)
  <2>1. Identified'
    BY Zenon, <1>6, <1>b, IdentifiedKept DEF UndoEnd, Goto, Opened, Named, TypeOK
  <2> QED BY Zenon, <1>6, <1>b, <1>i, <2>1 DEF UndoEnd, Goto, TrackInv, StreamsTracked, TypeOK
<1> QED BY Zenon, <1>1, <1>2, <1>3, <1>4, <1>5, <1>6 DEF OpenStep

(* Stream::close takes out its own stream only. *)
LEMMA CloseTrack ==
  ASSUME TrackInv, NEW h \in Handles, CloseMark(h) \/ CloseStep(h)
  PROVE  TrackInv'
<1> USE DEF sessVars, runVars, termVars, Goto
<1>b. BaseInv' /\ BaseInv /\ TypeOK /\ TypeOK' /\ Identified /\ InHand /\ StreamsTracked
  BY Zenon, CloseBase DEF TrackInv, BaseInv
<1>i. InHand'
  BY Zenon, <1>b DEF CloseStep, CloseMark, CloseUnmap, ClosePublish, CloseFin, InHand
<1>1. CASE CloseMark(h)
  <2>1. Identified'
    BY Zenon, <1>1, <1>b, IdentifiedKept DEF CloseMark, Opened, Named, TypeOK
  <2> QED BY Zenon, <1>1, <1>b, <1>i, <2>1 DEF CloseMark, TrackInv, StreamsTracked, TypeOK
<1>2. CASE CloseUnmap(h)
  <2>1. Identified'
    BY Zenon, <1>2, <1>b, IdentifiedKept DEF CloseUnmap, Opened, Named, TypeOK
  <2>2. \A g \in Handles : g # h /\ pc[g] \in Named => sid[g] # sid[h]
    BY Zenon, <1>b DEF Identified
  <2>3. StreamsTracked'
    BY ZenonT(30), <1>2, <1>b, <2>2 DEF CloseUnmap, Removed, Named, StreamsTracked, TypeOK
  <2> QED BY Zenon, <1>b, <1>i, <2>1, <2>3 DEF TrackInv
<1>3. CASE ClosePublish(h) \/ CloseFin(h)
  <2>1. Identified'
    BY ZenonT(30), <1>3, <1>b, IdentifiedKept DEF ClosePublish, CloseFin, Opened, Named, TypeOK
  <2> QED BY <1>3, <1>b, <1>i, <2>1 DEF ClosePublish, CloseFin, TrackInv, StreamsTracked, TypeOK
<1> QED BY Zenon, <1>1, <1>2, <1>3 DEF CloseStep

(* A step that leaves the tasks of the streams alone keeps Identified. *)
LEMMA IdentifiedElsewhere ==
  ASSUME Identified, UNCHANGED <<nextId, sid, pc>>
  PROVE  Identified'
BY Zenon DEF Identified, Opened

(* The receive loop has the stream it took out in hand until it ends it. *)
LEMMA RunTrack ==
  ASSUME TrackInv, RunAny
  PROVE  TrackInv'
<1> USE DEF sessVars, runVars, termVars, RunGoto
<1>b. BaseInv' /\ BaseInv /\ TypeOK /\ TypeOK' /\ Identified /\ InHand /\ StreamsTracked
  BY Zenon, RunBase DEF TrackInv, BaseInv
<1>n. Identified'
  BY Zenon, <1>b, IdentifiedElsewhere DEF RunAny, RunStep, RunCheck, RunArm, RunWake, RunRead, RunDrained, RunFail, RunFin,
     RunPublish, RunEnd
<1>1. CASE RunCheck \/ RunArm \/ RunWake \/ RunRead \/ RunDrained \/ RunFail \/ RunPublish
  <2>1. /\ UNCHANGED <<map, sid, ended, pc, rcur, tpc, tlist>>
        /\ rcur # None => rpc' \in {"publish", "end"}
    BY Zenon, <1>1, <1>b DEF RunCheck, RunArm, RunWake, RunRead, RunDrained, RunFail, RunPublish, InHand
  <2> QED BY Zenon, <1>b, <1>n, <2>1 DEF TrackInv, InHand, StreamsTracked
<1>2. ASSUME NEW s \in Sids, RunFin(s)
      PROVE  TrackInv'
  <2>1. rcur = None
    BY Zenon, <1>2, <1>b DEF RunFin, InHand
  <2>2. InHand'
    BY Zenon, <1>2, <1>b DEF RunFin, InHand
  <2>3. StreamsTracked'
    BY ZenonT(30), <1>2, <1>b, <2>1, SessionAssumption DEF RunFin, Removed, StreamsTracked, TypeOK
  <2> QED BY Zenon, <1>b, <1>n, <2>2, <2>3 DEF TrackInv
<1>3. CASE RunEnd
  BY Zenon, <1>3, <1>b, <1>n, SessionAssumption DEF RunEnd, PeerEnded, TrackInv, InHand, StreamsTracked
<1> QED BY Zenon, <1>1, <1>2, <1>3 DEF RunAny, RunStep

(* terminate has the streams it took out in hand until it ends them. *)
LEMMA TermTrack ==
  ASSUME TrackInv, NEW t \in Callers, TermSwap(t) \/ TermStep(t)
  PROVE  TrackInv'
<1> USE DEF sessVars, runVars, termVars
<1>b. BaseInv' /\ BaseInv /\ TypeOK /\ TypeOK' /\ Identified /\ InHand /\ StreamsTracked
  BY Zenon, TermBase DEF TrackInv, BaseInv
<1>n. Identified'
  BY Zenon, <1>b, IdentifiedElsewhere DEF TermSwap, TermStep, TermNotify, TermClear, TermEnd, TermReturn
<1>1. CASE TermSwap(t) \/ TermNotify(t) \/ TermReturn(t)
  BY Zenon, <1>1, <1>b, <1>n DEF TermSwap, TermNotify, TermReturn, TrackInv, InHand, StreamsTracked, TypeOK
<1>2. CASE TermClear(t)
  <2>1. tlist[t] = {}
    BY Zenon, <1>2, <1>b DEF TermClear, InHand
  <2>2. \A h \in Handles : map[sid[h]] = h => h \in Taken
    BY Zenon, <1>b, SessionAssumption DEF Taken, Mapped, TypeOK
  <2>3. InHand'
    BY Zenon, <1>2, <1>b DEF TermClear, InHand, TypeOK
  <2>4. StreamsTracked'
    BY Zenon, <1>2, <1>b, <2>1, <2>2 DEF TermClear, StreamsTracked, TypeOK
  <2> QED BY Zenon, <1>b, <1>n, <2>3, <2>4 DEF TrackInv
<1>3. CASE TermEnd(t)
  BY Zenon, <1>3, <1>b, <1>n DEF TermEnd, TrackInv, InHand, StreamsTracked, TypeOK
<1> QED BY Zenon, <1>1, <1>2, <1>3 DEF TermStep

(* Every step keeps TrackInv as long as the identifiers last. *)
LEMMA NextTrack == FewStreams /\ TrackInv /\ [Next]_vars => TrackInv'
<1> SUFFICES ASSUME FewStreams, TrackInv, [Next]_vars
             PROVE  TrackInv'
  BY Zenon
<1>1. CASE WriterFail \/ UNCHANGED vars
  <2>1. UNCHANGED <<nextId, map, sid, ended, pc, rpc, rcur, tpc, tlist>>
    BY Zenon, <1>1 DEF WriterFail, vars, runVars, termVars
  <2>2. Identified'
    BY Zenon, <2>1, IdentifiedElsewhere DEF TrackInv
  <2> QED BY Zenon, <1>1, <2>1, <2>2, RestBase DEF TrackInv, InHand, StreamsTracked
<1> QED BY Zenon, <1>1, NextByTask, OpenTrack, CloseTrack, RunTrack, TermTrack

(* With fewer streams than identifiers, a live stream is in the map under  *)
(* its own identifier, or in the hands of the receive loop or a terminate  *)
(* that is about to end it (open_stream, remove_stream, terminate).        *)
THEOREM LiveTracked ==
  ASSUME FewStreams
  PROVE  Spec => []StreamsTracked
<1>1. TrackInv => StreamsTracked
  BY Zenon DEF TrackInv
<1>2. TrackInv /\ [Next]_vars => TrackInv'
  BY Zenon, NextTrack
<1> QED BY <1>1, <1>2, InitTrack, PTL DEF Spec

(* With fewer streams than identifiers, a session has no stream, and gets  *)
(* none, once the terminate that closed it has returned: open_stream tests *)
(* closed again under the lock.                                            *)
THEOREM TerminateFinal ==
  ASSUME FewStreams
  PROVE  Spec => []TerminateIsFinal
<1>1. TrackInv => TerminateIsFinal
  <2> SUFFICES ASSUME TrackInv, closed, \A t \in Callers : tpc[t] \in {"none", "done"}
               PROVE  /\ Open = {}
                      /\ \A h \in Handles : pc[h] = "open" => h \in ended \/ rcur = h
    BY Zenon DEF TerminateIsFinal
  <2>1. Open = {}
    BY Zenon DEF TrackInv, BaseInv, ClearedOrToClear
  <2>2. \A h \in Handles : map[sid[h]] # h
    BY Zenon, <2>1, SessionAssumption DEF TrackInv, BaseInv, TypeOK, Open
  <2>3. \A t \in Callers : tlist[t] = {}
    BY Zenon DEF TrackInv, InHand
  <2> QED BY Zenon, <2>1, <2>2, <2>3 DEF TrackInv, StreamsTracked
<1>2. TrackInv /\ [Next]_vars => TrackInv'
  BY Zenon, NextTrack
<1> QED BY <1>1, <1>2, InitTrack, PTL DEF Spec
=============================================================================
