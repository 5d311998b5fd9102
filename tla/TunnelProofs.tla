---------------------------- MODULE TunnelProofs ----------------------------
(***************************************************************************)
(* Proofs about a tunnel, for any number of pieces, destinations and       *)
(* faults: no payload ends its session, it delivers in order both ways (it *)
(* implements Conduit twice), and what an application reads to the end     *)
(* without a failure is complete.  The types follow from the same          *)
(* invariant.                                                              *)
(*                                                                         *)
(* push_stream_data fails the receive loop when the pipe refuses a payload *)
(* of a stream that is not closed.  The argument is that a pipe refuses    *)
(* only after its stream was closed: what closes the pipe, queues its end  *)
(* or drops its sender comes behind mark_closed, and the receiver is       *)
(* dropped only by a handler that found the stream closed, or the writer   *)
(* gone, which takes a lost connection.                                    *)
(*                                                                         *)
(* For the order, the address is chunk 0 upwards and the pieces are the    *)
(* chunks from 1 on; downwards the chunks start with 1.  The argument      *)
(* follows the chunks that one side sent and the other has not read yet:   *)
(* those queued in the pipe, the one push_stream_data holds and those on   *)
(* the connection carry consecutive numbers.  Where a chunk is dropped,    *)
(* nothing that comes behind it can be written to the pipe any more.       *)
(***************************************************************************)
EXTENDS Tunnel, TLAPS

(* Where a leaf names no prover it is for Zenon.  A lemma that only one    *)
(* proof uses is a step of that proof.                                     *)
USE Zenon

Event == [kind : {"data", "eof", "error"}, units : Seq(Int)]
Pipe ==
  [queue : Seq(Event), buffer : Seq(Int), closed : BOOLEAN, sender : BOOLEAN, receiver : BOOLEAN, endQueued : BOOLEAN]

(* An end in the queue was put there by finish_stream. *)
EndsMarked(p) == \A i \in 1 .. Len(p.queue) : p.queue[i].kind # "data" => p.endQueued

(* Nothing has ended the pipe. *)
Running(p) == ~p.closed /\ ~p.endQueued /\ p.sender

(* Only the client sends SYN, and the server has its settings. *)
Replies == [cmd : {"PSH", "FIN", "SYNACK", "SYNERR"}, units : Seq(Int)]
Frames == [cmd : {"SYN", "PSH", "FIN", "SYNACK", "SYNERR"}, units : Seq(Int)]

TypeInv ==
  /\ closed \in [Sides -> BOOLEAN] /\ mapped \in [Sides -> BOOLEAN] /\ spawned \in [Sides -> BOOLEAN]
  /\ pipe \in [Sides -> Pipe] /\ fut \in [Sides -> Nat]
  /\ writer \in [Sides -> {"up", "doomed", "down"}] /\ run \in [Sides -> {"up", "failing", "ended"}]
  /\ net \in [Sides -> Seq(Frames)] /\ net["client"] \in Seq(Replies) /\ st["server"].settings
  /\ holding \in [Sides -> Seq(Int)] /\ lost \in BOOLEAN /\ appSent \in Nat /\ destSent \in Nat

(* The inductive invariant, for each side. *)
SideInv(s) ==
  /\ EndsMarked(pipe[s])
  /\ ~closed[s] => Running(pipe[s]) /\ ~spawned[s] /\ (pipe[s].receiver \/ lost)
  /\ writer[s] # "up" => lost
  /\ run[s] # "up" => lost

IInv == TypeInv /\ (hand = "fin" => closed["server"]) /\ \A s \in Sides : SideInv(s)

-----------------------------------------------------------------------------
(* Sequences.                                                              *)

(* The empty sequence is the one without elements. *)
LEMMA NoElement ==
  ASSUME NEW S
  PROVE  <<>> \in Seq(S) /\ \A q \in Seq(S) : q = <<>> <=> Len(q) = 0
BY SMT

(* A new last element comes behind the others. *)
LEMMA AppendLast ==
  ASSUME NEW S, NEW q \in Seq(S), NEW x \in S
  PROVE  /\ Append(q, x) \in Seq(S) /\ Len(Append(q, x)) = Len(q) + 1
         /\ Append(q, x)[Len(q) + 1] = x /\ \A i \in 1 .. Len(q) : Append(q, x)[i] = q[i]
BY SMT

(* Head and Tail take a sequence apart. *)
LEMMA HeadAndTail ==
  ASSUME NEW S, NEW q \in Seq(S), q # <<>>
  PROVE  /\ Head(q) \in S /\ Tail(q) \in Seq(S) /\ Len(Tail(q)) = Len(q) - 1
         /\ \A i \in 1 .. Len(Tail(q)) : Tail(q)[i] = q[i + 1]
BY SMT

-----------------------------------------------------------------------------
(* The steps that actions are made of.                                     *)

(* What a step may do to the streams: they are never reopened, and a pipe  *)
(* is ended, or closed by a task, only on a side that is closed.           *)
Safely ==
  /\ closed' \in [Sides -> BOOLEAN] /\ spawned' \in [Sides -> BOOLEAN] /\ mapped' \in [Sides -> BOOLEAN]
  /\ pipe' \in [Sides -> Pipe] /\ fut' \in [Sides -> Nat]
  /\ \A s \in Sides :
       /\ EndsMarked(pipe'[s])
       /\ ~closed'[s] => /\ ~closed[s] /\ spawned'[s] = spawned[s]
                         /\ Running(pipe[s]) => Running(pipe'[s])

(* What a step may do to the link: a writer fails only on a lost           *)
(* connection.                                                             *)
LinkSafely ==
  /\ net' \in [Sides -> Seq(Frames)] /\ net'["client"] \in Seq(Replies) /\ st' = st
  /\ writer' \in [Sides -> {"up", "doomed", "down"}]
  /\ holding' \in [Sides -> Seq(Int)] /\ lost' \in BOOLEAN /\ (lost => lost')
  /\ \A s \in Sides : writer'[s] # "up" => writer[s] # "up" \/ lost'

ReceiversKept == \A s \in Sides : ~closed'[s] /\ pipe[s].receiver => pipe'[s].receiver

(* What the tasks send. *)
LEMMA FrameTypes ==
  /\ \A cmd \in {"FIN", "SYNACK", "SYNERR"} : Frame(cmd) \in Replies
  /\ \A units \in Seq(Int) : Psh(units) \in Replies
<1>1. <<>> \in Seq(Int)
  BY SMT
<1>2. QED
  BY <1>1 DEF Frame, Psh, Replies

-----------------------------------------------------------------------------
(* The actions.                                                            *)

(* Taking a frame off the connection. *)
LEMMA ConsumedFacts ==
  ASSUME IInv, NEW s \in Sides, net[s] # <<>>
  PROVE  /\ Consumed(s) \in [Sides -> Seq(Frames)] /\ Consumed(s)["client"] \in Seq(Replies)
         /\ Head(net[s]).units \in Seq(Int)
         /\ s = "client" => Head(net[s]).cmd # "SYN"
<1>1. net[s] \in Seq(Frames) /\ Head(net[s]) \in Frames /\ Tail(net[s]) \in Seq(Frames)
  BY HeadAndTail DEF IInv, TypeInv
<1>2. s = "client" => Head(net[s]) \in Replies /\ Tail(net[s]) \in Seq(Replies)
  BY HeadAndTail DEF IInv, TypeInv
<1>3. QED
  BY <1>1, <1>2 DEF Consumed, IInv, TypeInv, Frames, Replies, Sides

(* The invariant holds at first. *)
LEMMA InitInv == Init => IInv
<1> SUFFICES ASSUME Init PROVE IInv
  OBVIOUS
<1>1. <<>> \in Seq(Event) /\ <<>> \in Seq(Int) /\ <<>> \in Seq(Frames) /\ <<>> \in Seq(Replies)
  BY SMT
<1>2. NewPipe \in Pipe /\ EndsMarked(NewPipe) /\ Running(NewPipe) /\ NewPipe.receiver
  BY SMT, <1>1 DEF NewPipe, Pipe, EndsMarked, Running
<1>3. <<Frame("SYN")>> \in Seq(Frames)
  BY SMT, <1>1 DEF Frame, Frames
<1>4. net \in [Sides -> Seq(Frames)] /\ net["client"] \in Seq(Replies)
  BY <1>1, <1>3 DEF Init, StreamsInit, Sides
<1>5. st["server"].settings
  BY DEF Init, StreamsInit, State, Sides
<1>6. TypeInv
  BY <1>1, <1>2, <1>4, <1>5 DEF Init, StreamsInit, TypeInv
<1>7. ASSUME NEW s \in Sides PROVE SideInv(s)
  BY <1>2 DEF Init, StreamsInit, SideInv
<1>8. hand # "fin"
  BY DEF Init, StreamsInit
<1>9. QED
  BY <1>6, <1>7, <1>8 DEF IInv

(* Every step preserves it. *)
LEMMA NextInv == IInv /\ [Next]_vars => IInv'
(* An event at the end of the queue keeps the mark, if it is data or the   *)
(* end is marked; without its head the queue keeps it too.                 *)
<1>1. ASSUME NEW p \in Pipe, EndsMarked(p), NEW q \in Pipe, p.endQueued => q.endQueued
      PROVE  /\ \A e \in Event : q.queue = Append(p.queue, e) /\ (e.kind # "data" => q.endQueued) => EndsMarked(q)
             /\ p.queue # <<>> /\ q.queue = Tail(p.queue) => EndsMarked(q)
             /\ q.queue = p.queue => EndsMarked(q)
             /\ q.queue = <<>> => EndsMarked(q)
  <2> USE <1>1
  <2>0. p.queue \in Seq(Event) /\ q.queue \in Seq(Event)
    BY DEF Pipe
  <2>1. ASSUME NEW e \in Event, q.queue = Append(p.queue, e), e.kind # "data" => q.endQueued
        PROVE  EndsMarked(q)
    <3>1. Len(q.queue) = Len(p.queue) + 1 /\ q.queue[Len(p.queue) + 1] = e
          /\ \A i \in 1 .. Len(p.queue) : q.queue[i] = p.queue[i]
      BY SMT, <2>0, <2>1, AppendLast
    <3>2. QED
      BY SMT, <2>0, <2>1, <3>1 DEF EndsMarked
  <2>2. ASSUME p.queue # <<>>, q.queue = Tail(p.queue)
        PROVE  EndsMarked(q)
    <3>1. Len(q.queue) = Len(p.queue) - 1 /\ \A i \in 1 .. Len(q.queue) : q.queue[i] = p.queue[i + 1]
      BY SMT, <2>0, <2>2, HeadAndTail
    <3>2. QED
      BY SMT, <2>0, <3>1 DEF EndsMarked
  <2>3. QED
    BY SMTT(30), <2>0, <2>1, <2>2 DEF EndsMarked

(* write adds no end to the queue and leaves the pipe as open as it was. *)
<1>2. ASSUME NEW p \in Pipe, EndsMarked(p), NEW units \in Seq(Int)
      PROVE  /\ Write(p, units) \in Pipe /\ EndsMarked(Write(p, units))
             /\ Running(p) => Running(Write(p, units))
             /\ Write(p, units).receiver = p.receiver
  <2> USE <1>2
  <2>1. Data(units) \in Event
    BY DEF Data, Event
  <2>2. Write(p, units) \in Pipe
    <3>1. Append(p.queue, Data(units)) \in Seq(Event)
      BY <2>1, AppendLast DEF Pipe
    <3>2. QED
      BY <3>1 DEF Write, Pipe
  <2>3. Write(p, units).queue = Append(p.queue, Data(units)) /\ Write(p, units).endQueued = p.endQueued
    BY DEF Write, Pipe
  <2>4. EndsMarked(Write(p, units))
    BY <2>1, <2>2, <2>3, <1>1 DEF Data
  <2>5. QED
    BY <2>2, <2>4 DEF Write, Pipe, Running

(* finish_stream marks the end that it queues. *)
<1>3. ASSUME NEW p \in Pipe, EndsMarked(p), NEW kind \in {"eof", "error"}
      PROVE  FinishStream(p, kind) \in Pipe /\ EndsMarked(FinishStream(p, kind))
  <2> USE <1>3
  <2>1. StreamEnd(kind) \in Event
    BY SMT DEF StreamEnd, Event
  <2>2. FinishStream(p, kind) \in Pipe
    <3>1. Append(p.queue, StreamEnd(kind)) \in Seq(Event)
      BY <2>1, AppendLast DEF Pipe
    <3>2. QED
      BY <3>1 DEF FinishStream, Pipe
  <2> DEFINE q == FinishStream(p, kind)
  <2>3. q = p \/ (q.endQueued /\ (q.queue = p.queue \/ q.queue = Append(p.queue, StreamEnd(kind))))
    BY DEF FinishStream, Pipe
  <2> HIDE DEF q
  <2>4. EndsMarked(q)
    BY <2>1, <2>2, <2>3, <1>1 DEF q
  <2>5. QED
    BY <2>2, <2>4 DEF q

(* The spawned close and a dropped read queue nothing; a dropped read takes *)
(* the receiver and nothing else.                                           *)
<1>4. ASSUME NEW p \in Pipe, EndsMarked(p)
      PROVE  /\ CloseWithError(p) \in Pipe /\ EndsMarked(CloseWithError(p))
             /\ DropReader(p) \in Pipe /\ EndsMarked(DropReader(p))
             /\ Running(p) => Running(DropReader(p))
  <2> USE <1>4
  <2>1. CloseWithError(p) \in Pipe /\ DropReader(p) \in Pipe
    <3>1. <<>> \in Seq(Event)
      BY SMT
    <3>2. CloseWithError(p) \in Pipe
      BY DEF CloseWithError, Pipe
    <3>3. DropReader(p) \in Pipe
      BY <3>1 DEF DropReader, Pipe
    <3>4. QED
      BY <3>2, <3>3
  <2>2. /\ CloseWithError(p).queue = p.queue /\ CloseWithError(p).endQueued = p.endQueued
        /\ DropReader(p).queue = <<>> /\ DropReader(p).endQueued = p.endQueued
    BY DEF CloseWithError, DropReader, Pipe
  <2>3. EndsMarked(CloseWithError(p)) /\ EndsMarked(DropReader(p))
    BY <2>1, <2>2, <1>1
  <2>4. QED
    BY <2>1, <2>3 DEF DropReader, Pipe, Running

(* A read keeps the receiver, and ends the pipe only by an end that was    *)
(* queued or by what had ended it before.                                  *)
<1>5. ASSUME NEW p \in Pipe, EndsMarked(p), NEW n \in Nat
      PROVE  /\ ReadNow(p, n).pipe \in Pipe /\ EndsMarked(ReadNow(p, n).pipe)
             /\ Running(p) => Running(ReadNow(p, n).pipe)
             /\ ReadNow(p, n).pipe.receiver = p.receiver
  <2> USE <1>5
  <2> DEFINE k == Least(n, p.buffer)
  <2>1. k \in Nat /\ k <= Len(p.buffer)
    BY SMT DEF Least, Pipe
  <2>2. SubSeq(p.buffer, k + 1, Len(p.buffer)) \in Seq(Int)
    BY SMT, <2>1 DEF Pipe
  <2> HIDE DEF k
  <2>3. ReadNow(p, n).pipe = p \/ ReadNow(p, n).pipe = [p EXCEPT !.buffer = SubSeq(p.buffer, k + 1, Len(p.buffer))]
    BY DEF ReadNow, k, Pipe
  <2> DEFINE q == ReadNow(p, n).pipe
  <2>4. q \in Pipe /\ q.queue = p.queue /\ q.endQueued = p.endQueued /\ q.receiver = p.receiver
        /\ (Running(p) => Running(q))
    BY <2>2, <2>3 DEF Pipe, Running
  <2> HIDE DEF q
  <2>5. EndsMarked(q)
    BY <2>4, <1>1
  <2>6. QED
    BY <2>4, <2>5 DEF q

(* A read of an event keeps what the pipe records of its end. *)
<1>6. ASSUME NEW p \in Pipe, EndsMarked(p), NEW n \in Nat
      PROVE  /\ ReadEvent(p, n).pipe \in Pipe /\ EndsMarked(ReadEvent(p, n).pipe)
             /\ Running(p) => Running(ReadEvent(p, n).pipe)
             /\ ReadEvent(p, n).pipe.receiver = p.receiver
  <2> USE <1>6
  <2>1. CASE p.queue = <<>>
    BY <2>1 DEF ReadEvent
  <2>2. CASE p.queue # <<>>
    <3> DEFINE e == Head(p.queue)
               k == Least(n, e.units)
               rest == [p EXCEPT !.queue = Tail(@)]
               more == SubSeq(e.units, k + 1, Len(e.units))
    <3>1. e \in Event /\ e = p.queue[1] /\ 1 \in 1 .. Len(p.queue)
      BY SMT, <2>2 DEF Pipe
    <3>2. k \in Nat /\ k <= Len(e.units)
      BY SMT, <3>1 DEF Least, Event
    <3>3. more \in Seq(Int)
      BY SMTT(30), <3>1, <3>2 DEF Event
    <3>4. Tail(p.queue) \in Seq(Event)
      BY SMT, <2>2 DEF Pipe
    <3>5. ReadEvent(p, n).pipe = IF e.kind = "data" THEN [rest EXCEPT !.buffer = @ \o more]
                                 ELSE [rest EXCEPT !.closed = TRUE, !.sender = FALSE]
      BY <2>2 DEF ReadEvent
    <3>6. e.kind # "data" => p.endQueued
      BY <3>1 DEF EndsMarked
    <3> DEFINE q == ReadEvent(p, n).pipe
    <3> HIDE DEF e, more, k
    <3>7. q \in Pipe /\ q.queue = Tail(p.queue) /\ q.endQueued = p.endQueued /\ q.receiver = p.receiver
          /\ (Running(p) => Running(q))
      <4>1. CASE e.kind = "data"
        <5>1. p.buffer \o more \in Seq(Int) /\ rest.buffer = p.buffer
          BY SMT, <3>3 DEF Pipe
        <5>2. QED
          BY ZenonT(30), <3>4, <3>5, <4>1, <5>1 DEF Pipe, Running
      <4>2. CASE e.kind # "data"
        BY ZenonT(30), <3>4, <3>5, <3>6, <4>2 DEF Pipe, Running
      <4>3. QED
        BY <4>1, <4>2
    <3> HIDE DEF q
    <3>8. EndsMarked(q)
      BY <2>2, <3>7, <1>1
    <3>9. QED
      BY <3>7, <3>8 DEF q
  <2>3. QED
    BY <2>1, <2>2

(* Steps of these two kinds that drop no receiver of an open stream, end   *)
(* no receive loop and send no FIN early preserve the invariant.           *)
<1>7. ASSUME IInv, Safely, LinkSafely, ReceiversKept, run' = run,
             hand' = "fin" => hand = "fin" \/ closed'["server"],
             appSent' \in Nat, destSent' \in Nat
      PROVE  IInv'
  <2> USE <1>7
  <2>1. TypeInv'
    BY DEF IInv, TypeInv, Safely, LinkSafely
  <2>2. ASSUME NEW s \in Sides
        PROVE  SideInv(s)'
    BY DEF IInv, TypeInv, SideInv, Safely, LinkSafely, ReceiversKept
  <2>3. hand' = "fin" => closed'["server"]
    <3>1. "server" \in Sides
      BY DEF Sides
    <3>2. QED
      BY <3>1 DEF IInv, TypeInv, Safely
  <2>4. QED
    BY <2>1, <2>2, <2>3 DEF IInv

(* Once the connection is lost nothing more is asked of receivers and of   *)
(* receive loops.                                                          *)
<1>8. ASSUME IInv, Safely, LinkSafely, lost, run' \in [Sides -> {"up", "failing", "ended"}],
             hand' = "fin" => hand = "fin" \/ closed'["server"],
             appSent' \in Nat, destSent' \in Nat
      PROVE  IInv'
  <2> USE <1>8
  <2>1. TypeInv'
    BY DEF IInv, TypeInv, Safely, LinkSafely
  <2>2. ASSUME NEW s \in Sides
        PROVE  SideInv(s)'
    BY DEF IInv, TypeInv, SideInv, Safely, LinkSafely
  <2>3. hand' = "fin" => closed'["server"]
    <3>1. "server" \in Sides
      BY DEF Sides
    <3>2. QED
      BY <3>1 DEF IInv, TypeInv, Safely
  <2>4. QED
    BY <2>1, <2>2, <2>3 DEF IInv

(* Leaving the streams alone is safe. *)
<1>9. ASSUME IInv, UNCHANGED streamVars
      PROVE  Safely /\ ReceiversKept
  BY <1>9 DEF IInv, TypeInv, SideInv, streamVars, Safely, ReceiversKept

(* So is leaving the link alone. *)
<1>10. ASSUME IInv, UNCHANGED linkVars
       PROVE  LinkSafely /\ run' = run
  BY <1>10 DEF IInv, TypeInv, linkVars, LinkSafely

(* And sending a frame. *)
<1>11. ASSUME IInv, NEW s \in Sides, NEW frame \in Replies, Send(s, frame), UNCHANGED <<holding, lost, st>>
       PROVE  LinkSafely
  <2> USE <1>11
  <2>1. Peer(s) \in Sides
    BY DEF Peer, Sides
  <2>2. CASE lost
    BY <2>2 DEF Send, IInv, TypeInv, LinkSafely
  <2>3. CASE ~lost
    <3>1. frame \in Frames
      BY DEF Frames, Replies
    <3>2. Append(net[Peer(s)], frame) \in Seq(Frames) /\ Append(net["client"], frame) \in Seq(Replies)
      BY ZenonT(30), <2>1, <3>1, AppendLast DEF IInv, TypeInv
    <3>3. net' = [net EXCEPT ![Peer(s)] = Append(@, frame)] /\ writer' = writer
      BY <2>3 DEF Send
    <3>4. net' \in [Sides -> Seq(Frames)] /\ net'["client"] \in Seq(Replies)
      BY <2>1, <3>2, <3>3 DEF IInv, TypeInv, Sides
    <3>5. QED
      BY <3>3, <3>4 DEF IInv, TypeInv, LinkSafely
  <2>4. QED
    BY <2>2, <2>3 DEF IInv, TypeInv

(* The FIN of a close, which may find the writer gone. *)
<1>12. ASSUME IInv, NEW s \in Sides, SendFin(s), UNCHANGED <<holding, lost, st>>
       PROVE  LinkSafely
  <2> USE <1>12
  <2>1. CASE Open(s)
    BY <2>1, <1>11, FrameTypes DEF SendFin
  <2>2. CASE ~Open(s)
    BY <2>2 DEF SendFin, IInv, TypeInv, LinkSafely
  <2>3. QED
    BY <2>1, <2>2

(* Stream::close marks the stream before it spawns the close of the pipe. *)
<1>13. ASSUME IInv, NEW s \in Sides, CloseStream(s), UNCHANGED <<pipe, fut>>
       PROVE  Safely /\ ReceiversKept /\ closed'[s]
  BY <1>13 DEF CloseStream, IInv, TypeInv, SideInv, Safely, ReceiversKept

(* An end from the peer or the session marks the stream as it finishes the *)
(* pipe.                                                                   *)
<1>14. ASSUME IInv, NEW s \in Sides, NEW kind \in {"eof", "error"}, EndStream(s, kind), UNCHANGED <<spawned, fut>>
       PROVE  Safely /\ ReceiversKept
  <2> USE <1>14
  <2>1. FinishStream(pipe[s], kind) \in Pipe /\ EndsMarked(FinishStream(pipe[s], kind))
    BY <1>3 DEF IInv, TypeInv, SideInv
  <2>2. CASE mapped[s]
    BY ZenonT(30), <2>1, <2>2 DEF EndStream, IInv, TypeInv, SideInv, Safely, ReceiversKept
  <2>3. CASE ~mapped[s]
    BY SMTT(30), <2>3 DEF EndStream, IInv, TypeInv, SideInv, Safely, ReceiversKept
  <2>4. QED
    BY <2>2, <2>3

(* A read only ends a pipe whose end was queued. *)
<1>15. ASSUME IInv, NEW s \in Sides, NEW n \in Nat, TakeAnswer(s, n), UNCHANGED <<closed, mapped, spawned>>
       PROVE  Safely /\ ReceiversKept
  <2> USE <1>15
  <2> DEFINE q == Answer(s, n).pipe
  <2>1. pipe[s] \in Pipe /\ EndsMarked(pipe[s]) /\ fut[s] \in Nat
    BY DEF IInv, TypeInv, SideInv
  <2>2. q \in Pipe /\ EndsMarked(q) /\ (Running(pipe[s]) => Running(q)) /\ q.receiver = pipe[s].receiver
    <3>1. CASE fut[s] = 0
      BY <2>1, <3>1, <1>5 DEF Answer
    <3>2. CASE fut[s] # 0
      BY <2>1, <3>2, <1>6 DEF Answer
    <3>3. QED
      BY <3>1, <3>2
  <2> HIDE DEF q
  <2>3. pipe' = [pipe EXCEPT ![s] = q] /\ fut' = [fut EXCEPT ![s] = 0]
    BY DEF TakeAnswer, q
  <2>4. QED
    BY ZenonT(30), <2>2, <2>3 DEF IInv, TypeInv, SideInv, Safely, ReceiversKept

(* Beginning to wait changes no pipe. *)
<1>16. ASSUME IInv, NEW s \in Sides, NEW n \in Nat, Waits(s, n), UNCHANGED <<closed, mapped, spawned, pipe>>
       PROVE  Safely /\ ReceiversKept
  BY <1>16 DEF Waits, IInv, TypeInv, SideInv, Safely, ReceiversKept

(* A handler that leaves drops the receiver of its own side at most. *)
<1>17. ASSUME IInv, NEW s \in Sides, Leave(s), UNCHANGED <<closed, mapped, spawned>>
       PROVE  Safely /\ \A t \in Sides \ {s} : pipe'[t] = pipe[t]
  <2> USE <1>17
  <2>1. DropReader(pipe[s]) \in Pipe /\ EndsMarked(DropReader(pipe[s]))
        /\ (Running(pipe[s]) => Running(DropReader(pipe[s])))
    BY <1>4 DEF IInv, TypeInv, SideInv
  <2>2. QED
    BY <2>1 DEF Leave, IInv, TypeInv, SideInv, Safely

(* The receive loop. *)
<1>18. ASSUME IInv, NEW s \in Sides, StreamFrames(s), UNCHANGED tunnelVars
       PROVE  IInv'
  <2> USE <1>18
  <2>1. /\ appSent' \in Nat /\ destSent' \in Nat
    BY DEF IInv, TypeInv, tunnelVars, appVars, destVars
  <2>2. CASE ReceiveSyn(s)
    <3>1. s = "server"
      BY <2>2, ConsumedFacts DEF ReceiveSyn, Arrived, Sides
    <3>2. /\ net' = Consumed(s) /\ mapped' = [mapped EXCEPT ![s] = Open(s)] /\ hand' \in {"check", hand}
          /\ UNCHANGED <<closed, pipe, spawned, fut, writer, run, holding, lost, st, denied>>
      BY <2>2, <3>1 DEF ReceiveSyn, IInv, TypeInv
    <3>3. LinkSafely
      BY SMTT(30), <2>2, <3>2, ConsumedFacts DEF ReceiveSyn, Arrived, LinkSafely, IInv, TypeInv
    <3>4. Safely /\ ReceiversKept
      BY <3>2 DEF Safely, ReceiversKept, IInv, TypeInv, SideInv, Open
    <3>5. QED
      BY <2>1, <3>2, <3>3, <3>4, <1>7
  <2>3. CASE ReceivePsh(s)
    <3>1. <<>> \in Seq(Int)
      BY SMT
    <3>2. LinkSafely
      BY <2>3, <3>1, ConsumedFacts DEF ReceivePsh, Arrived, LinkSafely, IInv, TypeInv
    <3>3. QED
      BY <2>1, <2>3, <3>2, <1>9, <1>7 DEF ReceivePsh, handVars
  <2>4. CASE ReceiveEnd(s)
    <3>1. LinkSafely
      BY <2>4, ConsumedFacts DEF ReceiveEnd, Arrived, LinkSafely, IInv, TypeInv
    <3>2. Safely /\ ReceiversKept
      BY <2>4, <1>14 DEF ReceiveEnd
    <3>3. QED
      BY <2>1, <2>4, <3>1, <3>2, <1>7 DEF ReceiveEnd, handVars
  <2>5. CASE ReceiveOther(s)
    <3>1. LinkSafely
      BY <2>5, ConsumedFacts DEF ReceiveOther, Arrived, LinkSafely, IInv, TypeInv
    <3>2. QED
      BY <2>1, <2>5, <3>1, <1>9, <1>7 DEF ReceiveOther, handVars
  <2>6. QED
    BY <2>2, <2>3, <2>4, <2>5 DEF StreamFrames

(* The push: the pipe of a stream that is open takes the payload. *)
<1>19. ASSUME IInv, NEW s \in Sides, Push(s), UNCHANGED tunnelVars
       PROVE  IInv'
  <2> USE <1>19
  <2>1. /\ appSent' \in Nat /\ destSent' \in Nat
    BY DEF IInv, TypeInv, tunnelVars, appVars, destVars
  <2>2. /\ pipe[s] \in Pipe /\ EndsMarked(pipe[s]) /\ holding[s] \in Seq(Int)
    BY DEF IInv, TypeInv, SideInv
  <2>3. LinkSafely
    <3>1. <<>> \in Seq(Int)
      BY SMT
    <3>2. QED
      BY <3>1 DEF Push, LinkSafely, IInv, TypeInv
  <2>4. Safely /\ ReceiversKept
    <3>1. CASE UNCHANGED pipe
      BY <3>1, <1>9 DEF Push, streamVars
    <3>2. CASE pipe' = [pipe EXCEPT ![s] = IF CanWrite(@) THEN Write(@, holding[s]) ELSE @]
      <4>1. CASE CanWrite(pipe[s])
        <5> DEFINE q == Write(pipe[s], holding[s])
        <5>1. q \in Pipe /\ EndsMarked(q) /\ (Running(pipe[s]) => Running(q)) /\ q.receiver = pipe[s].receiver
          BY <2>2, <1>2
        <5>2. pipe' = [pipe EXCEPT ![s] = q]
          BY <3>2, <4>1
        <5> HIDE DEF q
        <5>3. QED
          BY ZenonT(30), <5>1, <5>2 DEF Push, IInv, TypeInv, SideInv, Safely, ReceiversKept
      <4>2. CASE ~CanWrite(pipe[s])
        BY <3>2, <4>2, <1>9 DEF Push, streamVars, IInv, TypeInv
      <4>3. QED
        BY <4>1, <4>2
    <3>3. QED
      BY <3>1, <3>2 DEF Push
  <2>5. CASE PushForgiven(s)
    <3>1. run' = run
      BY <2>5 DEF Push, IInv, TypeInv
    <3>2. QED
      BY <2>1, <2>3, <2>4, <3>1, <1>7 DEF Push, handVars
  <2>6. CASE ~PushForgiven(s)
    <3>1. lost
      BY <2>6 DEF PushForgiven, CanWrite, IInv, SideInv, Running
    <3>2. run' \in [Sides -> {"up", "failing", "ended"}] /\ lost' /\ hand' = hand
      BY <3>1 DEF Push, IInv, TypeInv, handVars
    <3>3. QED
      BY <2>1, <2>3, <2>4, <3>1, <3>2, <1>8
  <2>7. QED
    BY <2>5, <2>6

(* The end of the receive loop. *)
<1>20. ASSUME IInv, NEW s \in Sides, RunEnd(s), UNCHANGED tunnelVars
       PROVE  IInv'
  <2> USE <1>20
  <2>1. /\ appSent' \in Nat /\ destSent' \in Nat
    BY DEF IInv, TypeInv, tunnelVars, appVars, destVars
  <2>2. lost
    BY DEF RunEnd, IInv, SideInv
  <2>3. LinkSafely
    <3>1. <<>> \in Seq(Frames) /\ <<>> \in Seq(Replies)
      BY SMT
    <3>2. QED
      BY <3>1 DEF RunEnd, LinkSafely, IInv, TypeInv, Sides
  <2>4. Safely /\ ReceiversKept
    BY <1>14 DEF RunEnd
  <2>5. run' \in [Sides -> {"up", "failing", "ended"}] /\ hand' = hand
    BY DEF RunEnd, IInv, TypeInv, handVars
  <2>6. QED
    BY <2>1, <2>2, <2>3, <2>4, <2>5, <1>8

(* The writer, and the spawned close of the pipe. *)
<1>21. ASSUME IInv, NEW s \in Sides, SpawnedTask(s), UNCHANGED tunnelVars
       PROVE  IInv'
  <2> USE <1>21
  <2>1. /\ appSent' \in Nat /\ destSent' \in Nat
    BY DEF IInv, TypeInv, tunnelVars, appVars, destVars
  <2>2. CASE WriterEnd(s)
    <3>1. LinkSafely
      BY <2>2 DEF WriterEnd, LinkSafely, IInv, TypeInv
    <3>2. QED
      BY <2>1, <2>2, <3>1, <1>9, <1>7 DEF WriterEnd, handVars
  <2>3. CASE ClosePipe(s)
    <3>1. closed[s]
      BY <2>3 DEF ClosePipe, IInv, SideInv, TypeInv
    <3>2. CloseWithError(pipe[s]) \in Pipe /\ EndsMarked(CloseWithError(pipe[s]))
      BY <1>4 DEF IInv, TypeInv, SideInv
    <3>3. Safely /\ ReceiversKept
      BY ZenonT(30), <2>3, <3>1, <3>2 DEF ClosePipe, IInv, TypeInv, SideInv, Safely, ReceiversKept
    <3>4. QED
      BY <2>1, <2>3, <3>3, <1>10, <1>7 DEF ClosePipe, handVars
  <2>4. QED
    BY <2>2, <2>3 DEF SpawnedTask

(* Steps that touch neither the streams nor the link. *)
<1>22. ASSUME IInv, UNCHANGED <<streamVars, linkVars>>, hand' = "fin" => hand = "fin", appSent' \in Nat, destSent' \in Nat
       PROVE  IInv'
  BY <1>22, <1>9, <1>10, <1>7

(* Steps that only send, as the tasks of side s do. *)
<1>23. ASSUME IInv, UNCHANGED <<streamVars, run, holding, lost, st>>, hand' = "fin" => hand = "fin",
              appSent' \in Nat, destSent' \in Nat,
              NEW s \in Sides, NEW frame \in Replies,
              Send(s, frame) \/ SendFin(s) \/ UNCHANGED <<net, writer>>
       PROVE  IInv'
  <2> USE <1>23
  <2>1. LinkSafely
    <3>1. CASE Send(s, frame)
      BY <3>1, <1>11
    <3>2. CASE SendFin(s)
      BY <3>2, <1>12
    <3>3. CASE UNCHANGED <<net, writer>>
      BY <3>3, <1>10 DEF linkVars
    <3>4. QED
      BY <3>1, <3>2, <3>3
  <2>2. QED
    BY <2>1, <1>9, <1>7

(* Steps that close the stream, or find it closed. *)
<1>24. ASSUME IInv, NEW s \in Sides, UNCHANGED <<pipe, fut, linkVars>>,
              CloseStream(s) \/ UNCHANGED <<closed, mapped, spawned>>,
              hand' = "fin" => hand = "fin" \/ (s = "server" /\ CloseStream(s)),
              appSent' \in Nat, destSent' \in Nat
       PROVE  IInv'
  <2> USE <1>24
  <2>1. CASE CloseStream(s)
    BY <2>1, <1>13, <1>10, <1>7
  <2>2. CASE UNCHANGED <<closed, mapped, spawned>> /\ ~CloseStream(s)
    BY <2>2, <1>22 DEF streamVars
  <2>3. QED
    BY <2>1, <2>2

(* Steps that read. *)
<1>25. ASSUME IInv, NEW s \in Sides, NEW n \in Nat, UNCHANGED <<closed, mapped, spawned, linkVars>>,
              TakeAnswer(s, n) \/ (Waits(s, n) /\ UNCHANGED pipe),
              hand' = "fin" => hand = "fin", appSent' \in Nat, destSent' \in Nat
       PROVE  IInv'
  BY <1>25, <1>15, <1>16, <1>10, <1>7

(* s5_connect. *)
<1>26. ASSUME IInv, ClientTask \/ ClientReader \/ ClientInput
       PROVE  IInv'
  <2> USE <1>26
  <2>0. "client" \in Sides /\ appSent \in Nat /\ destSent \in Nat /\ Whole \in Nat
    BY DEF Sides, IInv, TypeInv, Whole
  <2>1. CASE SendAddress
    <3>1. Psh(Address) \in Replies
      <4>1. Address \in Seq(Int)
        BY SMT DEF Address, Atyp, Rest
      <4>2. QED
        BY <4>1, FrameTypes
    <3>2. /\ Send("client", Psh(Address)) \/ UNCHANGED <<net, writer>>
          /\ UNCHANGED <<streamVars, run, holding, lost, st, hand, appSent, destSent>>
      BY <2>1 DEF SendAddress, handVars, destVars
    <3>3. QED
      BY <2>0, <3>1, <3>2, <1>23
  <2>2. CASE C2pRead
    <3>1. appSent' \in Nat /\ <<appSent'>> \in Seq(Int)
      BY SMT, <2>0, <2>2 DEF C2pRead
    <3>2. Psh(<<appSent'>>) \in Replies
      BY <3>1, FrameTypes
    <3>3. /\ Send("client", Psh(<<appSent'>>)) \/ UNCHANGED <<net, writer>>
          /\ UNCHANGED <<streamVars, run, holding, lost, st, hand, destSent>>
      BY <2>2 DEF C2pRead, handVars, destVars
    <3>4. QED
      BY <2>0, <3>1, <3>2, <3>3, <1>23
  <2>3. CASE C2pEnd
    BY <2>0, <2>3, <1>22 DEF C2pEnd, handVars, destVars
  <2>4. CASE C2pClose
    <3>1. /\ UNCHANGED <<pipe, fut, linkVars, hand, appSent, destSent>>
          /\ CloseStream("client") \/ UNCHANGED <<closed, mapped, spawned>>
      BY <2>4 DEF C2pClose, handVars, destVars, appVars
    <3>2. QED
      BY <2>0, <3>1, <1>24
  <2>5. CASE C2pFin
    <3>1. UNCHANGED <<streamVars, run, holding, lost, st, hand, appSent, destSent>> /\ SendFin("client")
      BY <2>5 DEF C2pFin, handVars, destVars, appVars
    <3>2. QED
      BY <2>0, <3>1, <1>23, FrameTypes
  <2>6. CASE P2cWait
    <3>1. /\ UNCHANGED <<closed, mapped, spawned, linkVars, pipe, hand, appSent, destSent>>
          /\ Waits("client", Whole)
      BY <2>6 DEF P2cWait, handVars, tunnelVars, destVars, appVars
    <3>2. QED
      BY <2>0, <3>1, <1>25
  <2>7. CASE P2cRead
    <3>1. /\ UNCHANGED <<closed, mapped, spawned, linkVars, hand, appSent, destSent>>
          /\ TakeAnswer("client", Whole)
      BY <2>7 DEF P2cRead, handVars, destVars
    <3>2. QED
      BY <2>0, <3>1, <1>25
  <2>8. QED
    BY <2>1, <2>2, <2>3, <2>4, <2>5, <2>6, <2>7 DEF ClientTask, ClientReader, ClientInput

(* handle_session. *)
<1>27. ASSUME IInv, HandStep \/ HandReader
       PROVE  IInv'
  <2> USE <1>27
  <2>0. "server" \in Sides /\ appSent \in Nat /\ destSent \in Nat /\ 1 \in Nat
    BY DEF Sides, IInv, TypeInv
  <2>1. CASE HandCheck /\ UNCHANGED tunnelVars
    <3>0. UNCHANGED <<linkVars, appSent, destSent>>
      BY <2>1 DEF HandCheck, tunnelVars, appVars, destVars
    <3>1. CASE hand' = "dest" /\ UNCHANGED streamVars
      BY <2>0, <3>0, <3>1, <1>22
    <3>2. CASE hand' = "fin" /\ CloseStream("server") /\ UNCHANGED <<pipe, fut>>
      BY <2>0, <3>0, <3>2, <1>24
    <3>3. CASE ~Usable("server") /\ hand' = "done" /\ Leave("server") /\ UNCHANGED <<closed, mapped, spawned>>
      <4>1. Safely /\ \A t \in Sides \ {"server"} : pipe'[t] = pipe[t]
        BY <2>0, <3>3, <1>17
      <4>2. CASE closed["server"]
        <5>1. ReceiversKept
          BY <2>0, <3>3, <4>1, <4>2 DEF ReceiversKept
        <5>2. QED
          BY <2>0, <3>0, <3>3, <4>1, <5>1, <1>10, <1>7
      <4>3. CASE ~closed["server"]
        <5>1. lost
          BY <2>0, <3>3, <4>3 DEF Usable, Open, IInv, SideInv
        <5>2. run' \in [Sides -> {"up", "failing", "ended"}]
          BY <3>0 DEF linkVars, IInv, TypeInv
        <5>3. QED
          BY <2>0, <3>0, <3>3, <4>1, <5>1, <5>2, <1>10, <1>8
      <4>4. QED
        BY <4>2, <4>3
    <3>4. QED
      BY <2>1, <3>1, <3>2, <3>3 DEF HandCheck
  <2>2. CASE HandClose /\ UNCHANGED tunnelVars
    <3>1. /\ UNCHANGED <<pipe, fut, linkVars, appSent, destSent>>
          /\ CloseStream("server") \/ (hand' = "done" /\ UNCHANGED <<closed, mapped, spawned>>)
      BY <2>2 DEF HandClose, tunnelVars, appVars, destVars
    <3>2. QED
      BY <2>0, <3>1, <1>24
  <2>3. CASE HandFin /\ UNCHANGED tunnelVars
    <3>1. /\ hand = "fin" /\ hand' = "done" /\ SendFin("server") /\ Leave("server")
          /\ UNCHANGED <<closed, mapped, spawned, run, holding, lost, st, appSent, destSent>>
      BY <2>3 DEF HandFin, tunnelVars, appVars, destVars
    <3>2. closed["server"]
      BY <3>1 DEF IInv
    <3>3. Safely /\ \A t \in Sides \ {"server"} : pipe'[t] = pipe[t]
      BY <2>0, <3>1, <1>17
    <3>4. ReceiversKept
      BY <2>0, <3>1, <3>2, <3>3 DEF ReceiversKept
    <3>5. LinkSafely
      BY <2>0, <3>1, <1>12
    <3>6. QED
      BY <2>0, <3>1, <3>3, <3>4, <3>5, <1>7
  <2>4. CASE HandConnect
    <3>1. /\ Send("server", Frame("SYNACK")) \/ UNCHANGED <<net, writer>>
          /\ UNCHANGED <<streamVars, run, holding, lost, st, appSent, destSent>> /\ hand' # "fin"
      BY <2>4 DEF HandConnect, Tell, appVars
    <3>2. QED
      BY <2>0, <3>1, <1>23, FrameTypes
  <2>5. CASE HandRefuse
    <3>1. /\ Send("server", Frame("SYNERR")) \/ UNCHANGED <<net, writer>>
          /\ UNCHANGED <<streamVars, run, holding, lost, st, appSent, destSent>> /\ hand' # "fin"
      BY <2>5 DEF HandRefuse, Tell, tunnelVars, appVars, destVars
    <3>2. QED
      BY <2>0, <3>1, <1>23, FrameTypes
  <2>6. CASE HandJoin
    BY <2>0, <2>6, <1>22 DEF HandJoin, appVars
  <2>7. CASE HandWait
    <3>1. /\ UNCHANGED <<closed, mapped, spawned, linkVars, pipe, hand, appSent, destSent>> /\ Waits("server", 1)
      BY <2>7 DEF HandWait, handVars, tunnelVars, destVars, appVars
    <3>2. QED
      BY <2>0, <3>1, <1>25
  <2>8. CASE HandRead
    <3>1. /\ UNCHANGED <<closed, mapped, spawned, linkVars, appSent, destSent>> /\ TakeAnswer("server", 1)
      BY <2>8 DEF HandRead, tunnelVars, destVars, appVars
    <3>2. hand' # "fin"
      BY <2>8 DEF HandRead
    <3>3. QED
      BY <2>0, <3>1, <3>2, <1>25
  <2>9. QED
    BY <2>1, <2>2, <2>3, <2>4, <2>5, <2>6, <2>7, <2>8 DEF HandStep, HandReader

(* handle_tcp_stream. *)
<1>28. ASSUME IInv, S2oTask \/ O2sTask \/ RelayReader \/ DestInput
       PROVE  IInv'
  <2> USE <1>28
  <2>0. "server" \in Sides /\ appSent \in Nat /\ destSent \in Nat /\ Whole \in Nat
    BY DEF Sides, IInv, TypeInv, Whole
  <2>1. CASE S2oCancelled \/ S2oShut \/ O2sCancelled \/ O2sError
    <3>1. UNCHANGED <<streamVars, linkVars, hand, appSent, destSent>>
      BY <2>1 DEF S2oCancelled, S2oShut, O2sCancelled, O2sError, handVars, appVars, destVars
    <3>2. QED
      BY <2>0, <3>1, <1>22
  <2>2. CASE S2oDenied \/ O2sDenied \/ O2sEof
    <3>1. /\ UNCHANGED <<pipe, fut, linkVars, hand, appSent, destSent>>
          /\ CloseStream("server") \/ UNCHANGED <<closed, mapped, spawned>>
      BY <2>2 DEF S2oDenied, O2sDenied, O2sEof, handVars, appVars, destVars
    <3>2. QED
      BY <2>0, <3>1, <1>24
  <2>3. CASE S2oFin \/ O2sFin
    <3>1. UNCHANGED <<streamVars, run, holding, lost, st, hand, appSent, destSent>> /\ SendFin("server")
      BY <2>3 DEF S2oFin, O2sFin, handVars, appVars, destVars
    <3>2. QED
      BY <2>0, <3>1, <1>23, FrameTypes
  <2>4. CASE S2oWait
    <3>1. /\ UNCHANGED <<closed, mapped, spawned, linkVars, pipe, hand, appSent, destSent>> /\ Waits("server", Whole)
      BY <2>4 DEF S2oWait, handVars, tunnelVars, destVars, appVars
    <3>2. QED
      BY <2>0, <3>1, <1>25
  <2>5. CASE S2oRead
    <3>1. /\ UNCHANGED <<closed, mapped, spawned, linkVars, hand, appSent, destSent>> /\ TakeAnswer("server", Whole)
      BY <2>5 DEF S2oRead, handVars, appVars
    <3>2. QED
      BY <2>0, <3>1, <1>25
  <2>6. CASE O2sRead
    <3>1. destSent' \in Nat /\ <<destSent'>> \in Seq(Int)
      BY SMT, <2>0, <2>6 DEF O2sRead
    <3>2. Psh(<<destSent'>>) \in Replies
      BY <3>1, FrameTypes
    <3>3. /\ Send("server", Psh(<<destSent'>>)) \/ UNCHANGED <<net, writer>>
          /\ UNCHANGED <<streamVars, run, holding, lost, st, hand, appSent>>
      BY <2>6 DEF O2sRead, handVars, appVars
    <3>4. QED
      BY <2>0, <3>1, <3>2, <3>3, <1>23
  <2>7. QED
    BY <2>1, <2>2, <2>3, <2>4, <2>5, <2>6 DEF S2oTask, O2sTask, RelayReader, DestInput

(* The environment. *)
<1>29. ASSUME IInv, Lose \/ Deny \/ DestReset
       PROVE  IInv'
  <2> USE <1>29
  <2>0. appSent \in Nat /\ destSent \in Nat
    BY DEF IInv, TypeInv
  <2>1. CASE Lose
    <3>1. LinkSafely
      BY <2>1 DEF Lose, LoseLink, LinkSafely, IInv, TypeInv
    <3>2. UNCHANGED <<streamVars, run, hand, appSent, destSent>>
      BY <2>1 DEF Lose, LoseLink, handVars, tunnelVars, appVars, destVars
    <3>3. QED
      BY <2>0, <3>1, <3>2, <1>9, <1>7
  <2>2. CASE Deny \/ DestReset
    <3>1. UNCHANGED <<streamVars, linkVars, hand, appSent, destSent>>
      BY <2>2 DEF Deny, DenyUser, DestReset, handVars, tunnelVars, appVars, destVars
    <3>2. QED
      BY <2>0, <3>1, <1>22
  <2>3. QED
    BY <2>1, <2>2

<1>30. IInv /\ [Next]_vars => IInv'
  <2> SUFFICES ASSUME IInv, [Next]_vars PROVE IInv'
    OBVIOUS
  <2>1. CASE \E s \in Sides : Receiver(s) \/ Spawned(s)
    <3>1. PICK s \in Sides : Receiver(s) \/ Spawned(s)
      BY <2>1
    <3>2. QED
      BY <3>1, <1>18, <1>19, <1>20, <1>21 DEF Receiver, Spawned
  <2>2. CASE ClientTask \/ ClientReader \/ ClientInput
    BY <2>2, <1>26
  <2>3. CASE HandStep \/ HandReader
    BY <2>3, <1>27
  <2>4. CASE S2oTask \/ O2sTask \/ RelayReader \/ DestInput
    BY <2>4, <1>28
  <2>5. CASE Lose \/ Deny \/ DestReset
    BY <2>5, <1>29
  <2>6. CASE UNCHANGED vars
    <3>1. UNCHANGED <<streamVars, linkVars, hand, appSent, destSent>> /\ appSent \in Nat /\ destSent \in Nat
      BY <2>6 DEF vars, handVars, tunnelVars, appVars, destVars, IInv, TypeInv
    <3>2. QED
      BY <3>1, <1>22
  <2>7. QED
    BY <2>1, <2>2, <2>3, <2>4, <2>5, <2>6 DEF Next, Tasks
<1>31. QED
  BY <1>30

(* A payload that arrives while its stream is being closed never ends the  *)
(* session: as long as the TLS connection is there, both receive loops run *)
(* (push_stream_data, Stream::close, close_from_peer, recv_loop), for any  *)
(* number of pieces, destinations and faults.                              *)
THEOREM PayloadSafe == Spec => []PayloadSparesSession
<1>1. IInv => PayloadSparesSession
  BY DEF IInv, SideInv, PayloadSparesSession
<1>2. QED
  BY <1>1, InitInv, NextInv, PTL DEF Spec

(* An open stream keeps the way from its session to its reader: as long as *)
(* the TLS connection is there, the pipe of a stream that is not closed    *)
(* takes what push_data writes to it.                                      *)
THEOREM OpenStreamTakesData == Spec => [](\A s \in Sides : ~lost /\ ~closed[s] => CanWrite(pipe[s]))
<1>1. IInv => \A s \in Sides : ~lost /\ ~closed[s] => CanWrite(pipe[s])
  BY DEF IInv, SideInv, Running, CanWrite
<1>2. QED
  BY <1>1, InitInv, NextInv, PTL DEF Spec

-----------------------------------------------------------------------------
(* Chunks in order.                                                        *)

(* What a stream carries: the address, then the pieces. *)
Chunk(k) == IF k = 0 THEN Address ELSE <<k>>

(* The payloads of the frames in q are the chunks a .. b - 1: f[i] of them *)
(* and of those before q are among the first i frames.                     *)
NumberedBy(q, a, b, f) ==
  /\ f[0] = a /\ f[Len(q)] = b
  /\ \A i \in 1 .. Len(q) :
       IF q[i].cmd = "PSH" THEN q[i].units = Chunk(f[i - 1]) /\ f[i] = f[i - 1] + 1 ELSE f[i] = f[i - 1]
  /\ \A i \in 0 .. Len(q) : (\A j \in i + 1 .. Len(q) : q[j].cmd # "PSH") => f[i] = b
Numbered(q, a, b) == \E f \in [0 .. Len(q) -> 0 .. b] : NumberedBy(q, a, b, f)

(* A pipe p holds the chunks from n on; h is the next one, and those in    *)
(* frames q follow it up to e - 1, as far as they can still be written.    *)
Queued(p, n, e) ==
  \A i \in 1 .. Len(p.queue) :
    /\ p.queue[i].kind = "data" => p.queue[i].units = Chunk(n + i - 1) /\ n + i <= e
    /\ p.queue[i].kind # "data" => i = Len(p.queue)
Behind(p, h, n) == n + Len(p.queue) + (IF h = <<>> THEN 0 ELSE 1)
Flow(p, h, q, live, n, e) ==
  /\ Queued(p, n, e)
  /\ CanWrite(p) /\ h # <<>> => h = Chunk(n + Len(p.queue)) /\ n + Len(p.queue) < e
  /\ CanWrite(p) /\ live => Numbered(q, Behind(p, h, n), e)

-----------------------------------------------------------------------------
(* Frames.                                                                 *)

(* A frame behind others: the next chunk, or no chunk. *)
LEMMA NumberedAppend ==
  ASSUME NEW S, NEW q \in Seq(S), NEW a \in Nat, NEW b \in Nat, Numbered(q, a, b), NEW frame \in S
  PROVE  /\ frame.cmd = "PSH" /\ frame.units = Chunk(b) => Numbered(Append(q, frame), a, b + 1)
         /\ frame.cmd # "PSH" => Numbered(Append(q, frame), a, b)
<1> DEFINE l == Len(q)
           r == Append(q, frame)
<1>1. PICK f \in [0 .. l -> 0 .. b] : NumberedBy(q, a, b, f)
  BY DEF Numbered
<1>2. l \in Nat /\ Len(r) = l + 1 /\ r[l + 1] = frame /\ \A i \in 1 .. l : r[i] = q[i]
  BY SMT
<1>3. /\ f[0] = a /\ f[l] = b
      /\ \A i \in 1 .. l :
           IF q[i].cmd = "PSH" THEN q[i].units = Chunk(f[i - 1]) /\ f[i] = f[i - 1] + 1 ELSE f[i] = f[i - 1]
      /\ \A i \in 0 .. l : (\A j \in i + 1 .. l : q[j].cmd # "PSH") => f[i] = b
  BY <1>1 DEF NumberedBy
<1> HIDE DEF l, r
<1>4. ASSUME NEW c \in {b, b + 1}, frame.cmd = "PSH" => frame.units = Chunk(b) /\ c = b + 1,
             frame.cmd # "PSH" => c = b
      PROVE  Numbered(r, a, c)
  <2> DEFINE g == [i \in 0 .. l + 1 |-> IF i = l + 1 THEN c ELSE f[i]]
  <2>0. c \in Nat
    BY SMT
  <2>1. g \in [0 .. l + 1 -> 0 .. c] /\ g[l + 1] = c /\ \A i \in 0 .. l : g[i] = f[i]
    BY SMT, <1>1, <1>2
  <2> HIDE DEF g
  <2>2. ASSUME NEW i \in 1 .. l + 1
        PROVE  IF r[i].cmd = "PSH" THEN r[i].units = Chunk(g[i - 1]) /\ g[i] = g[i - 1] + 1 ELSE g[i] = g[i - 1]
    <3>1. CASE i = l + 1
      <4>1. i - 1 = l /\ l \in 0 .. l
        BY SMT, <1>2, <3>1
      <4>2. g[i - 1] = b /\ g[i] = c /\ r[i] = frame
        BY <1>2, <1>3, <2>1, <3>1, <4>1
      <4>3. QED
        BY <1>4, <4>2
    <3>2. CASE i # l + 1
      <4>1. i \in 1 .. l /\ i \in 0 .. l /\ i - 1 \in 0 .. l
        BY SMT, <1>2, <3>2
      <4>2. g[i - 1] = f[i - 1] /\ g[i] = f[i] /\ r[i] = q[i]
        BY <1>2, <2>1, <4>1
      <4>3. QED
        BY <1>3, <4>1, <4>2
    <3>3. QED
      BY <3>1, <3>2
  <2>3. ASSUME NEW i \in 0 .. l + 1, \A j \in i + 1 .. l + 1 : r[j].cmd # "PSH"
        PROVE  g[i] = c
    <3>1. CASE i = l + 1
      BY <2>1, <3>1
    <3>2. CASE i # l + 1
      <4>1. i \in 0 .. l /\ l + 1 \in i + 1 .. l + 1 /\ \A j \in i + 1 .. l : j \in 1 .. l /\ j \in i + 1 .. l + 1
        BY SMT, <1>2, <3>2
      <4>2. frame.cmd # "PSH" /\ \A j \in i + 1 .. l : q[j].cmd # "PSH"
        BY <1>2, <2>3, <4>1
      <4>3. QED
        BY <1>3, <1>4, <2>1, <4>1, <4>2
    <3>3. QED
      BY <3>1, <3>2
  <2>4. g[0] = a
    <3>1. 0 \in 0 .. l
      BY SMT, <1>2
    <3>2. QED
      BY <1>3, <2>1, <3>1
  <2>5. NumberedBy(r, a, c, g)
    BY <1>2, <2>1, <2>2, <2>3, <2>4 DEF NumberedBy
  <2>6. QED
    BY <1>2, <2>1, <2>5 DEF Numbered
<1>5. b \in {b, b + 1} /\ b + 1 \in {b, b + 1}
  BY SMT
<1>6. QED
  BY <1>4, <1>5 DEF r

(* The first frame: the first chunk, or no chunk. *)
LEMMA NumberedTail ==
  ASSUME NEW S, NEW q \in Seq(S), q # <<>>, NEW a \in Nat, NEW b \in Nat, Numbered(q, a, b)
  PROVE  /\ Head(q).cmd = "PSH" => Head(q).units = Chunk(a) /\ a < b /\ Numbered(Tail(q), a + 1, b)
         /\ Head(q).cmd # "PSH" => Numbered(Tail(q), a, b)
         /\ (\A j \in 1 .. Len(q) : q[j].cmd # "PSH") => a = b
<1> DEFINE l == Len(q)
           r == Tail(q)
<1>1. PICK f \in [0 .. l -> 0 .. b] : NumberedBy(q, a, b, f)
  BY DEF Numbered
<1>2. l \in Nat \ {0} /\ Len(r) = l - 1 /\ Head(q) = q[1] /\ \A i \in 1 .. l - 1 : r[i] = q[i + 1]
  BY SMT
<1>3. /\ f[0] = a /\ f[l] = b
      /\ \A i \in 1 .. l :
           IF q[i].cmd = "PSH" THEN q[i].units = Chunk(f[i - 1]) /\ f[i] = f[i - 1] + 1 ELSE f[i] = f[i - 1]
      /\ \A i \in 0 .. l : (\A j \in i + 1 .. l : q[j].cmd # "PSH") => f[i] = b
  BY <1>1 DEF NumberedBy
<1> HIDE DEF l, r
<1>4. Numbered(r, f[1], b)
  <2> DEFINE g == [i \in 0 .. l - 1 |-> f[i + 1]]
  <2>1. g \in [0 .. l - 1 -> 0 .. b] /\ \A i \in 0 .. l - 1 : g[i] = f[i + 1]
    BY SMT, <1>1, <1>2
  <2> HIDE DEF g
  <2>2. ASSUME NEW i \in 1 .. l - 1
        PROVE  IF r[i].cmd = "PSH" THEN r[i].units = Chunk(g[i - 1]) /\ g[i] = g[i - 1] + 1 ELSE g[i] = g[i - 1]
    <3>1. i + 1 \in 1 .. l /\ (i + 1) - 1 = i /\ i - 1 \in 0 .. l - 1 /\ i \in 0 .. l - 1 /\ (i - 1) + 1 = i
      BY SMT, <1>2
    <3>2. g[i - 1] = f[i] /\ g[i] = f[i + 1] /\ r[i] = q[i + 1]
      BY <1>2, <2>1, <3>1
    <3>3. QED
      BY <1>3, <3>1, <3>2
  <2>3. ASSUME NEW i \in 0 .. l - 1, \A j \in i + 1 .. l - 1 : r[j].cmd # "PSH"
        PROVE  g[i] = b
    <3>1. i + 1 \in 0 .. l
      BY SMT, <1>2
    <3>2. ASSUME NEW j \in (i + 1) + 1 .. l
          PROVE  q[j].cmd # "PSH"
      <4>1. j - 1 \in i + 1 .. l - 1 /\ j - 1 \in 1 .. l - 1 /\ (j - 1) + 1 = j
        BY SMT, <1>2
      <4>2. r[j - 1] = q[j]
        BY <1>2, <4>1
      <4>3. QED
        BY <2>3, <4>1, <4>2
    <3>3. QED
      BY <1>3, <2>1, <3>1, <3>2
  <2>4. g[0] = f[1] /\ g[l - 1] = b
    <3>1. 0 \in 0 .. l - 1 /\ l - 1 \in 0 .. l - 1 /\ 0 + 1 = 1 /\ (l - 1) + 1 = l
      BY SMT, <1>2
    <3>2. QED
      BY <1>3, <2>1, <3>1
  <2>5. NumberedBy(r, f[1], b, g)
    BY <1>2, <2>2, <2>3, <2>4 DEF NumberedBy
  <2>6. QED
    BY <1>2, <2>1, <2>5 DEF Numbered
<1>5. 1 \in 1 .. l /\ 1 - 1 = 0 /\ 1 \in 0 .. l /\ 0 \in 0 .. l /\ 0 + 1 = 1
  BY SMT, <1>2
<1>6. IF q[1].cmd = "PSH" THEN q[1].units = Chunk(a) /\ f[1] = a + 1 ELSE f[1] = a
  <2>1. IF q[1].cmd = "PSH" THEN q[1].units = Chunk(f[1 - 1]) /\ f[1] = f[1 - 1] + 1 ELSE f[1] = f[1 - 1]
    BY <1>3, <1>5
  <2>2. QED
    BY <1>3, <1>5, <2>1
<1>7. f[1] = a + 1 => a < b
  <2>1. f[1] \in 0 .. b
    BY <1>1, <1>5
  <2>2. QED
    BY SMT, <2>1
<1>8. (\A j \in 1 .. l : q[j].cmd # "PSH") => a = b
  <2>1. (\A j \in 0 + 1 .. l : q[j].cmd # "PSH") => f[0] = b
    BY <1>3, <1>5
  <2>2. QED
    BY <1>3, <1>5, <2>1
<1>9. QED
  BY <1>2, <1>4, <1>6, <1>7, <1>8 DEF l, r

-----------------------------------------------------------------------------
(* What the operations of a stream do to the chunks on their way.          *)

(* The queue stays, and the pipe or the stream may be closed. *)
LEMMA FlowSame ==
  ASSUME NEW p, NEW h, NEW q, NEW live, NEW n, NEW e, Flow(p, h, q, live, n, e),
         NEW p2, p2.queue = p.queue, CanWrite(p2) => CanWrite(p),
         NEW live2, NEW q2, live2 => live /\ q2 = q
  PROVE  Flow(p2, h, q2, live2, n, e)
BY DEF Flow, Queued, Behind

(* The queue is given up. *)
LEMMA FlowGone ==
  ASSUME NEW p, NEW h, NEW q, NEW live, NEW n, NEW e, p.queue = <<>>, ~CanWrite(p)
  PROVE  Flow(p, h, q, live, n, e)
<1>1. Len(<<>>) = 0
  BY SMT
<1>2. \A i \in 1 .. 0 : FALSE
  BY SMT
<1>3. Queued(p, n, e)
  BY <1>1, <1>2 DEF Queued
<1>4. QED
  BY <1>3 DEF Flow

-----------------------------------------------------------------------------
(* The two directions of the tunnel.                                       *)

(* Payloads that arrive for s reach its stream, or will once SYN, which is *)
(* the first frame then, has opened it.                                    *)
Live(s) == ~closed[s] /\ (mapped[s] \/ (net[s] # <<>> /\ Head(net[s]).cmd = "SYN"))

SideFlow(s, n, e) == Flow(pipe[s], holding[s], net[s], Live(s), n, e)

(* A step leaves the numbers of the chunks on their way as they are. *)
Keeps == \A s \in Sides : \A n, e \in Nat : SideFlow(s, n, e) => SideFlow(s, n, e)'

(* SYN comes first, and is there only until the stream is opened. *)
SynFirst == \A s \in Sides : \A i \in 1 .. Len(net[s]) : net[s][i].cmd = "SYN" => i = 1 /\ hand = "new"

(* What a sequence loses with its head, and gains with a new last element. *)
LEMMA TailElements ==
  ASSUME NEW S, NEW q \in Seq(S), q # <<>>
  PROVE  /\ \A i \in 1 .. Len(Tail(q)) : i + 1 \in 1 .. Len(q) /\ Tail(q)[i] = q[i + 1] /\ i + 1 # 1
         /\ \A i \in 1 .. Len(Tail(q)) : \A j \in i + 1 .. Len(Tail(q)) : j + 1 \in (i + 1) + 1 .. Len(q)
         /\ \A i \in 1 .. Len(Tail(q)) : \A j \in i + 1 .. Len(Tail(q)) : j \in 1 .. Len(Tail(q))
         /\ Tail(q) # <<>> => Head(Tail(q)) = q[2] /\ 2 \in 1 .. Len(q) /\ 2 # 1
         /\ Head(q) = q[1] /\ 1 \in 1 .. Len(q) /\ Head(q) \in S /\ Tail(q) \in Seq(S)
<1> DEFINE l == Len(q)
           r == Tail(q)
<1>1. l \in Nat \ {0} /\ Len(r) = l - 1 /\ \A i \in 1 .. l - 1 : r[i] = q[i + 1]
  BY SMT
<1>2. r # <<>> => l - 1 # 0 /\ Head(r) = r[1]
  BY SMT
<1>3. Head(q) = q[1] /\ Head(q) \in S /\ Tail(q) \in Seq(S)
  BY SMT
<1> HIDE DEF l, r
<1>4. r # <<>> => Head(r) = q[2] /\ 2 \in 1 .. l /\ 2 # 1
  BY SMT, <1>1, <1>2
<1>5. /\ \A i \in 1 .. l - 1 : i + 1 \in 1 .. l /\ r[i] = q[i + 1] /\ i + 1 # 1
      /\ \A i \in 1 .. l - 1 : \A j \in i + 1 .. l - 1 : j + 1 \in (i + 1) + 1 .. l
      /\ \A i \in 1 .. l - 1 : \A j \in i + 1 .. l - 1 : j \in 1 .. l - 1
      /\ 1 \in 1 .. l
  BY SMT, <1>1
<1>6. QED
  BY <1>1, <1>3, <1>4, <1>5 DEF l, r

(* The elements of a sequence with one more behind it, and their pairs. *)
LEMMA AppendElements ==
  ASSUME NEW S, NEW q \in Seq(S), NEW x \in S
  PROVE  /\ Append(q, x) \in Seq(S) /\ Append(q, x) # <<>> /\ Len(Append(q, x)) = Len(q) + 1
         /\ \A i \in 1 .. Len(Append(q, x)) : (i \in 1 .. Len(q) /\ Append(q, x)[i] = q[i])
                                           \/ (i = Len(q) + 1 /\ Append(q, x)[i] = x)
         /\ \A i \in 1 .. Len(Append(q, x)) : \A j \in i + 1 .. Len(Append(q, x)) :
              \/ i \in 1 .. Len(q) /\ j \in 1 .. Len(q) /\ j \in i + 1 .. Len(q) /\ Append(q, x)[j] = q[j]
              \/ i \in 1 .. Len(q) /\ Append(q, x)[j] = x
         /\ q # <<>> => Head(Append(q, x)) = Head(q)
         /\ q = <<>> => Head(Append(q, x)) = x
<1> DEFINE l == Len(q)
           r == Append(q, x)
<1>1. l \in Nat /\ Len(r) = l + 1 /\ r[l + 1] = x /\ \A i \in 1 .. l : r[i] = q[i]
  BY SMT
<1>2. r \in Seq(S) /\ r # <<>>
  <2>1. r \in Seq(S)
    BY SMT
  <2>2. ASSUME r = <<>>
        PROVE  FALSE
    <3>1. Len(r) = 0
      BY SMT, <2>2, NoElement
    <3> HIDE DEF l, r
    <3>2. QED
      BY SMT, <1>1, <3>1
  <2>3. QED
    BY <2>1, <2>2
<1>3. (q # <<>> => Head(r) = Head(q)) /\ (q = <<>> => Head(r) = x)
  <2>1. Head(r) = r[1]
    BY SMT, <1>2
  <2>2. q # <<>> => l # 0 /\ Head(q) = q[1]
    BY SMT
  <2>3. q = <<>> => l = 0
    BY SMT
  <2> HIDE DEF l, r
  <2>4. l # 0 => r[1] = q[1]
    BY SMT, <1>1
  <2>5. l = 0 => r[1] = x
    BY SMT, <1>1
  <2>6. QED
    BY <2>1, <2>2, <2>3, <2>4, <2>5
<1> HIDE DEF l, r
<1>4. \A i \in 1 .. l + 1 : (i \in 1 .. l /\ r[i] = q[i]) \/ (i = l + 1 /\ r[i] = x)
  BY SMT, <1>1
<1>5. \A i \in 1 .. l + 1 : \A j \in i + 1 .. l + 1 :
              \/ i \in 1 .. l /\ j \in 1 .. l /\ j \in i + 1 .. l /\ r[j] = q[j]
              \/ i \in 1 .. l /\ r[j] = x
  BY SMT, <1>1
<1>6. QED
  BY <1>1, <1>2, <1>3, <1>4, <1>5 DEF l, r

(* What the proof takes from the invariants for each side. *)
LEMMA SideTypes ==
  ASSUME IInv, NEW s \in Sides
  PROVE  /\ pipe[s] \in Pipe /\ EndsMarked(pipe[s]) /\ net[s] \in Seq(Frames) /\ holding[s] \in Seq(Int)
         /\ closed[s] \in BOOLEAN /\ mapped[s] \in BOOLEAN
BY DEF IInv, TypeInv, SideInv

(* A side that a step does not touch. *)
LEMMA SideAlone ==
  ASSUME NEW s \in Sides, NEW n, NEW e, SideFlow(s, n, e),
         pipe'[s] = pipe[s], holding'[s] = holding[s], net'[s] = net[s], closed'[s] = closed[s], mapped'[s] = mapped[s]
  PROVE  SideFlow(s, n, e)'
BY DEF SideFlow, Live

(* A frame is sent to s. *)
LEMMA SideSent ==
  IInv =>
    \A s \in Sides, n, e \in Nat, frame \in Replies :
      /\ SideFlow(s, n, e) /\ net'[s] = Append(net[s], frame)
      /\ pipe'[s] = pipe[s] /\ holding'[s] = holding[s] /\ closed'[s] = closed[s] /\ mapped'[s] = mapped[s]
      => /\ frame.cmd # "PSH" => SideFlow(s, n, e)'
         /\ frame.cmd = "PSH" /\ frame.units = Chunk(e) => SideFlow(s, n, e + 1)'
(* A frame is sent. *)
<1>1. ASSUME NEW S, NEW p \in Pipe, NEW h, NEW q \in Seq(S), NEW live, NEW n \in Nat, NEW e \in Nat,
             Flow(p, h, q, live, n, e), NEW live2, live2 => live, NEW frame \in S
      PROVE  /\ frame.cmd = "PSH" /\ frame.units = Chunk(e) => Flow(p, h, Append(q, frame), live2, n, e + 1)
             /\ frame.cmd # "PSH" => Flow(p, h, Append(q, frame), live2, n, e)
  <2> USE <1>1
  <2>1. Len(p.queue) \in Nat /\ Behind(p, h, n) \in Nat
    BY SMT DEF Pipe, Behind
  <2>2. /\ Queued(p, n, e)
        /\ CanWrite(p) /\ h # <<>> => h = Chunk(n + Len(p.queue)) /\ n + Len(p.queue) < e
        /\ CanWrite(p) /\ live2 => Numbered(q, Behind(p, h, n), e)
    BY DEF Flow
  <2>3. Queued(p, n, e + 1)
    <3> DEFINE l == Len(p.queue)
    <3>1. l \in Nat /\ \A i \in 1 .. l : n + i <= e => n + i <= e + 1
      BY SMT, <2>1
    <3>2. QED
      BY <2>2, <3>1 DEF Queued
  <2>4. n + Len(p.queue) < e => n + Len(p.queue) < e + 1
    BY SMT, <2>1
  <2>5. CanWrite(p) /\ live2 =>
          /\ frame.cmd = "PSH" /\ frame.units = Chunk(e) => Numbered(Append(q, frame), Behind(p, h, n), e + 1)
          /\ frame.cmd # "PSH" => Numbered(Append(q, frame), Behind(p, h, n), e)
    BY <2>1, <2>2, NumberedAppend
  <2>6. QED
    BY <2>2, <2>3, <2>4, <2>5 DEF Flow

(* The head of a sequence of frames is the new one only if it was empty. *)
<1>2. \A q \in Seq(Frames) : \A x \in Frames : (q # <<>> /\ Head(Append(q, x)) = Head(q)) \/ Head(Append(q, x)) = x
  <2>1. ASSUME NEW q \in Seq(Frames), NEW x \in Frames
        PROVE  (q # <<>> => Head(Append(q, x)) = Head(q)) /\ (q = <<>> => Head(Append(q, x)) = x)
    <3>1. q # <<>> => Head(Append(q, x)) = Head(q)
      BY ZenonT(60), AppendElements
    <3>2. q = <<>> => Head(Append(q, x)) = x
      BY ZenonT(60), AppendElements
    <3>3. QED
      BY <3>1, <3>2
  <2>2. QED
    BY <2>1

<1>3. ASSUME IInv, NEW s \in Sides, NEW n \in Nat, NEW e \in Nat, SideFlow(s, n, e), NEW frame \in Replies,
             pipe'[s] = pipe[s], holding'[s] = holding[s], closed'[s] = closed[s], mapped'[s] = mapped[s],
             net'[s] = Append(net[s], frame)
      PROVE  /\ frame.cmd # "PSH" => SideFlow(s, n, e)'
             /\ frame.cmd = "PSH" /\ frame.units = Chunk(e) => SideFlow(s, n, e + 1)'
  <2> USE <1>3
  <2>0. pipe[s] \in Pipe /\ net[s] \in Seq(Frames) /\ frame \in Frames /\ frame.cmd # "SYN"
    BY SideTypes DEF Replies, Frames
  <2>1. Flow(pipe[s], holding[s], net[s], Live(s), n, e)
    BY DEF SideFlow
  <2>2. Live(s)' => Live(s)
    <3>1. (net[s] # <<>> /\ Head(Append(net[s], frame)) = Head(net[s])) \/ Head(Append(net[s], frame)) = frame
      BY <2>0, <1>2
    <3>2. QED
      BY <2>0, <3>1 DEF Live
  <2>3. /\ frame.cmd = "PSH" /\ frame.units = Chunk(e) => Flow(pipe[s], holding[s], Append(net[s], frame), Live(s)', n, e + 1)
        /\ frame.cmd # "PSH" => Flow(pipe[s], holding[s], Append(net[s], frame), Live(s)', n, e)
    BY <2>0, <2>1, <2>2, <1>1
  <2>4. QED
    BY <2>3 DEF SideFlow
<1>4. QED
  BY ZenonT(30), <1>3

(* What Send does to the frames under way. *)
LEMMA SendEffect ==
  ASSUME IInv, NEW s \in Sides, NEW frame, Send(s, frame)
  PROVE  /\ Peer(s) \in Sides /\ Peer(s) # s /\ net'[s] = net[s]
         /\ lost => net' = net
         /\ ~lost => net'[Peer(s)] = Append(net[Peer(s)], frame)
         /\ \A t \in Sides : t = s \/ t = Peer(s)
BY DEF Send, IInv, TypeInv, Sides, Peer

-----------------------------------------------------------------------------
(* Reads.                                                                  *)

(* The parts of the chunks that a read returns. *)
LEMMA ChunkParts ==
  /\ Len(Address) = 2 /\ SubSeq(Address, 1, 1) = <<Atyp>> /\ SubSeq(Address, 2, 2) = <<Rest>>
  /\ \A k : Len(<<k>>) = 1 /\ <<k>> # <<>> /\ SubSeq(<<k>>, 1, 1) = <<k>> /\ SubSeq(<<k>>, 2, 1) = <<>>
  /\ <<>> \o <<>> = <<>> /\ <<>> \o <<Rest>> = <<Rest>> /\ 1 < 2 /\ ~(2 < 1) /\ ~(1 < 1) /\ ~(2 < 2)
  /\ 1 + 1 = 2
(* One element of a sequence, and none. *)
<1>1. ASSUME NEW S, NEW q \in Seq(S), NEW i \in 1 .. Len(q)
      PROVE  SubSeq(q, i, i) = <<q[i]>> /\ SubSeq(q, Len(q) + 1, Len(q)) = <<>>
  <2> USE <1>1
  <2> DEFINE l == SubSeq(q, i, i)
             r == <<q[i]>>
  <2>1. Len(q) \in Nat /\ i \in Int /\ q[i] \in S
    BY SMT
  <2>2. l \in Seq(S) /\ Len(l) = 1 /\ l[1] = q[i]
    BY SMT, <2>1
  <2>3. r \in Seq(S) /\ Len(r) = 1 /\ r[1] = q[i]
    BY SMT, <2>1
  <2> HIDE DEF l, r
  <2>4. l = r
    <3>1. \A j \in 1 .. Len(l) : l[j] = r[j]
      BY SMT, <2>2, <2>3
    <3>2. QED
      BY SMT, <2>2, <2>3, <3>1
  <2>5. SubSeq(q, Len(q) + 1, Len(q)) = <<>>
    <3>1. Len(q) + 1 \in Int /\ Len(q) \in Int /\ Len(q) < Len(q) + 1
      BY SMT, <2>1
    <3>2. QED
      BY SMT, <3>1
  <2>6. QED
    BY <2>4, <2>5 DEF l, r

<1>2. 1 < 2 /\ ~(2 < 1) /\ ~(1 < 1) /\ ~(2 < 2) /\ 1 + 1 = 2 /\ 1 \in 1 .. 1 /\ 1 \in 1 .. 2 /\ 2 \in 1 .. 2
  BY SMT
<1>3. Address \in Seq(Int) /\ Len(Address) = 2 /\ Address[1] = Atyp /\ Address[2] = Rest
  BY SMT DEF Address, Atyp, Rest
<1>4. SubSeq(Address, 1, 1) = <<Atyp>> /\ SubSeq(Address, 2, 2) = <<Rest>>
  BY <1>2, <1>3, <1>1
<1>5. ASSUME NEW k
      PROVE  Len(<<k>>) = 1 /\ <<k>> # <<>> /\ SubSeq(<<k>>, 1, 1) = <<k>> /\ SubSeq(<<k>>, 2, 1) = <<>>
  <2>1. <<k>> \in Seq({k}) /\ Len(<<k>>) = 1 /\ <<k>>[1] = k /\ <<k>> # <<>>
    BY SMT
  <2>2. SubSeq(<<k>>, 1, 1) = <<<<k>>[1]>> /\ SubSeq(<<k>>, Len(<<k>>) + 1, Len(<<k>>)) = <<>>
    BY <1>2, <2>1, <1>1
  <2>3. QED
    BY <1>2, <2>1, <2>2
<1>6. <<>> \o <<>> = <<>> /\ <<>> \o <<Rest>> = <<Rest>>
  <2>1. <<>> \in Seq(Int) /\ <<Rest>> \in Seq(Int)
    BY SMT DEF Rest
  <2>2. QED
    BY SMT, <2>1
<1>7. QED
  BY <1>2, <1>3, <1>4, <1>5, <1>6

(* The second section, a its answer: one chunk, a part of the address, or  *)
(* the end.                                                                *)
EventTaken(p, m, a) ==
  /\ a.kind = Head(p.queue).kind /\ a.pipe.queue = Tail(p.queue)
  /\ CanWrite(a.pipe) => CanWrite(p)
  /\ Head(p.queue).kind # "data" => ~CanWrite(a.pipe) /\ a.pipe.buffer = <<>>
  /\ Head(p.queue).kind = "data" =>
       /\ a.pipe.closed = p.closed /\ a.pipe.sender = p.sender
       /\ \A k : Head(p.queue).units = <<k>> => a.units = <<k>> /\ a.pipe.buffer = <<>>
       /\ Head(p.queue).units = Address /\ m = 1 => a.units = <<Atyp>> /\ a.pipe.buffer = <<Rest>>

(* A read that finds its answer in the pipe. *)
LEMMA SideNow ==
  IInv =>
    \A s \in Sides, m \in {1, Whole} :
      /\ TakeAnswer(s, m) /\ fut[s] = 0 /\ (pipe[s].buffer = <<>> \/ pipe[s].buffer = <<Rest>>)
      /\ UNCHANGED <<closed, mapped, net, holding>>
      => /\ Keeps /\ \A t \in Sides \ {s} : pipe'[t] = pipe[t]
         /\ pipe'[s].buffer = <<>> /\ pipe'[s].queue = pipe[s].queue
         /\ pipe[s].buffer = <<>> => Answer(s, m).kind = "eof" /\ pipe'[s] = pipe[s] /\ AtEnd(pipe[s])
         /\ pipe[s].buffer # <<>> => Answer(s, m).kind = "data" /\ Answer(s, m).units = <<Rest>>
(* The first section of a read that answers: what retrieve left in the     *)
(* buffer, or the end.                                                     *)
<1>1. ASSUME NEW p \in Pipe, p.buffer = <<>> \/ p.buffer = <<Rest>>, NEW m \in {1, Whole}
      PROVE  /\ ReadNow(p, m).pipe.queue = p.queue /\ ReadNow(p, m).pipe.buffer = <<>>
             /\ CanWrite(ReadNow(p, m).pipe) = CanWrite(p)
             /\ p.buffer = <<>> => ReadNow(p, m).kind = "eof" /\ ReadNow(p, m).pipe = p
             /\ p.buffer # <<>> => ReadNow(p, m).kind = "data" /\ ReadNow(p, m).units = <<Rest>>
  <2> USE <1>1
  <2>1. CASE p.buffer = <<>>
    BY <2>1 DEF ReadNow
  <2>2. CASE p.buffer = <<Rest>>
    <3>1. Least(m, <<Rest>>) = 1
      BY ChunkParts DEF Least, Whole
    <3>2. /\ ReadNow(p, m).kind = "data" /\ ReadNow(p, m).units = SubSeq(p.buffer, 1, Least(m, p.buffer))
          /\ ReadNow(p, m).pipe = [p EXCEPT !.buffer = SubSeq(p.buffer, Least(m, p.buffer) + 1, Len(p.buffer))]
      BY <2>2, ChunkParts DEF ReadNow, Pipe
    <3>3. /\ SubSeq(p.buffer, 1, Least(m, p.buffer)) = <<Rest>>
          /\ SubSeq(p.buffer, Least(m, p.buffer) + 1, Len(p.buffer)) = <<>>
      <4>1. Least(m, p.buffer) = 1 /\ Len(p.buffer) = 1
        BY <2>2, <3>1, ChunkParts
      <4>2. QED
        BY <2>2, <4>1, ChunkParts
    <3>4. QED
      BY <2>2, <3>2, <3>3, ChunkParts DEF Pipe, CanWrite
  <2>3. QED
    BY <2>1, <2>2

<1>2. ASSUME IInv, NEW s \in Sides, NEW m \in {1, Whole}, TakeAnswer(s, m), fut[s] = 0,
             pipe[s].buffer = <<>> \/ pipe[s].buffer = <<Rest>>, UNCHANGED <<closed, mapped, net, holding>>
      PROVE  /\ Keeps /\ \A t \in Sides \ {s} : pipe'[t] = pipe[t]
             /\ pipe'[s].buffer = <<>> /\ pipe'[s].queue = pipe[s].queue
             /\ pipe[s].buffer = <<>> => Answer(s, m).kind = "eof" /\ pipe'[s] = pipe[s] /\ AtEnd(pipe[s])
             /\ pipe[s].buffer # <<>> => Answer(s, m).kind = "data" /\ Answer(s, m).units = <<Rest>>
  <2> USE <1>2
  <2>1. pipe[s] \in Pipe /\ pipe \in [Sides -> Pipe]
    BY SideTypes DEF IInv, TypeInv
  <2>2. Answer(s, m) = ReadNow(pipe[s], m) /\ ReadsNow(pipe[s])
    BY DEF Answer, TakeAnswer, Answers
  <2>3. pipe'[s] = ReadNow(pipe[s], m).pipe /\ \A t \in Sides \ {s} : pipe'[t] = pipe[t]
    BY <2>1, <2>2 DEF TakeAnswer
  <2>4. /\ ReadNow(pipe[s], m).pipe.queue = pipe[s].queue /\ ReadNow(pipe[s], m).pipe.buffer = <<>>
        /\ CanWrite(ReadNow(pipe[s], m).pipe) = CanWrite(pipe[s])
        /\ pipe[s].buffer = <<>> => ReadNow(pipe[s], m).kind = "eof" /\ ReadNow(pipe[s], m).pipe = pipe[s]
        /\ pipe[s].buffer # <<>> => ReadNow(pipe[s], m).kind = "data" /\ ReadNow(pipe[s], m).units = <<Rest>>
    BY <2>1, <1>1
  <2>5. ASSUME NEW t \in Sides, NEW n \in Nat, NEW e \in Nat, SideFlow(t, n, e)
        PROVE  SideFlow(t, n, e)'
    <3>1. CASE t # s
      BY <2>3, <2>5, <3>1, SideAlone
    <3>2. CASE t = s
      <4>1. Flow(pipe[s], holding[s], net[s], Live(s), n, e) /\ Live(s)' = Live(s)
        BY <2>5, <3>2 DEF SideFlow, Live
      <4>2. Flow(pipe'[s], holding[s], net[s], Live(s)', n, e)
        BY ZenonT(30), <2>3, <2>4, <4>1, FlowSame
      <4>3. QED
        BY <3>2, <4>2 DEF SideFlow
    <3>3. QED
      BY <3>1, <3>2
  <2>6. Keeps
    BY <2>5 DEF Keeps
  <2>7. QED
    BY <2>2, <2>3, <2>4, <2>6 DEF ReadsNow
<1>3. QED
  BY <1>2

(* A read that waited, and gets its event. *)
LEMMA SideEvent ==
  IInv =>
    \A s \in Sides, m \in {1, Whole}, n, e \in Nat :
      /\ TakeAnswer(s, m) /\ fut[s] \in {1, Whole} /\ pipe[s].buffer = <<>>
      /\ UNCHANGED <<closed, mapped, net, holding>> /\ SideFlow(s, n, e)
      => /\ \A t \in Sides \ {s} : pipe'[t] = pipe[t]
         /\ Answer(s, m).kind = "data" =>
              /\ n < e /\ SideFlow(s, n + 1, e)'
              /\ pipe[s].queue # <<>> /\ pipe'[s].queue = Tail(pipe[s].queue)
              /\ pipe'[s].closed = pipe[s].closed /\ pipe'[s].sender = pipe[s].sender
              /\ n # 0 => Answer(s, m).units = <<n>> /\ pipe'[s].buffer = <<>>
              /\ n = 0 /\ fut[s] = 1 => Answer(s, m).units = <<Atyp>> /\ pipe'[s].buffer = <<Rest>>
         /\ Answer(s, m).kind # "data" =>
              /\ SideFlow(s, n, e)' /\ pipe'[s].buffer = <<>>
              /\ \/ pipe'[s] = pipe[s] /\ pipe[s].queue = <<>> /\ ~pipe[s].sender /\ Answer(s, m).kind = "eof"
                 \/ /\ Len(pipe[s].queue) = 1 /\ pipe[s].queue # <<>> /\ pipe'[s].queue = <<>>
                    /\ Answer(s, m).kind = Head(pipe[s].queue).kind
(* A read takes the first event off the queue: the next chunk, or the end. *)
<1>1. ASSUME NEW p \in Pipe, p.queue # <<>>, NEW h, NEW q, NEW live, NEW n \in Nat, NEW e \in Nat,
             Flow(p, h, q, live, n, e), NEW r, r.queue = Tail(p.queue), CanWrite(r) => CanWrite(p)
      PROVE  /\ Head(p.queue).kind = "data" =>
                  Head(p.queue).units = Chunk(n) /\ n < e /\ Flow(r, h, q, live, n + 1, e)
             /\ Head(p.queue).kind # "data" =>
                  Len(p.queue) = 1 /\ r.queue = <<>> /\ (~CanWrite(r) => Flow(r, h, q, live, n, e))
  <2> USE <1>1
  <2> DEFINE l == Len(p.queue)
  <2>1. /\ p.queue \in Seq(Event) /\ l \in Nat \ {0} /\ Head(p.queue) = p.queue[1]
        /\ Len(r.queue) = l - 1 /\ \A i \in 1 .. l - 1 : r.queue[i] = p.queue[i + 1]
    BY SMT DEF Pipe
  <2>2. Queued(p, n, e)
    BY DEF Flow
  <2>3. 1 \in 1 .. l /\ n + 1 - 1 = n /\ (n + 1 <= e => n < e)
    BY SMT, <2>1
  <2>4. ASSUME Head(p.queue).kind = "data"
        PROVE  Head(p.queue).units = Chunk(n) /\ n < e /\ Flow(r, h, q, live, n + 1, e)
    <3>1. p.queue[1].units = Chunk(n + 1 - 1) /\ n + 1 <= e
      BY <2>1, <2>2, <2>3, <2>4 DEF Queued
    <3>2. Queued(r, n + 1, e)
      <4>1. ASSUME NEW i \in 1 .. l - 1
            PROVE  /\ r.queue[i].kind = "data" => r.queue[i].units = Chunk((n + 1) + i - 1) /\ (n + 1) + i <= e
                   /\ r.queue[i].kind # "data" => i = l - 1
        <5>1. /\ i + 1 \in 1 .. l /\ n + (i + 1) - 1 = (n + 1) + i - 1 /\ n + (i + 1) = (n + 1) + i
              /\ (i + 1 = l => i = l - 1)
          BY SMT, <2>1
        <5>2. /\ p.queue[i + 1].kind = "data" => p.queue[i + 1].units = Chunk(n + (i + 1) - 1) /\ n + (i + 1) <= e
              /\ p.queue[i + 1].kind # "data" => i + 1 = l
          BY <2>2, <5>1 DEF Queued
        <5>3. QED
          BY <2>1, <5>1, <5>2
      <4>2. QED
        BY <2>1, <4>1 DEF Queued
    <3>3. (n + 1) + Len(r.queue) = n + l
      <4> DEFINE m == Len(r.queue)
      <4>1. m = l - 1 /\ l \in Nat \ {0}
        BY <2>1
      <4> HIDE DEF m, l
      <4>2. (n + 1) + m = n + l
        BY SMT, <4>1
      <4>3. QED
        BY <4>2 DEF m, l
    <3>4. Behind(r, h, n + 1) = Behind(p, h, n)
      BY <3>3 DEF Behind
    <3>5. Head(p.queue).units = Chunk(n) /\ n < e
      <4>1. n + 1 - 1 = n
        BY SMT
      <4>2. p.queue[1].units = Chunk(n)
        BY SMT, <3>1, <4>1
      <4>3. QED
        BY <2>1, <2>3, <3>1, <4>2
    <3>6. CanWrite(r) /\ h # <<>> => h = Chunk((n + 1) + Len(r.queue)) /\ (n + 1) + Len(r.queue) < e
      <4>1. CanWrite(r) /\ h # <<>> => h = Chunk(n + l) /\ n + l < e
        BY DEF Flow
      <4>2. QED
        BY <3>3, <4>1
    <3>7. CanWrite(r) /\ live => Numbered(q, Behind(r, h, n + 1), e)
      BY <3>4 DEF Flow
    <3>8. QED
      BY <3>2, <3>5, <3>6, <3>7 DEF Flow
  <2>5. ASSUME Head(p.queue).kind # "data"
        PROVE  l = 1 /\ r.queue = <<>>
    <3>1. 1 = l
      BY <2>1, <2>2, <2>3, <2>5 DEF Queued
    <3>2. r.queue = <<>>
      <4>1. r.queue \in Seq(Event)
        BY SMT, <2>1
      <4>2. Len(r.queue) = 0
        BY SMT, <2>1, <3>1
      <4>3. QED
        BY <4>1, <4>2, NoElement
    <3>3. QED
      BY <3>1, <3>2
  <2>6. QED
    BY <2>4, <2>5, FlowGone

(* What a read gets from the head of the queue. *)
<1>2. ASSUME NEW p \in Pipe, p.buffer = <<>>, NEW m \in {1, Whole}, p.queue # <<>>
      PROVE  EventTaken(p, m, ReadEvent(p, m))
  <2> USE <1>2
  <2> DEFINE e == Head(p.queue)
             k == Least(m, e.units)
             rest == [p EXCEPT !.queue = Tail(@)]
  <2> DEFINE more == SubSeq(e.units, k + 1, Len(e.units))
  <2>2. /\ ReadEvent(p, m).kind = e.kind /\ ReadEvent(p, m).units = SubSeq(e.units, 1, k)
        /\ ReadEvent(p, m).pipe = IF e.kind = "data" THEN [rest EXCEPT !.buffer = @ \o more]
                                  ELSE [rest EXCEPT !.closed = TRUE, !.sender = FALSE]
    BY DEF ReadEvent
  <2> HIDE DEF e, k, more
  <2>3. CASE e.kind # "data"
    <3>1. /\ ReadEvent(p, m).pipe.queue = Tail(p.queue) /\ ReadEvent(p, m).pipe.closed
          /\ ReadEvent(p, m).pipe.buffer = p.buffer
      BY ZenonT(30), <2>2, <2>3 DEF Pipe
    <3>2. QED
      BY <2>2, <2>3, <3>1 DEF CanWrite, e, EventTaken
  <2>4. CASE e.kind = "data"
    <3>1. ReadEvent(p, m).pipe = [rest EXCEPT !.buffer = @ \o more]
      BY <2>2, <2>4
    <3>2. /\ ReadEvent(p, m).pipe.queue = Tail(p.queue) /\ ReadEvent(p, m).pipe.buffer = p.buffer \o more
          /\ ReadEvent(p, m).pipe.closed = p.closed /\ ReadEvent(p, m).pipe.sender = p.sender
          /\ ReadEvent(p, m).pipe.receiver = p.receiver /\ ReadEvent(p, m).pipe.endQueued = p.endQueued
      BY ZenonT(30), <3>1 DEF Pipe
    <3>3. ASSUME NEW u, e.units = <<u>>
          PROVE  ReadEvent(p, m).units = <<u>> /\ ReadEvent(p, m).pipe.buffer = <<>>
      <4>1. k = 1 /\ Len(e.units) = 1
        BY <3>3, ChunkParts DEF Least, Whole, k
      <4>2. more = <<>> /\ SubSeq(e.units, 1, k) = <<u>>
        BY <3>3, <4>1, ChunkParts DEF more
      <4>3. QED
        BY <2>2, <3>2, <4>2, ChunkParts
    <3>4. ASSUME e.units = Address, m = 1
          PROVE  ReadEvent(p, m).units = <<Atyp>> /\ ReadEvent(p, m).pipe.buffer = <<Rest>>
      <4>1. k = 1 /\ Len(e.units) = 2
        BY <3>4, ChunkParts DEF Least, k
      <4>2. more = <<Rest>> /\ SubSeq(e.units, 1, k) = <<Atyp>>
        BY <3>4, <4>1, ChunkParts DEF more
      <4>3. QED
        BY <2>2, <3>2, <4>2, ChunkParts
    <3>5. QED
      BY <2>2, <2>4, <3>2, <3>3, <3>4 DEF e, CanWrite, EventTaken
  <2>5. QED
    BY <2>3, <2>4

<1>3. ASSUME IInv, NEW s \in Sides, NEW m \in {1, Whole}, TakeAnswer(s, m), fut[s] \in {1, Whole},
             pipe[s].buffer = <<>>, UNCHANGED <<closed, mapped, net, holding>>,
             NEW n \in Nat, NEW e \in Nat, SideFlow(s, n, e)
      PROVE  /\ \A t \in Sides \ {s} : pipe'[t] = pipe[t]
             /\ Answer(s, m).kind = "data" =>
                  /\ n < e /\ SideFlow(s, n + 1, e)'
                  /\ pipe[s].queue # <<>> /\ pipe'[s].queue = Tail(pipe[s].queue)
                  /\ pipe'[s].closed = pipe[s].closed /\ pipe'[s].sender = pipe[s].sender
                  /\ n # 0 => Answer(s, m).units = <<n>> /\ pipe'[s].buffer = <<>>
                  /\ n = 0 /\ fut[s] = 1 => Answer(s, m).units = <<Atyp>> /\ pipe'[s].buffer = <<Rest>>
             /\ Answer(s, m).kind # "data" =>
                  /\ SideFlow(s, n, e)' /\ pipe'[s].buffer = <<>>
                  /\ \/ pipe'[s] = pipe[s] /\ pipe[s].queue = <<>> /\ ~pipe[s].sender /\ Answer(s, m).kind = "eof"
                     \/ /\ Len(pipe[s].queue) = 1 /\ pipe[s].queue # <<>> /\ pipe'[s].queue = <<>>
                        /\ Answer(s, m).kind = Head(pipe[s].queue).kind
  <2> USE <1>3
  <2> DEFINE p == pipe[s]
             r == ReadEvent(p, fut[s])
  <2>1. p \in Pipe /\ pipe \in [Sides -> Pipe]
    BY SideTypes DEF IInv, TypeInv
  <2>0. fut[s] # 0
    BY SMT DEF Whole
  <2>2. Answer(s, m) = r /\ ReadReady(p)
    BY <2>0 DEF Answer, TakeAnswer, Answers
  <2>3. pipe'[s] = r.pipe /\ \A t \in Sides \ {s} : pipe'[t] = pipe[t]
    BY <2>1, <2>2 DEF TakeAnswer
  <2>4. Flow(p, holding[s], net[s], Live(s), n, e) /\ Live(s)' = Live(s)
    BY DEF SideFlow, Live
  <2>5. CASE p.queue = <<>>
    <3>1. r.kind = "eof" /\ r.pipe = p
      BY <2>5 DEF ReadEvent
    <3>2. SideFlow(s, n, e)'
      BY <2>3, <3>1, SideAlone
    <3>3. QED
      BY <2>2, <2>3, <2>5, <3>1, <3>2 DEF ReadReady
  <2>6. CASE p.queue # <<>>
    <3>0. EventTaken(p, fut[s], r)
      BY <2>1, <2>6, <1>2
    <3> HIDE DEF p, r
    <3>1. /\ r.kind = Head(p.queue).kind /\ r.pipe.queue = Tail(p.queue) /\ (CanWrite(r.pipe) => CanWrite(p))
          /\ Head(p.queue).kind # "data" => ~CanWrite(r.pipe) /\ r.pipe.buffer = <<>>
          /\ Head(p.queue).kind = "data" =>
                /\ r.pipe.closed = p.closed /\ r.pipe.sender = p.sender
                /\ \A k : Head(p.queue).units = <<k>> => r.units = <<k>> /\ r.pipe.buffer = <<>>
                /\ Head(p.queue).units = Address /\ fut[s] = 1 => r.units = <<Atyp>> /\ r.pipe.buffer = <<Rest>>
      BY <3>0 DEF EventTaken
    <3>2. /\ Head(p.queue).kind = "data" =>
                Head(p.queue).units = Chunk(n) /\ n < e /\ Flow(r.pipe, holding[s], net[s], Live(s), n + 1, e)
          /\ Head(p.queue).kind # "data" =>
                Len(p.queue) = 1 /\ r.pipe.queue = <<>>
                /\ (~CanWrite(r.pipe) => Flow(r.pipe, holding[s], net[s], Live(s), n, e))
      BY <2>1, <2>4, <2>6, <3>1, <1>1
    <3>3. CASE r.kind = "data"
      <4>1. SideFlow(s, n + 1, e)'
        BY <2>3, <2>4, <3>1, <3>2, <3>3 DEF SideFlow
      <4>2. (n # 0 => Head(p.queue).units = <<n>>) /\ (n = 0 => Head(p.queue).units = Address)
        BY <3>1, <3>2, <3>3 DEF Chunk
      <4>3. QED
        BY <2>2, <2>3, <2>6, <3>1, <3>2, <3>3, <4>1, <4>2 DEF p
    <3>4. CASE r.kind # "data"
      <4>1. SideFlow(s, n, e)'
        BY <2>3, <2>4, <3>1, <3>2, <3>4 DEF SideFlow
      <4>2. QED
        BY <2>2, <2>3, <2>6, <3>1, <3>2, <3>4, <4>1 DEF p
    <3>5. QED
      BY <3>3, <3>4
  <2>7. QED
    BY <2>5, <2>6
<1>4. QED
  BY SMT, <1>3

-----------------------------------------------------------------------------
(* All steps.                                                              *)

(* The steps that neither send a piece or the address nor read. *)
Quiet ==
  \/ \E s \in Sides : Receiver(s) \/ Spawned(s)
  \/ C2pClose \/ C2pFin \/ C2pEnd \/ P2cWait
  \/ HandStep \/ HandWait
  \/ S2oTask \/ O2sTask \/ S2oWait \/ O2sEof
  \/ Lose \/ Deny \/ DestReset \/ UNCHANGED vars

(* The actions, grouped by what they do to the two directions. *)
LEMMA Steps ==
  [Next]_vars => Quiet \/ SendAddress \/ C2pRead \/ O2sRead \/ P2cRead \/ HandRead \/ S2oRead
BY DEF Next, Tasks, ClientTask, ClientReader, ClientInput, HandReader, RelayReader, DestInput, Quiet

(* None of them moves a chunk. *)
LEMMA QuietKeeps == IInv /\ SynFirst /\ Quiet => Keeps
(* No chunk is empty. *)
<1>1. \A k : Chunk(k) # <<>>
  <2>1. ASSUME NEW k
        PROVE  Chunk(k) # <<>>
    BY SMT DEF Chunk, Address
  <2>2. QED
    BY <2>1

(* A frame without a payload is received. *)
<1>2. ASSUME NEW S, NEW p \in Pipe, NEW h, NEW q \in Seq(S), q # <<>>, NEW live, NEW n \in Nat, NEW e \in Nat,
             Flow(p, h, q, live, n, e), NEW live2, live2 => live, Head(q).cmd # "PSH"
      PROVE  Flow(p, h, Tail(q), live2, n, e)
  <2> USE <1>2
  <2>1. Behind(p, h, n) \in Nat
    BY SMT DEF Pipe, Behind
  <2>2. CanWrite(p) /\ live2 => Numbered(Tail(q), Behind(p, h, n), e)
    BY <2>1, NumberedTail DEF Flow
  <2>3. QED
    BY <2>2 DEF Flow

(* A frame with a payload is received for a stream, or dropped. *)
<1>3. ASSUME NEW S, NEW p \in Pipe, NEW q \in Seq(S), q # <<>>, NEW live, NEW n \in Nat, NEW e \in Nat,
             Flow(p, <<>>, q, live, n, e), Head(q).cmd = "PSH"
      PROVE  /\ live => Flow(p, Head(q).units, Tail(q), live, n, e)
             /\ Flow(p, <<>>, Tail(q), FALSE, n, e)
  <2> USE <1>3
  <2> DEFINE l == Len(p.queue)
  <2>1. l \in Nat /\ Behind(p, <<>>, n) = n + l /\ n + l \in Nat
    BY SMT DEF Pipe, Behind
  <2>2. Queued(p, n, e)
    BY DEF Flow
  <2>3. ASSUME live, CanWrite(p)
        PROVE  Head(q).units = Chunk(n + l) /\ n + l < e /\ Numbered(Tail(q), (n + l) + 1, e)
    <3>1. Numbered(q, n + l, e)
      BY <2>1, <2>3 DEF Flow
    <3>2. QED
      BY <2>1, <3>1, NumberedTail
  <2>4. CanWrite(p) /\ live => Behind(p, Head(q).units, n) = (n + l) + 1
    <3>1. CanWrite(p) /\ live => Head(q).units # <<>>
      BY <2>3, <1>1
    <3>2. QED
      BY <3>1 DEF Behind
  <2>5. QED
    BY <2>2, <2>3, <2>4 DEF Flow

(* The payload received is written to the pipe, or dropped because the     *)
(* pipe takes none or the stream is closed.                                *)
<1>4. ASSUME NEW p \in Pipe, EndsMarked(p), NEW h \in Seq(Int), h # <<>>, NEW q, NEW live, NEW n \in Nat, NEW e \in Nat,
             Flow(p, h, q, live, n, e)
      PROVE  /\ CanWrite(p) => Flow(Write(p, h), <<>>, q, live, n, e)
             /\ ~CanWrite(p) => Flow(p, <<>>, q, live, n, e)
             /\ Flow(p, <<>>, q, FALSE, n, e)
  <2> USE <1>4
  <2> DEFINE l == Len(p.queue)
             r == Write(p, h)
  <2>1. p.queue \in Seq(Event) /\ Data(h) \in Event /\ Data(h).kind = "data" /\ Data(h).units = h
    BY DEF Pipe, Data, Event
  <2>2. r.queue = Append(p.queue, Data(h)) /\ (CanWrite(r) => CanWrite(p))
    BY DEF Write, Pipe, CanWrite
  <2> HIDE DEF r
  <2>3. /\ l \in Nat /\ Len(r.queue) = l + 1 /\ r.queue[l + 1] = Data(h)
        /\ \A i \in 1 .. l : r.queue[i] = p.queue[i]
    BY SMT, <2>1, <2>2, AppendLast
  <2>4. Queued(p, n, e)
    BY DEF Flow
  <2>5. ASSUME CanWrite(p)
        PROVE  Flow(r, <<>>, q, live, n, e)
    <3>1. h = Chunk(n + l) /\ n + l < e /\ (live => Numbered(q, (n + l) + 1, e))
      <4>1. Behind(p, h, n) = (n + l) + 1
        BY DEF Behind
      <4>2. QED
        BY <2>5, <4>1 DEF Flow
    <3>2. \A i \in 1 .. l : p.queue[i].kind = "data"
      BY <2>5 DEF EndsMarked, CanWrite
    <3> HIDE DEF l
    <3>3. Queued(r, n, e)
      <4>1. ASSUME NEW i \in 1 .. l + 1
            PROVE  /\ r.queue[i].kind = "data"
                   /\ r.queue[i].units = Chunk(n + i - 1) /\ n + i <= e
        <5>1. CASE i = l + 1
          <6>1. n + i - 1 = n + l /\ n + i <= e
            BY SMTT(30), <2>3, <3>1, <5>1
          <6>2. QED
            BY <2>1, <2>3, <3>1, <5>1, <6>1
        <5>2. CASE i # l + 1
          <6>1. i \in 1 .. l
            BY SMT, <2>3, <5>2
          <6>2. QED
            BY <2>3, <2>4, <3>2, <6>1 DEF Queued, l
        <5>3. QED
          BY <5>1, <5>2
      <4>2. QED
        BY <2>3, <4>1 DEF Queued
    <3>4. Behind(r, <<>>, n) = (n + l) + 1
      BY SMT, <2>3 DEF Behind
    <3>5. QED
      BY <3>1, <3>3, <3>4 DEF Flow
  <2>6. QED
    BY <2>4, <2>5 DEF Flow, r

(* finish_stream puts the end behind what is queued. *)
<1>5. ASSUME NEW p \in Pipe, EndsMarked(p), NEW kind \in {"eof", "error"}, NEW h, NEW q, NEW q2, NEW live,
             NEW n \in Nat, NEW e \in Nat, Flow(p, h, q, live, n, e)
      PROVE  Flow(FinishStream(p, kind), h, q2, FALSE, n, e)
  <2> USE <1>5
  <2> DEFINE l == Len(p.queue)
             r == FinishStream(p, kind)
  <2>1. CASE r = p
    BY <2>1, FlowSame
  <2>2. CASE r.queue = p.queue /\ r.endQueued
    BY <2>2, FlowSame DEF CanWrite
  <2>3. CASE ~p.endQueued /\ r.queue = Append(p.queue, StreamEnd(kind)) /\ r.endQueued
    <3>1. p.queue \in Seq(Event) /\ StreamEnd(kind) \in Event /\ StreamEnd(kind).kind = kind /\ kind # "data"
      BY SMTT(30) DEF Pipe, StreamEnd, Event
    <3> HIDE DEF r
    <3>2. /\ l \in Nat /\ Len(r.queue) = l + 1 /\ r.queue[l + 1] = StreamEnd(kind)
          /\ \A i \in 1 .. l : r.queue[i] = p.queue[i]
      BY SMT, <2>3, <3>1, AppendLast
    <3>3. \A i \in 1 .. l : p.queue[i].kind = "data"
      BY <2>3 DEF EndsMarked
    <3>4. Queued(p, n, e)
      BY DEF Flow
    <3>5. Queued(r, n, e)
      <4>1. ASSUME NEW i \in 1 .. l + 1
            PROVE  /\ r.queue[i].kind = "data" => r.queue[i].units = Chunk(n + i - 1) /\ n + i <= e
                   /\ r.queue[i].kind # "data" => i = l + 1
        <5>1. CASE i = l + 1
          BY <3>1, <3>2, <5>1
        <5>2. CASE i # l + 1
          <6>1. i \in 1 .. l
            BY SMT, <3>2, <5>2
          <6>2. QED
            BY <3>2, <3>3, <3>4, <6>1 DEF Queued
        <5>3. QED
          BY <5>1, <5>2
      <4>2. QED
        BY <3>2, <4>1 DEF Queued
    <3>6. QED
      BY <2>3, <3>5 DEF Flow, CanWrite, r
  <2>4. QED
    BY <2>1, <2>2, <2>3 DEF FinishStream, Pipe

(* Nothing is touched. *)
<1>6. ASSUME UNCHANGED <<closed, mapped, pipe, net, holding>>
      PROVE  Keeps
  BY <1>6, SideAlone DEF Keeps

(* The receive loop takes a frame. *)
<1>7. ASSUME IInv, SynFirst, NEW s \in Sides, StreamFrames(s)
      PROVE  Keeps
  <2> USE <1>7
  <2> SUFFICES ASSUME NEW t \in Sides, NEW n \in Nat, NEW e \in Nat, SideFlow(t, n, e)
               PROVE  SideFlow(t, n, e)'
    BY DEF Keeps
  <2>0. net \in [Sides -> Seq(Frames)] /\ mapped \in [Sides -> BOOLEAN] /\ closed \in [Sides -> BOOLEAN]
        /\ pipe \in [Sides -> Pipe] /\ holding \in [Sides -> Seq(Int)]
    BY DEF IInv, TypeInv
  <2>1. net[s] # <<>> /\ net' = Consumed(s) /\ net'[s] = Tail(net[s])
    <3>1. net[s] # <<>>
      BY DEF StreamFrames, ReceiveSyn, ReceivePsh, ReceiveEnd, ReceiveOther, Arrived
    <3>2. ReceiveSyn(s) => st[s].settings
      BY <3>1, ConsumedFacts DEF ReceiveSyn, Arrived, Sides, IInv, TypeInv
    <3>3. net' = Consumed(s)
      BY <3>2 DEF StreamFrames, ReceiveSyn, ReceivePsh, ReceiveEnd, ReceiveOther
    <3>4. QED
      BY <2>0, <3>1, <3>3 DEF Consumed
  <2>2. CASE t # s
    <3>1. net'[t] = net[t] /\ holding'[t] = holding[t]
      BY <2>0, <2>1, <2>2 DEF Consumed, StreamFrames, ReceiveSyn, ReceivePsh, ReceiveEnd, ReceiveOther
    <3>2. pipe'[t] = pipe[t] /\ mapped'[t] = mapped[t] /\ closed'[t] = closed[t]
      BY <2>0, <2>2 DEF StreamFrames, ReceiveSyn, ReceivePsh, ReceiveEnd, ReceiveOther, EndStream, streamVars
    <3>3. QED
      BY <3>1, <3>2, SideAlone
  <2>3. CASE t = s
    <3> DEFINE q == net[s]
    <3>1. q \in Seq(Frames) /\ pipe[s] \in Pipe /\ EndsMarked(pipe[s]) /\ holding[s] \in Seq(Int)
      BY SideTypes
    <3>2. /\ Tail(q) # <<>> => Head(Tail(q)).cmd # "SYN"
          /\ Flow(pipe[s], holding[s], q, Live(s), n, e)
      <4>1. Tail(q) # <<>> => Head(Tail(q)) = q[2] /\ 2 \in 1 .. Len(q) /\ 2 # 1
        BY <2>1, <3>1, TailElements
      <4>2. QED
        BY <2>3, <4>1 DEF SynFirst, SideFlow
    <3>3. CASE ReceiveSyn(s)
      <4>1. /\ Head(q).cmd = "SYN" /\ pipe' = pipe /\ holding' = holding /\ closed' = closed
        BY <3>3 DEF ReceiveSyn, Arrived
      <4>2. Live(s)' => Live(s) /\ Head(q).cmd # "PSH"
        BY <2>1, <4>1 DEF Live
      <4>3. Flow(pipe[s], holding[s], Tail(q), Live(s)', n, e)
        BY <2>1, <3>1, <3>2, <4>1, <4>2, <1>2
      <4>4. QED
        BY <2>1, <2>3, <4>1, <4>3 DEF SideFlow
    <3>4. CASE ReceivePsh(s)
      <4>1. /\ Head(q).cmd = "PSH" /\ pipe' = pipe /\ closed' = closed /\ mapped' = mapped /\ holding[s] = <<>>
            /\ holding'[s] = IF mapped[s] /\ ~closed[s] THEN Head(q).units ELSE <<>>
        BY <2>0, <3>4 DEF ReceivePsh, Arrived, streamVars
      <4>2. (Live(s) <=> mapped[s] /\ ~closed[s]) /\ (Live(s)' <=> mapped[s] /\ ~closed[s])
        BY <2>1, <3>2, <4>1 DEF Live
      <4>3. CASE mapped[s] /\ ~closed[s]
        <5>1. Flow(pipe[s], Head(q).units, Tail(q), Live(s), n, e)
          BY <2>1, <3>1, <3>2, <4>1, <4>2, <4>3, <1>3
        <5>2. Flow(pipe[s], Head(q).units, Tail(q), Live(s)', n, e)
          BY <4>2, <4>3, <5>1 DEF Flow
        <5>3. QED
          BY <2>1, <2>3, <4>1, <4>3, <5>2 DEF SideFlow
      <4>4. CASE ~(mapped[s] /\ ~closed[s])
        <5>1. Flow(pipe[s], <<>>, Tail(q), FALSE, n, e)
          BY <2>1, <3>1, <3>2, <4>1, <1>3
        <5>2. Flow(pipe[s], <<>>, Tail(q), Live(s)', n, e)
          BY <4>2, <4>4, <5>1 DEF Flow
        <5>3. QED
          BY <2>1, <2>3, <4>1, <4>4, <5>2 DEF SideFlow
      <4>5. QED
        BY <4>3, <4>4
    <3>5. CASE ReceiveEnd(s)
      <4> DEFINE kind == IF Head(net[s]).cmd = "FIN" THEN "eof" ELSE "error"
      <4>1. kind \in {"eof", "error"} /\ holding' = holding /\ EndStream(s, kind)
        BY <3>5 DEF ReceiveEnd
      <4> HIDE DEF kind
      <4>2. ~mapped'[s] /\ pipe'[s] = IF mapped[s] THEN FinishStream(pipe[s], kind) ELSE pipe[s]
        BY <2>0, <4>1 DEF EndStream
      <4>3. ~Live(s)'
        BY <2>1, <3>2, <4>2 DEF Live
      <4>4. Flow(FinishStream(pipe[s], kind), holding[s], Tail(q), FALSE, n, e)
        BY <3>1, <3>2, <4>1, <1>5
      <4>5. Flow(pipe[s], holding[s], Tail(q), FALSE, n, e)
        BY <3>2, FlowSame
      <4>6. Flow(pipe'[s], holding[s], Tail(q), FALSE, n, e)
        BY <4>2, <4>4, <4>5
      <4>7. Flow(pipe'[s], holding[s], Tail(q), Live(s)', n, e)
        BY <4>3, <4>6 DEF Flow
      <4>8. QED
        BY <2>1, <2>3, <4>1, <4>7 DEF SideFlow
    <3>6. CASE ReceiveOther(s)
      <4>1. Head(q).cmd # "PSH" /\ Head(q).cmd # "SYN" /\ UNCHANGED <<pipe, closed, mapped, holding>>
        BY <3>6 DEF ReceiveOther, Arrived, streamVars
      <4>2. Live(s)' => Live(s)
        BY <2>1, <3>2, <4>1 DEF Live
      <4>3. Flow(pipe[s], holding[s], Tail(q), Live(s)', n, e)
        BY <2>1, <3>1, <3>2, <4>1, <4>2, <1>2
      <4>4. QED
        BY <2>1, <2>3, <4>1, <4>3 DEF SideFlow
    <3>7. QED
      BY <3>3, <3>4, <3>5, <3>6 DEF StreamFrames
  <2>4. QED
    BY <2>2, <2>3

(* The payload it holds is pushed, or dropped. *)
<1>8. ASSUME IInv, NEW s \in Sides, Push(s)
      PROVE  Keeps
  <2> USE <1>8
  <2> SUFFICES ASSUME NEW t \in Sides, NEW n \in Nat, NEW e \in Nat, SideFlow(t, n, e)
               PROVE  SideFlow(t, n, e)'
    BY DEF Keeps
  <2>0. /\ pipe \in [Sides -> Pipe] /\ holding \in [Sides -> Seq(Int)]
        /\ pipe[s] \in Pipe /\ EndsMarked(pipe[s]) /\ holding[s] \in Seq(Int) /\ holding[s] # <<>>
        /\ UNCHANGED <<closed, mapped, net>> /\ holding' = [holding EXCEPT ![s] = <<>>]
    BY SideTypes DEF IInv, TypeInv, Push
  <2>1. CASE t # s
    <3>1. pipe'[t] = pipe[t] /\ holding'[t] = holding[t]
      BY <2>0, <2>1 DEF Push
    <3>2. QED
      BY <2>0, <3>1, SideAlone
  <2>2. CASE t = s
    <3>1. Flow(pipe[s], holding[s], net[s], Live(s), n, e) /\ holding'[s] = <<>> /\ Live(s)' = Live(s)
      BY <2>0, <2>2 DEF SideFlow, Live
    <3>2. /\ CanWrite(pipe[s]) => Flow(Write(pipe[s], holding[s]), <<>>, net[s], Live(s), n, e)
          /\ ~CanWrite(pipe[s]) => Flow(pipe[s], <<>>, net[s], Live(s), n, e)
          /\ Flow(pipe[s], <<>>, net[s], FALSE, n, e)
      BY <2>0, <3>1, <1>4
    <3>3. CASE pipe' = [pipe EXCEPT ![s] = IF CanWrite(@) THEN Write(@, holding[s]) ELSE @]
      <4>1. pipe'[s] = IF CanWrite(pipe[s]) THEN Write(pipe[s], holding[s]) ELSE pipe[s]
        BY <2>0, <3>3
      <4>2. QED
        BY <2>0, <2>2, <3>1, <3>2, <4>1 DEF SideFlow
    <3>4. CASE closed[s] /\ UNCHANGED pipe
      <4>1. ~Live(s)'
        BY <2>0, <3>4 DEF Live
      <4>2. Flow(pipe[s], <<>>, net[s], Live(s)', n, e)
        BY <3>2, <4>1 DEF Flow
      <4>3. QED
        BY <2>0, <2>2, <3>1, <3>4, <4>2 DEF SideFlow
    <3>5. QED
      BY <3>3, <3>4 DEF Push
  <2>3. QED
    BY <2>1, <2>2

(* The receive loop ends. *)
<1>9. ASSUME IInv, NEW s \in Sides, RunEnd(s)
      PROVE  Keeps
  <2> USE <1>9
  <2> SUFFICES ASSUME NEW t \in Sides, NEW n \in Nat, NEW e \in Nat, SideFlow(t, n, e)
               PROVE  SideFlow(t, n, e)'
    BY DEF Keeps
  <2>0. /\ pipe \in [Sides -> Pipe] /\ net \in [Sides -> Seq(Frames)]
        /\ closed \in [Sides -> BOOLEAN] /\ mapped \in [Sides -> BOOLEAN]
        /\ pipe[s] \in Pipe /\ EndsMarked(pipe[s])
        /\ holding' = holding /\ net' = [net EXCEPT ![s] = <<>>] /\ EndStream(s, "eof")
    BY SideTypes DEF IInv, TypeInv, RunEnd
  <2>1. CASE t # s
    <3>1. /\ pipe'[t] = pipe[t] /\ holding'[t] = holding[t] /\ net'[t] = net[t]
          /\ closed'[t] = closed[t] /\ mapped'[t] = mapped[t]
      BY <2>0, <2>1 DEF EndStream
    <3>2. QED
      BY <3>1, SideAlone
  <2>2. CASE t = s
    <3>1. /\ net'[s] = <<>> /\ ~mapped'[s]
          /\ pipe'[s] = IF mapped[s] THEN FinishStream(pipe[s], "eof") ELSE pipe[s]
      BY <2>0 DEF EndStream
    <3>2. ~Live(s)' /\ Flow(pipe[s], holding[s], net[s], Live(s), n, e)
      BY <2>2, <3>1 DEF Live, SideFlow
    <3>3. Flow(FinishStream(pipe[s], "eof"), holding[s], <<>>, FALSE, n, e)
      BY <2>0, <3>2, <1>5
    <3>4. Flow(pipe[s], holding[s], <<>>, FALSE, n, e)
      BY <3>2, FlowSame
    <3>5. Flow(pipe'[s], holding[s], <<>>, Live(s)', n, e)
      BY <3>1, <3>2, <3>3, <3>4 DEF Flow
    <3>6. QED
      BY <2>0, <2>2, <3>1, <3>5 DEF SideFlow
  <2>3. QED
    BY <2>1, <2>2

(* The stream or its pipe is closed on one side, or its reader dropped. *)
<1>10. ASSUME IInv, NEW s \in Sides, NEW n \in Nat, NEW e \in Nat, SideFlow(s, n, e),
              net'[s] = net[s], holding'[s] = holding[s],
              \/ CloseStream(s) /\ UNCHANGED pipe
              \/ ClosePipe(s)
              \/ Leave(s) /\ UNCHANGED <<closed, mapped>>
       PROVE  SideFlow(s, n, e)'
  <2> USE <1>10
  <2>0. /\ pipe \in [Sides -> Pipe] /\ closed \in [Sides -> BOOLEAN] /\ mapped \in [Sides -> BOOLEAN]
        /\ pipe[s] \in Pipe
    BY SideTypes DEF IInv, TypeInv
  <2>1. Flow(pipe[s], holding[s], net[s], Live(s), n, e)
    BY DEF SideFlow
  <2>2. Live(s)' => Live(s)
    BY <2>0 DEF Live, CloseStream, ClosePipe, Leave
  <2>3. \/ pipe'[s] = pipe[s]
        \/ pipe'[s] = CloseWithError(pipe[s])
        \/ pipe'[s] = DropReader(pipe[s])
    BY <2>0 DEF CloseStream, ClosePipe, Leave
  <2>4. CASE pipe'[s] = DropReader(pipe[s])
    <3>1. pipe'[s].queue = <<>> /\ ~CanWrite(pipe'[s])
      BY <2>0, <2>4 DEF DropReader, Pipe, CanWrite
    <3>2. QED
      BY <3>1, FlowGone DEF SideFlow
  <2>5. CASE pipe'[s] # DropReader(pipe[s])
    <3>1. pipe'[s].queue = pipe[s].queue /\ (CanWrite(pipe'[s]) => CanWrite(pipe[s]))
      BY <2>0, <2>3, <2>5 DEF CloseWithError, Pipe, CanWrite
    <3>2. Flow(pipe'[s], holding[s], net[s], Live(s)', n, e)
      BY ZenonT(30), <2>1, <2>2, <3>1, FlowSame
    <3>3. QED
      BY <3>2 DEF SideFlow
  <2>6. QED
    BY <2>4, <2>5

(* Closing a stream or its pipe, and leaving it, keep the flows. *)
<1>11. ASSUME IInv, NEW s \in Sides, UNCHANGED <<net, holding>>,
              \/ CloseStream(s) /\ UNCHANGED pipe
              \/ ClosePipe(s)
              \/ Leave(s) /\ UNCHANGED <<closed, mapped>>
       PROVE  Keeps
  <2> USE <1>11
  <2> SUFFICES ASSUME NEW t \in Sides, NEW n \in Nat, NEW e \in Nat, SideFlow(t, n, e)
               PROVE  SideFlow(t, n, e)'
    BY DEF Keeps
  <2>1. CASE t # s
    <3>1. pipe'[t] = pipe[t] /\ closed'[t] = closed[t] /\ mapped'[t] = mapped[t]
      BY <2>1 DEF CloseStream, ClosePipe, Leave, IInv, TypeInv
    <3>2. QED
      BY <3>1, SideAlone
  <2>2. CASE t = s
    BY <2>2, <1>10
  <2>3. QED
    BY <2>1, <2>2

(* A frame without a payload is sent, or none. *)
<1>12. ASSUME IInv, NEW s \in Sides, NEW frame \in Replies, frame.cmd # "PSH", UNCHANGED <<closed, mapped, pipe, holding>>,
              Send(s, frame) \/ UNCHANGED net
       PROVE  Keeps
  <2> USE <1>12
  <2>1. CASE UNCHANGED net
    BY <2>1, <1>6
  <2>2. CASE Send(s, frame) /\ ~UNCHANGED net
    <3>0. ~lost
      BY <2>2 DEF Send
    <3>1. /\ net'[s] = net[s] /\ net'[Peer(s)] = Append(net[Peer(s)], frame) /\ \A t \in Sides : t = s \/ t = Peer(s)
      BY <2>2, <3>0, SendEffect
    <3>2. ASSUME NEW t \in Sides, NEW n \in Nat, NEW e \in Nat, SideFlow(t, n, e)
          PROVE  SideFlow(t, n, e)'
      BY <3>1, <3>2, SideAlone, SideSent
    <3>3. QED
      BY <3>2 DEF Keeps
  <2>3. QED
    BY <2>1, <2>2

(* A FIN, behind everything else. *)
<1>13. ASSUME IInv, NEW s \in Sides, SendFin(s), UNCHANGED <<closed, mapped, pipe, holding>>
       PROVE  Keeps
  <2> USE <1>13
  <2>1. Frame("FIN") \in Replies /\ Frame("FIN").cmd # "PSH"
    BY FrameTypes DEF Frame
  <2>2. QED
    BY <2>1, <1>12 DEF SendFin

(* The handler's FIN, and its reader dropped. *)
<1>14. ASSUME IInv, HandFin
       PROVE  Keeps
  <2> USE <1>14
  <2>0. "server" \in Sides /\ "client" \in Sides /\ Peer("server") = "client" /\ "client" # "server"
    BY DEF Sides, Peer
  <2>1. Frame("FIN") \in Replies /\ Frame("FIN").cmd # "PSH"
    BY FrameTypes DEF Frame
  <2>2. /\ net'["server"] = net["server"]
        /\ net'["client"] = net["client"] \/ net'["client"] = Append(net["client"], Frame("FIN"))
    BY <2>0, SendEffect DEF HandFin, SendFin
  <2>3. /\ pipe'["client"] = pipe["client"] /\ holding' = holding /\ closed' = closed /\ mapped' = mapped
        /\ Leave("server")
    BY <2>0 DEF HandFin, Leave, IInv, TypeInv
  <2>4. ASSUME NEW n \in Nat, NEW e \in Nat, SideFlow("server", n, e)
        PROVE  SideFlow("server", n, e)'
    BY <2>0, <2>2, <2>3, <2>4, <1>10
  <2>5. ASSUME NEW n \in Nat, NEW e \in Nat, SideFlow("client", n, e)
        PROVE  SideFlow("client", n, e)'
    BY <2>0, <2>1, <2>2, <2>3, <2>5, SideAlone, SideSent
  <2>6. QED
    BY <2>4, <2>5 DEF Keeps, Sides

(* The steps of handle_session that read nothing leave the flows alone. *)
<1>15. ASSUME IInv, HandStep
       PROVE  Keeps
  <2> USE <1>15
  <2>0. "server" \in Sides
    BY DEF Sides
  <2>1. CASE HandCheck
    <3>1. \/ UNCHANGED <<closed, mapped, pipe>>
          \/ CloseStream("server") /\ UNCHANGED pipe
          \/ Leave("server") /\ UNCHANGED <<closed, mapped>>
      BY <2>1 DEF HandCheck, streamVars
    <3>2. UNCHANGED <<net, holding>>
      BY <2>1 DEF HandCheck, linkVars
    <3>3. QED
      BY <2>0, <3>1, <3>2, <1>6, <1>11
  <2>2. CASE HandClose
    <3>1. \/ UNCHANGED <<closed, mapped, pipe>>
          \/ CloseStream("server") /\ UNCHANGED pipe
      BY <2>2 DEF HandClose
    <3>2. UNCHANGED <<net, holding>>
      BY <2>2 DEF HandClose, linkVars
    <3>3. QED
      BY <2>0, <3>1, <3>2, <1>6, <1>11
  <2>3. CASE HandFin
    BY <2>3, <1>14
  <2>4. CASE HandConnect \/ HandRefuse
    <3>1. UNCHANGED <<closed, mapped, pipe, holding>>
      BY <2>4 DEF HandConnect, HandRefuse, streamVars
    <3>2. PICK cmd \in {"SYNACK", "SYNERR"} : Send("server", Frame(cmd)) \/ UNCHANGED net
      BY <2>4 DEF HandConnect, HandRefuse, Tell
    <3>3. Frame(cmd) \in Replies /\ Frame(cmd).cmd # "PSH"
      BY FrameTypes DEF Frame
    <3>4. QED
      BY <2>0, <3>1, <3>2, <3>3, <1>12
  <2>5. CASE HandJoin
    BY <2>5, <1>6 DEF HandJoin, streamVars, linkVars
  <2>6. QED
    BY <2>1, <2>2, <2>3, <2>4, <2>5 DEF HandStep

(* The steps of the relay that read nothing leave the flows alone. *)
<1>16. ASSUME IInv, S2oTask \/ O2sTask \/ S2oWait \/ O2sEof
       PROVE  Keeps
  <2> USE <1>16
  <2>0. "server" \in Sides
    BY DEF Sides
  <2>1. CASE S2oDenied \/ O2sDenied \/ O2sEof
    <3>1. UNCHANGED <<net, holding, pipe>>
      BY <2>1 DEF S2oDenied, O2sDenied, O2sEof, linkVars
    <3>2. UNCHANGED <<closed, mapped>> \/ CloseStream("server")
      BY <2>1 DEF S2oDenied, O2sDenied, O2sEof
    <3>3. QED
      BY <2>0, <3>1, <3>2, <1>6, <1>11
  <2>2. CASE S2oFin \/ O2sFin
    BY <2>0, <2>2, <1>13 DEF S2oFin, O2sFin, streamVars
  <2>3. CASE S2oCancelled \/ O2sCancelled \/ S2oShut \/ O2sError \/ S2oWait
    BY <2>3, <1>6 DEF S2oCancelled, O2sCancelled, S2oShut, O2sError, S2oWait, streamVars, linkVars
  <2>4. QED
    BY <2>1, <2>2, <2>3 DEF S2oTask, O2sTask

<1>17. ASSUME IInv, SynFirst, Quiet
       PROVE  Keeps
  <2> USE <1>17
  <2>0. "client" \in Sides
    BY DEF Sides
  <2>1. CASE \E s \in Sides : Receiver(s)
    BY <2>1, <1>7, <1>8, <1>9 DEF Receiver
  <2>2. CASE \E s \in Sides : Spawned(s)
    <3>1. PICK s \in Sides : WriterEnd(s) \/ ClosePipe(s)
      BY <2>2 DEF Spawned, SpawnedTask
    <3>2. CASE WriterEnd(s)
      BY <3>2, <1>6 DEF WriterEnd, streamVars
    <3>3. CASE ClosePipe(s)
      BY <3>3, <1>11 DEF ClosePipe, linkVars
    <3>4. QED
      BY <3>1, <3>2, <3>3
  <2>3. CASE C2pClose
    <3>1. UNCHANGED <<net, holding, pipe>>
      BY <2>3 DEF C2pClose, linkVars
    <3>2. UNCHANGED <<closed, mapped>> \/ CloseStream("client")
      BY <2>3 DEF C2pClose
    <3>3. QED
      BY <2>0, <3>1, <3>2, <1>6, <1>11
  <2>4. CASE C2pFin
    BY <2>0, <2>4, <1>13 DEF C2pFin, streamVars
  <2>5. CASE C2pEnd \/ P2cWait \/ HandWait \/ Lose \/ Deny \/ DestReset \/ UNCHANGED vars
    BY <2>5, <1>6
       DEF C2pEnd, P2cWait, HandWait, Lose, LoseLink, Deny, DenyUser, DestReset, vars, streamVars, linkVars
  <2>6. QED
    BY <2>1, <2>2, <2>3, <2>4, <2>5, <1>15, <1>16 DEF Quiet
<1>18. QED
  BY <1>17

-----------------------------------------------------------------------------
(* The frames under way.                                                   *)

(* What is sent as a frame, in which command. *)
Sendable == [cmd : {"SYN", "PSH", "FIN", "SYNACK", "SYNERR"}, units : Units]

(* The server's FIN is behind all of its payload. *)
FinLast ==
  \A i \in 1 .. Len(net["client"]) :
    net["client"][i].cmd = "FIN" =>
      closed["server"] /\ \A j \in i + 1 .. Len(net["client"]) : net["client"][j].cmd # "PSH"

FrameOrder ==
  /\ SynFirst /\ FinLast
  /\ s2o = "fin" \/ o2s = "fin" => closed["server"]
  /\ appSent + destSent <= MaxPieces
  /\ \A s \in Sides : net[s] \in Seq(Sendable)

(* The frames on their way to t lose the first one, or all of them, or get *)
(* one more.                                                               *)
NetMove(t) ==
  \/ net'[t] = net[t] /\ (t = "client" \/ hand # "new" \/ hand' = "new")
  \/ net[t] # <<>> /\ net'[t] = Tail(net[t])
  \/ net'[t] = <<>>
  \/ \E frame \in Sendable :
       /\ net'[t] = Append(net[t], frame) /\ frame.cmd # "SYN"
       /\ t = "client" \/ hand # "new" \/ hand' = "new"
       /\ t = "client" /\ frame.cmd = "FIN" => closed["server"]
       /\ t = "client" /\ frame.cmd = "PSH" => ~closed["server"]
       /\ t = "server" => frame.cmd = "PSH" \/ c2p = "fin"

(* An address, its parts and the pieces are units. *)
LEMMA StreamUnits ==
  /\ <<>> \in Units /\ Address \in Units /\ <<Atyp>> \in Units /\ <<Rest>> \in Units
  /\ \A i \in Nat : i # 0 /\ i <= MaxPieces => <<i>> \in Units
<1>1. ASSUME NEW i \in Nat, i # 0, i <= MaxPieces
      PROVE  <<i>> \in {<<j>> : j \in 1 .. MaxPieces}
  <2>1. i \in 1 .. MaxPieces
    BY SMT, <1>1, TunnelAssumption
  <2>2. QED
    BY <2>1
<1>2. QED
  BY <1>1 DEF Units

(* So does every step. *)
LEMMA NetMoves == IInv /\ FrameOrder /\ [Next]_vars => \A t \in Sides : NetMove(t)
(* A frame that is sent goes behind the frames under way. *)
<1>1. ASSUME IInv, NEW s \in Sides, NEW frame \in Sendable, frame.cmd # "SYN", hand # "new" \/ hand' = "new",
             Send(s, frame) \/ UNCHANGED net,
             s = "server" /\ frame.cmd = "FIN" => closed["server"],
             s = "server" /\ frame.cmd = "PSH" => ~closed["server"],
             s = "client" => frame.cmd = "PSH" \/ c2p = "fin"
      PROVE  \A t \in Sides : NetMove(t)
  <2> USE <1>1
  <2>1. CASE UNCHANGED net
    BY <2>1 DEF NetMove
  <2>2. CASE Send(s, frame) /\ ~UNCHANGED net
    <3>1. ~lost
      BY <2>2 DEF Send
    <3>2. /\ net'[s] = net[s] /\ net'[Peer(s)] = Append(net[Peer(s)], frame) /\ \A t \in Sides : t = s \/ t = Peer(s)
      <4>0. Send(s, frame)
        BY <2>2
      <4>1. net'[s] = net[s] /\ \A t \in Sides : t = s \/ t = Peer(s)
        BY ZenonT(60), <4>0, SendEffect
      <4>2. net'[Peer(s)] = Append(net[Peer(s)], frame)
        BY ZenonT(60), <4>0, <3>1, SendEffect
      <4>3. QED
        BY <4>1, <4>2
    <3>3. (Peer(s) = "client" => s = "server") /\ (Peer(s) = "server" => s = "client")
      BY DEF Peer, Sides
    <3>4. QED
      BY <3>2, <3>3 DEF NetMove
  <2>3. QED
    BY <2>1, <2>2

(* So does a FIN. *)
<1>2. ASSUME IInv, NEW s \in Sides, SendFin(s), hand # "new" \/ hand' = "new", s = "server" => closed["server"],
             s = "client" => c2p = "fin"
      PROVE  \A t \in Sides : NetMove(t)
  <2> USE <1>2
  <2>1. Frame("FIN") \in Sendable /\ Frame("FIN").cmd = "FIN"
    BY StreamUnits DEF Frame, Sendable
  <2>2. QED
    BY <2>1, <1>1 DEF SendFin

(* The receive loops and the spawned tasks move frames in these ways. *)
<1>3. ASSUME IInv, NEW s \in Sides, Receiver(s) \/ Spawned(s)
      PROVE  \A t \in Sides : NetMove(t)
  <2> USE <1>3
  <2>1. CASE StreamFrames(s)
    <3>1. net[s] # <<>> /\ net' = Consumed(s)
      <4>1. s = "client" => Head(net[s]).cmd # "SYN" \/ net[s] = <<>>
        BY ConsumedFacts
      <4>2. ReceiveSyn(s) => st[s].settings
        BY <4>1 DEF ReceiveSyn, Arrived, Sides, IInv, TypeInv
      <4>3. QED
        BY <2>1, <4>2 DEF StreamFrames, ReceiveSyn, ReceivePsh, ReceiveEnd, ReceiveOther, Arrived
    <3>2. net'[s] = Tail(net[s]) /\ \A t \in Sides \ {s} : net'[t] = net[t]
      BY <3>1 DEF Consumed, IInv, TypeInv
    <3>3. s = "server" \/ hand' = hand
      BY <2>1, ConsumedFacts
         DEF StreamFrames, ReceiveSyn, ReceivePsh, ReceiveEnd, ReceiveOther, Arrived, Sides, handVars
    <3>4. QED
      BY <3>1, <3>2, <3>3 DEF NetMove, Sides
  <2>2. CASE Push(s) \/ SpawnedTask(s)
    BY <2>2 DEF Push, SpawnedTask, WriterEnd, ClosePipe, linkVars, handVars, NetMove
  <2>3. CASE RunEnd(s)
    BY <2>3 DEF RunEnd, handVars, NetMove, IInv, TypeInv
  <2>4. QED
    BY <2>1, <2>2, <2>3 DEF Receiver, Spawned

<1>4. ASSUME IInv, FrameOrder, [Next]_vars
      PROVE  \A t \in Sides : NetMove(t)
  <2> USE <1>4
  <2>0. "client" \in Sides /\ "server" \in Sides /\ "client" # "server"
    BY DEF Sides
  <2>1. CASE \E s \in Sides : Receiver(s) \/ Spawned(s)
    BY <2>1, <1>3
  <2>2. CASE C2pFin
    BY <2>0, <2>2, <1>2 DEF C2pFin, handVars
  <2>3. CASE HandFin
    BY <2>0, <2>3, <1>2 DEF HandFin, IInv
  <2>4. CASE HandConnect \/ HandRefuse
    <3>1. PICK cmd \in {"SYNACK", "SYNERR"} : Send("server", Frame(cmd)) \/ UNCHANGED net
      BY <2>4 DEF HandConnect, HandRefuse, Tell
    <3>2. Frame(cmd) \in Sendable /\ Frame(cmd).cmd \notin {"SYN", "PSH", "FIN"} /\ hand # "new"
      BY <2>4, StreamUnits DEF Frame, Sendable, HandConnect, HandRefuse
    <3>3. QED
      BY <2>0, <3>1, <3>2, <1>1
  <2>5. CASE S2oFin \/ O2sFin
    BY <2>0, <2>5, <1>2 DEF S2oFin, O2sFin, FrameOrder, handVars
  <2>6. CASE SendAddress
    <3>1. Psh(Address) \in Sendable /\ Psh(Address).cmd = "PSH"
      BY StreamUnits DEF Psh, Sendable
    <3>2. QED
      BY <2>0, <2>6, <3>1, <1>1 DEF SendAddress, handVars
  <2>7. CASE C2pRead
    <3>1. <<appSent'>> \in Units
      <4>1. appSent \in Nat /\ destSent \in Nat /\ appSent' = appSent + 1 /\ appSent + destSent < MaxPieces
        BY <2>7 DEF C2pRead, IInv, TypeInv
      <4>2. appSent' \in Nat /\ appSent' # 0 /\ appSent' <= MaxPieces
        BY SMT, <4>1, TunnelAssumption
      <4>3. QED
        BY <4>2, StreamUnits
    <3>2. Psh(<<appSent'>>) \in Sendable /\ Psh(<<appSent'>>).cmd = "PSH"
      BY <3>1 DEF Psh, Sendable
    <3>3. QED
      BY <2>0, <2>7, <3>2, <1>1 DEF C2pRead, handVars
  <2>8. CASE O2sRead
    <3>1. <<destSent'>> \in Units
      <4>1. appSent \in Nat /\ destSent \in Nat /\ destSent' = destSent + 1 /\ appSent + destSent < MaxPieces
        BY <2>8 DEF O2sRead, IInv, TypeInv
      <4>2. destSent' \in Nat /\ destSent' # 0 /\ destSent' <= MaxPieces
        BY SMT, <4>1, TunnelAssumption
      <4>3. QED
        BY <4>2, StreamUnits
    <3>2. Psh(<<destSent'>>) \in Sendable /\ Psh(<<destSent'>>).cmd = "PSH"
      BY <3>1 DEF Psh, Sendable
    <3>3. /\ Send("server", Psh(<<destSent'>>)) \/ UNCHANGED net
          /\ ~closed["server"] \/ UNCHANGED net
          /\ hand' = hand
      BY <2>8 DEF O2sRead, Usable, handVars
    <3>4. CASE UNCHANGED net
      BY <3>3, <3>4 DEF NetMove
    <3>5. CASE ~closed["server"] /\ Send("server", Psh(<<destSent'>>))
      BY <2>0, <3>2, <3>3, <3>5, <1>1
    <3>6. QED
      BY <3>3, <3>4, <3>5
  <2>9. CASE C2pClose \/ C2pEnd \/ P2cWait \/ P2cRead \/ Lose \/ Deny \/ DestReset \/ UNCHANGED vars
    BY <2>9
       DEF C2pClose, C2pEnd, P2cWait, P2cRead, Lose, LoseLink, Deny, DenyUser, DestReset, vars, linkVars, handVars, NetMove
  <2>10. CASE HandCheck \/ HandClose \/ HandJoin \/ HandWait \/ HandRead
    BY <2>10
       DEF HandCheck, HandClose, HandJoin, HandWait, HandRead, linkVars, handVars, NetMove
  <2>11. CASE S2oTask \/ O2sTask \/ S2oWait \/ S2oRead \/ O2sEof
    BY <2>5, <2>11
       DEF S2oTask, O2sTask, S2oCancelled, S2oDenied, S2oShut, O2sCancelled, O2sDenied, O2sError, S2oWait, S2oRead, O2sEof,
           linkVars, handVars, NetMove
  <2>12. QED
    BY Steps, <2>1, <2>2, <2>3, <2>4, <2>5, <2>6, <2>7, <2>8, <2>9, <2>10, <2>11 DEF Quiet, HandStep
<1>5. QED
  BY <1>4

(* A closed stream stays closed, and a failure or a half-close stays. *)
Onward ==
  /\ \A s \in Sides : closed[s] => closed'[s]
  /\ lost => lost'
  /\ denied => denied'
  /\ app # "open" => app' # "open"

(* No step undoes a close, a failure or a half-close. *)
LEMMA OnwardNext ==
  ASSUME IInv, [Next]_vars
  PROVE  Onward
<1>0. closed \in [Sides -> BOOLEAN] /\ "client" \in Sides /\ "server" \in Sides
  BY DEF IInv, TypeInv, Sides
<1>1. ASSUME NEW t \in Sides, CloseStream(t)
      PROVE  \A s \in Sides : closed[s] => closed'[s]
  BY <1>0, <1>1 DEF CloseStream
<1>2. CASE \E s \in Sides : Receiver(s) \/ Spawned(s)
  <2>1. PICK s \in Sides : Receiver(s) \/ Spawned(s)
    BY <1>2
  <2>2. UNCHANGED <<lost, denied, app>>
    BY <2>1
       DEF Receiver, Spawned, StreamFrames, ReceiveSyn, ReceivePsh, ReceiveEnd, ReceiveOther, Push, RunEnd,
           SpawnedTask, WriterEnd, ClosePipe, tunnelVars, appVars, linkVars, handVars
  <2>3. UNCHANGED closed \/ closed' = [closed EXCEPT ![s] = @ \/ mapped[s]]
    BY <2>1
       DEF Receiver, Spawned, StreamFrames, ReceiveSyn, ReceivePsh, ReceiveEnd, ReceiveOther, Push, RunEnd,
           SpawnedTask, WriterEnd, ClosePipe, EndStream, streamVars
  <2>4. QED
    BY <1>0, <2>2, <2>3 DEF Onward
<1>3. CASE C2pClose \/ S2oDenied \/ O2sDenied \/ O2sEof \/ ((HandCheck \/ HandClose) /\ UNCHANGED tunnelVars)
  <2>1. UNCHANGED <<lost, denied, app>>
    BY <1>3
       DEF C2pClose, S2oDenied, O2sDenied, O2sEof, HandCheck, HandClose, tunnelVars, appVars, linkVars, handVars
  <2>2. UNCHANGED closed \/ CloseStream("client") \/ CloseStream("server")
    BY <1>3 DEF C2pClose, S2oDenied, O2sDenied, O2sEof, HandCheck, HandClose, streamVars
  <2>3. QED
    BY <1>0, <1>1, <2>1, <2>2 DEF Onward
<1>4. ASSUME UNCHANGED <<closed, lost, denied, app>>
      PROVE  Onward
  BY <1>4 DEF Onward
<1>5. CASE C2pEnd \/ Lose \/ Deny
  <2>1. UNCHANGED closed
    BY <1>5 DEF C2pEnd, Lose, LoseLink, Deny, DenyUser, streamVars
  <2>2. /\ UNCHANGED lost \/ ~lost
        /\ UNCHANGED denied \/ ~denied
        /\ UNCHANGED app \/ app = "open"
    BY <1>5 DEF C2pEnd, Lose, LoseLink, Deny, DenyUser, linkVars, handVars, tunnelVars, appVars
  <2>3. QED
    BY SMT, <2>1, <2>2 DEF Onward
<1>6. CASE C2pFin \/ P2cWait \/ SendAddress \/ C2pRead \/ P2cRead \/ DestReset \/ UNCHANGED vars
  <2>1. UNCHANGED <<closed, lost, denied, app>>
    BY <1>6
       DEF C2pFin, P2cWait, SendAddress, C2pRead, P2cRead, DestReset, vars, streamVars, linkVars, handVars,
           tunnelVars, appVars
  <2>2. QED
    BY <1>4, <2>1
<1>7. CASE (HandFin /\ UNCHANGED tunnelVars) \/ HandConnect \/ HandRefuse \/ HandJoin \/ HandWait \/ HandRead
  <2>1. UNCHANGED <<closed, lost, denied, app>>
    BY <1>7
       DEF HandFin, HandConnect, HandRefuse, HandJoin, HandWait, HandRead, streamVars, linkVars, handVars,
           tunnelVars, appVars
  <2>2. QED
    BY <1>4, <2>1
<1>8. CASE S2oCancelled \/ S2oFin \/ S2oShut \/ S2oWait \/ S2oRead \/ O2sCancelled \/ O2sFin \/ O2sError \/ O2sRead
  <2>1. UNCHANGED <<closed, lost, denied, app>>
    BY <1>8
       DEF S2oCancelled, S2oFin, S2oShut, S2oWait, S2oRead, O2sCancelled, O2sFin, O2sError, O2sRead,
           streamVars, linkVars, handVars, tunnelVars, appVars
  <2>2. QED
    BY <1>4, <2>1
<1>9. CASE HandStep
  BY <1>3, <1>7, <1>9 DEF HandStep
<1>10. CASE S2oTask \/ O2sTask
  BY <1>3, <1>8, <1>10 DEF S2oTask, O2sTask
<1>11. QED
  BY Steps, <1>2, <1>3, <1>5, <1>6, <1>7, <1>8, <1>9, <1>10 DEF Quiet

(* Every step keeps the order of the frames. *)
LEMMA FrameOrderNext == IInv /\ FrameOrder /\ [Next]_vars => FrameOrder'
(* No more pieces than the bound allows, and who sends FIN has closed. *)
<1>1. ASSUME IInv, FrameOrder, [Next]_vars
      PROVE  (s2o = "fin" \/ o2s = "fin" => closed["server"])'
  <2> USE <1>1
  <2>0. closed \in [Sides -> BOOLEAN] /\ "server" \in Sides /\ (closed["server"] => closed'["server"])
    BY OnwardNext DEF IInv, TypeInv, Sides, Onward
  <2>1. CASE S2oDenied \/ O2sDenied \/ O2sEof
    BY <2>0, <2>1 DEF S2oDenied, O2sDenied, O2sEof, CloseStream, FrameOrder
  <2>2. CASE UNCHANGED <<s2o, o2s>>
    BY <2>0, <2>2 DEF FrameOrder
  <2>3. CASE S2oTask \/ O2sTask \/ S2oRead \/ O2sRead
    BY <2>0, <2>1, <2>3
       DEF S2oTask, O2sTask, S2oCancelled, S2oFin, S2oShut, S2oRead, O2sCancelled, O2sFin, O2sError, O2sRead, FrameOrder
  <2>4. CASE HandConnect
    BY <2>0, <2>4 DEF HandConnect, FrameOrder
  <2>5. CASE \E s \in Sides : Receiver(s) \/ Spawned(s)
    BY <2>2, <2>5 DEF Receiver, Spawned, tunnelVars, relayVars
  <2>6. CASE C2pClose \/ C2pEnd \/ C2pFin \/ P2cWait \/ P2cRead \/ SendAddress \/ C2pRead \/ Lose \/ Deny \/ DestReset \/ UNCHANGED vars
    BY <2>2, <2>6
       DEF C2pClose, C2pEnd, C2pFin, P2cWait, P2cRead, SendAddress, C2pRead, Lose, Deny, DestReset, vars, tunnelVars,
           relayVars
  <2>7. CASE HandStep \/ HandWait \/ HandRead \/ S2oWait
    BY <2>2, <2>4, <2>7 DEF HandStep, HandRefuse, HandJoin, HandWait, HandRead, S2oWait, tunnelVars, relayVars
  <2>8. QED
    BY Steps, <2>1, <2>3, <2>5, <2>6, <2>7 DEF Quiet

(* The pieces of both directions stay within MaxPieces. *)
<1>2. ASSUME IInv, FrameOrder, [Next]_vars
      PROVE  (appSent + destSent <= MaxPieces)'
  <2> USE <1>2
  <2>0. appSent \in Nat /\ destSent \in Nat /\ appSent + destSent <= MaxPieces /\ MaxPieces \in Nat
    BY TunnelAssumption DEF IInv, TypeInv, FrameOrder
  <2>1. CASE UNCHANGED <<appSent, destSent>>
    BY <2>0, <2>1
  <2>2. CASE C2pRead
    <3>1. appSent' = appSent + 1 /\ destSent' = destSent /\ appSent + destSent < MaxPieces
      BY <2>2 DEF C2pRead, destVars
    <3>2. QED
      BY SMT, <2>0, <3>1
  <2>3. CASE O2sRead
    <3>1. destSent' = destSent + 1 /\ appSent' = appSent /\ appSent + destSent < MaxPieces
      BY <2>3 DEF O2sRead, appVars
    <3>2. QED
      BY SMT, <2>0, <3>1
  <2>4. CASE \E s \in Sides : Receiver(s) \/ Spawned(s)
    BY <2>1, <2>4 DEF Receiver, Spawned, tunnelVars, appVars, destVars
  <2>5. CASE C2pClose \/ C2pEnd \/ C2pFin \/ P2cWait \/ P2cRead \/ SendAddress \/ Lose \/ Deny \/ DestReset \/ UNCHANGED vars
    BY <2>1, <2>5
       DEF C2pClose, C2pEnd, C2pFin, P2cWait, P2cRead, SendAddress, Lose, Deny, DestReset, vars, tunnelVars, appVars,
           destVars
  <2>6. CASE HandStep \/ HandWait \/ HandRead
    BY <2>1, <2>6 DEF HandStep, HandConnect, HandRefuse, HandJoin, HandWait, HandRead, tunnelVars, appVars, destVars
  <2>7. CASE S2oTask \/ O2sTask \/ S2oWait \/ S2oRead \/ O2sEof
    BY <2>1, <2>7
       DEF S2oTask, O2sTask, S2oCancelled, S2oDenied, S2oFin, S2oShut, O2sCancelled, O2sDenied, O2sFin, O2sError,
           S2oWait, S2oRead,
           O2sEof, tunnelVars, appVars, destVars
  <2>8. QED
    BY Steps, <2>2, <2>3, <2>4, <2>5, <2>6, <2>7 DEF Quiet

(* A SYN stays the first frame, and is gone once the stream is opened. *)
<1>3. ASSUME IInv, FrameOrder, [Next]_vars
      PROVE  SynFirst'
  <2> USE <1>3
  <2> SUFFICES ASSUME NEW s \in Sides, NEW i \in 1 .. Len(net'[s]), net'[s][i].cmd = "SYN"
               PROVE  i = 1 /\ hand' = "new"
    BY DEF SynFirst
  <2>0. net[s] \in Seq(Sendable)
    BY DEF FrameOrder
  <2>1. \A j \in 1 .. Len(net[s]) : net[s][j].cmd = "SYN" => j = 1 /\ hand = "new" /\ s # "client"
    <3>1. \A j \in 1 .. Len(net["client"]) : net["client"][j] \in Replies
      BY SMT DEF IInv, TypeInv
    <3>2. \A j \in 1 .. Len(net["client"]) : net["client"][j].cmd # "SYN"
      BY <3>1 DEF Replies
    <3>3. QED
      BY <3>2 DEF FrameOrder, SynFirst
  <2>2. NetMove(s)
    BY NetMoves
  <2>3. CASE net'[s] = net[s] /\ (s = "client" \/ hand # "new" \/ hand' = "new")
    BY <2>1, <2>3
  <2>4. CASE net[s] # <<>> /\ net'[s] = Tail(net[s])
    <3>1. i + 1 \in 1 .. Len(net[s]) /\ Tail(net[s])[i] = net[s][i + 1] /\ i + 1 # 1
      BY <2>0, <2>4, TailElements
    <3>2. QED
      BY <2>1, <2>4, <3>1
  <2>5. CASE net'[s] = <<>>
    <3>1. Len(<<>>) = 0 /\ \A j \in 1 .. 0 : FALSE
      BY SMT
    <3>2. QED
      BY <2>5, <3>1
  <2>6. ASSUME NEW frame \in Sendable, net'[s] = Append(net[s], frame), frame.cmd # "SYN",
               s = "client" \/ hand # "new" \/ hand' = "new"
        PROVE  i = 1 /\ hand' = "new"
    <3> DEFINE q == net[s]
    <3>0. q \in Seq(Sendable) /\ net'[s] = Append(q, frame)
      BY <2>0, <2>6
    <3> HIDE DEF q
    <3>1. \A j \in 1 .. Len(Append(q, frame)) :
            (j \in 1 .. Len(q) /\ Append(q, frame)[j] = q[j]) \/ (j = Len(q) + 1 /\ Append(q, frame)[j] = frame)
      BY ZenonT(30), <3>0, AppendElements
    <3>2. (i \in 1 .. Len(net[s]) /\ net'[s][i] = net[s][i]) \/ net'[s][i] = frame
      BY <3>0, <3>1 DEF q
    <3>3. QED
      BY <2>1, <2>6, <3>2
  <2>7. QED
    BY <2>2, <2>3, <2>4, <2>5, <2>6 DEF NetMove

(* The server's FIN stays behind all of its payload. *)
<1>4. ASSUME IInv, FrameOrder, [Next]_vars
      PROVE  FinLast'
  <2> USE <1>4
  <2> DEFINE q == net["client"]
             r == net'["client"]
  <2> SUFFICES ASSUME NEW i \in 1 .. Len(r), r[i].cmd = "FIN"
               PROVE  closed'["server"] /\ \A j \in i + 1 .. Len(r) : r[j].cmd # "PSH"
    BY DEF FinLast
  <2>0. "client" \in Sides /\ "server" \in Sides /\ q \in Seq(Sendable)
    BY DEF FrameOrder, Sides
  <2>1. \A k \in 1 .. Len(q) : q[k].cmd = "FIN" => closed["server"] /\ \A j \in k + 1 .. Len(q) : q[j].cmd # "PSH"
    BY DEF FrameOrder, FinLast
  <2>2. closed["server"] => closed'["server"]
    BY <2>0, OnwardNext DEF Onward
  <2>3. NetMove("client")
    BY <2>0, NetMoves
  <2> HIDE DEF q, r
  <2>4. CASE r = q
    BY <2>1, <2>2, <2>4
  <2>5. CASE q # <<>> /\ r = Tail(q)
    <3>1. /\ \A k \in 1 .. Len(Tail(q)) : k + 1 \in 1 .. Len(q) /\ Tail(q)[k] = q[k + 1]
          /\ \A k \in 1 .. Len(Tail(q)) : \A j \in k + 1 .. Len(Tail(q)) : j + 1 \in (k + 1) + 1 .. Len(q)
          /\ \A k \in 1 .. Len(Tail(q)) : \A j \in k + 1 .. Len(Tail(q)) : j \in 1 .. Len(Tail(q))
      BY <2>0, <2>5, TailElements
    <3>2. QED
      BY <2>1, <2>2, <2>5, <3>1
  <2>6. CASE r = <<>>
    <3>1. Len(<<>>) = 0 /\ \A j \in 1 .. 0 : FALSE
      BY SMT
    <3>2. QED
      BY <2>6, <3>1
  <2>7. ASSUME NEW frame \in Sendable, r = Append(q, frame),
               frame.cmd = "FIN" => closed["server"], frame.cmd = "PSH" => ~closed["server"]
        PROVE  closed'["server"] /\ \A j \in i + 1 .. Len(r) : r[j].cmd # "PSH"
    <3>1. /\ \A k \in 1 .. Len(Append(q, frame)) :
               (k \in 1 .. Len(q) /\ Append(q, frame)[k] = q[k]) \/ (k = Len(q) + 1 /\ Append(q, frame)[k] = frame)
          /\ \A k \in 1 .. Len(Append(q, frame)) : \A j \in k + 1 .. Len(Append(q, frame)) :
               \/ k \in 1 .. Len(q) /\ j \in 1 .. Len(q) /\ j \in k + 1 .. Len(q) /\ Append(q, frame)[j] = q[j]
               \/ k \in 1 .. Len(q) /\ Append(q, frame)[j] = frame
      BY ZenonT(30), <2>0, AppendElements
    <3>2. closed["server"]
      BY <2>1, <2>7, <3>1
    <3>3. ASSUME NEW j \in i + 1 .. Len(r)
          PROVE  r[j].cmd # "PSH"
      <4>1. i \in 1 .. Len(q) /\ ((j \in i + 1 .. Len(q) /\ r[j] = q[j]) \/ r[j] = frame)
        BY <2>7, <3>1, <3>3
      <4>2. r[i] = q[i]
        <5>1. Len(q) \in Nat /\ i # Len(q) + 1
          BY SMT, <2>0, <4>1
        <5>2. QED
          BY <2>7, <3>1, <5>1
      <4>3. QED
        BY <2>1, <2>7, <3>2, <4>1, <4>2
    <3>4. QED
      BY <2>2, <3>2, <3>3
  <2>8. QED
    BY <2>3, <2>4, <2>5, <2>6, <2>7 DEF NetMove, q, r

<1>5. ASSUME IInv, FrameOrder, [Next]_vars
      PROVE  FrameOrder'
  <2> USE <1>5
  <2>1. ASSUME NEW s \in Sides
        PROVE  net'[s] \in Seq(Sendable)
    <3>1. net[s] \in Seq(Sendable) /\ NetMove(s)
      BY NetMoves DEF FrameOrder
    <3>2. /\ <<>> \in Seq(Sendable) /\ (net[s] # <<>> => Tail(net[s]) \in Seq(Sendable))
          /\ \A frame \in Sendable : Append(net[s], frame) \in Seq(Sendable)
      BY <3>1, NoElement, TailElements, AppendElements
    <3>3. QED
      BY <3>1, <3>2 DEF NetMove
  <2>2. QED
    BY <2>1, <1>3, <1>4, <1>1, <1>2 DEF FrameOrder
<1>6. QED
  BY <1>5

-----------------------------------------------------------------------------
(* The pipes.                                                              *)

(* What a step that reads nothing does to the pipe of s. *)
PipeMove(s) ==
  \/ pipe'[s] = pipe[s]
  \/ CanWrite(pipe[s]) /\ holding[s] # <<>> /\ pipe'[s] = Write(pipe[s], holding[s])
  \/ mapped[s] /\ lost /\ pipe'[s] = FinishStream(pipe[s], "eof")
  \/ mapped[s] /\ Arrived(s, {"FIN"}) /\ pipe'[s] = FinishStream(pipe[s], "eof")
  \/ mapped[s] /\ Arrived(s, {"SYNERR"}) /\ pipe'[s] = FinishStream(pipe[s], "error")
  \/ spawned[s] /\ pipe'[s] = CloseWithError(pipe[s])
  \/ s = "server" /\ pipe'[s] = DropReader(pipe[s])

(* So does every step that reads nothing; some drop the reader. *)
LEMMA PipeMoves == IInv /\ (Quiet \/ SendAddress \/ C2pRead \/ O2sRead) => \A t \in Sides : PipeMove(t)
(* The receive loop and the spawned tasks write to a pipe, finish it or    *)
(* close it.                                                               *)
<1>1. ASSUME IInv, NEW s \in Sides, Receiver(s) \/ Spawned(s)
      PROVE  \A t \in Sides : PipeMove(t)
  <2> USE <1>1
  <2>0. pipe \in [Sides -> Pipe] /\ (run[s] # "up" => lost)
    BY DEF IInv, TypeInv, SideInv
  <2>1. ASSUME NEW kind \in {"eof", "error"}, EndStream(s, kind)
        PROVE  /\ \A t \in Sides \ {s} : pipe'[t] = pipe[t]
               /\ pipe'[s] = pipe[s] \/ (mapped[s] /\ pipe'[s] = FinishStream(pipe[s], kind))
    BY <2>0, <2>1 DEF EndStream
  <2>2. CASE StreamFrames(s)
    <3>1. CASE ReceiveEnd(s)
      <4>1. CASE Arrived(s, {"FIN"}) /\ EndStream(s, "eof")
        BY <2>1, <4>1 DEF PipeMove
      <4>2. CASE Arrived(s, {"SYNERR"}) /\ EndStream(s, "error")
        BY <2>1, <4>2 DEF PipeMove
      <4>3. QED
        BY <3>1, <4>1, <4>2 DEF ReceiveEnd, Arrived
    <3>2. CASE ~ReceiveEnd(s)
      BY <2>2, <3>2 DEF StreamFrames, ReceiveSyn, ReceivePsh, ReceiveOther, streamVars, PipeMove
    <3>3. QED
      BY <3>1, <3>2
  <2>3. CASE Push(s)
    <3>1. UNCHANGED pipe \/ pipe' = [pipe EXCEPT ![s] = IF CanWrite(@) THEN Write(@, holding[s]) ELSE @]
      BY <2>3 DEF Push
    <3>2. /\ \A t \in Sides \ {s} : pipe'[t] = pipe[t]
          /\ pipe'[s] = pipe[s] \/ (CanWrite(pipe[s]) /\ pipe'[s] = Write(pipe[s], holding[s]))
      BY <2>0, <3>1
    <3>3. holding[s] # <<>>
      BY <2>3 DEF Push
    <3>4. QED
      BY <3>2, <3>3 DEF PipeMove
  <2>4. CASE RunEnd(s)
    <3>1. lost /\ EndStream(s, "eof")
      BY <2>0, <2>4 DEF RunEnd
    <3>2. QED
      BY <2>1, <3>1 DEF PipeMove
  <2>5. CASE SpawnedTask(s)
    BY <2>0, <2>5 DEF SpawnedTask, WriterEnd, ClosePipe, streamVars, PipeMove
  <2>6. QED
    BY <2>2, <2>3, <2>4, <2>5 DEF Receiver, Spawned

<1>2. ASSUME IInv, Quiet \/ SendAddress \/ C2pRead \/ O2sRead
      PROVE  \A t \in Sides : PipeMove(t)
  <2> USE <1>2
  <2>1. ASSUME UNCHANGED pipe
        PROVE  \A t \in Sides : PipeMove(t)
    BY <2>1 DEF PipeMove
  <2>2. ASSUME Leave("server")
        PROVE  \A t \in Sides : PipeMove(t)
    BY <2>2 DEF Leave, PipeMove, IInv, TypeInv
  <2>3. CASE \E s \in Sides : Receiver(s) \/ Spawned(s)
    BY <2>3, <1>1
  <2>4. CASE HandStep
    BY <2>1, <2>2, <2>4 DEF HandStep, HandCheck, HandClose, HandFin, HandConnect, HandRefuse, HandJoin, streamVars
  <2>5. CASE S2oTask \/ O2sTask \/ S2oWait \/ O2sEof \/ O2sRead
    BY <2>1, <2>5
       DEF S2oTask, O2sTask, S2oCancelled, S2oDenied, S2oFin, S2oShut, O2sCancelled, O2sDenied, O2sFin, O2sError,
           S2oWait, O2sEof,
           O2sRead, streamVars
  <2>6. CASE C2pClose \/ C2pFin \/ C2pEnd \/ P2cWait \/ HandWait \/ Lose \/ Deny \/ DestReset \/ UNCHANGED vars
             \/ SendAddress \/ C2pRead
    BY <2>1, <2>6
       DEF C2pClose, C2pFin, C2pEnd, P2cWait, HandWait, Lose, LoseLink, Deny, DenyUser, DestReset, vars, SendAddress,
           C2pRead, streamVars
  <2>7. QED
    BY <2>3, <2>4, <2>5, <2>6 DEF Quiet
<1>3. QED
  BY <1>2

-----------------------------------------------------------------------------
(* What the streams carry.                                                 *)

Payloads ==
  \A s \in Sides : holding[s] \in Units /\ pipe[s].queue \in Seq(Events(Units))

(* A read takes at most the head of the queue. *)
LEMMA ReadQueue ==
  ASSUME IInv, NEW s \in Sides, NEW m, TakeAnswer(s, m)
  PROVE  /\ \A t \in Sides \ {s} : pipe'[t] = pipe[t]
         /\ pipe'[s].queue = pipe[s].queue \/ (pipe[s].queue # <<>> /\ pipe'[s].queue = Tail(pipe[s].queue))
         /\ pipe'[s].receiver = pipe[s].receiver
<1>0. pipe \in [Sides -> Pipe] /\ pipe[s] \in Pipe
  BY SideTypes DEF IInv, TypeInv
<1>1. pipe'[s] = Answer(s, m).pipe /\ \A t \in Sides \ {s} : pipe'[t] = pipe[t]
  BY <1>0 DEF TakeAnswer
<1>2. ReadNow(pipe[s], m).pipe.queue = pipe[s].queue /\ ReadNow(pipe[s], m).pipe.receiver = pipe[s].receiver
  BY <1>0 DEF ReadNow, Pipe
<1>3. ASSUME NEW k
      PROVE  /\ ReadEvent(pipe[s], k).pipe.receiver = pipe[s].receiver
             /\ \/ ReadEvent(pipe[s], k).pipe.queue = pipe[s].queue
                \/ pipe[s].queue # <<>> /\ ReadEvent(pipe[s], k).pipe.queue = Tail(pipe[s].queue)
  BY ZenonT(30), <1>0 DEF ReadEvent, Pipe
<1>4. QED
  BY <1>1, <1>2, <1>3 DEF Answer

(* Every step keeps what is held and queued within the units of the        *)
(* tunnel.                                                                 *)
LEMMA PayloadsNext == IInv /\ FrameOrder /\ Payloads /\ [Next]_vars => Payloads'
(* None of this puts anything but events into the queue. *)
<1>1. ASSUME IInv, Payloads, NEW s \in Sides, PipeMove(s)
      PROVE  pipe'[s].queue \in Seq(Events(Units))
  <2> USE <1>1
  <2>0. pipe[s] \in Pipe /\ holding[s] \in Units /\ pipe[s].queue \in Seq(Events(Units)) /\ <<>> \in Seq(Events(Units))
    BY SideTypes, NoElement DEF Payloads
  <2>1. Data(holding[s]) \in Events(Units) /\ StreamEnd("eof") \in Events(Units) /\ StreamEnd("error") \in Events(Units)
    BY <2>0 DEF Data, Events
  <2>2. \A x \in Events(Units) : Append(pipe[s].queue, x) \in Seq(Events(Units))
    BY <2>0, AppendElements
  <2>3. ASSUME NEW kind \in {"eof", "error"}
        PROVE  FinishStream(pipe[s], kind).queue \in Seq(Events(Units))
    <3>1. \/ FinishStream(pipe[s], kind).queue = pipe[s].queue
          \/ FinishStream(pipe[s], kind).queue = Append(pipe[s].queue, StreamEnd(kind))
      BY <2>0 DEF FinishStream, Pipe
    <3>2. QED
      BY <2>0, <2>1, <2>2, <3>1
  <2>4. /\ Write(pipe[s], holding[s]).queue = Append(pipe[s].queue, Data(holding[s]))
        /\ CloseWithError(pipe[s]).queue = pipe[s].queue /\ DropReader(pipe[s]).queue = <<>>
    BY <2>0 DEF Write, CloseWithError, DropReader, Pipe
  <2>5. QED
    BY <2>0, <2>1, <2>2, <2>3, <2>4 DEF PipeMove

<1>2. ASSUME IInv, FrameOrder, Payloads, [Next]_vars
      PROVE  Payloads'
  <2> USE <1>2
  <2> SUFFICES ASSUME NEW t \in Sides
               PROVE  holding'[t] \in Units /\ pipe'[t].queue \in Seq(Events(Units))
    BY DEF Payloads
  <2>0. /\ "client" \in Sides /\ "server" \in Sides /\ holding[t] \in Units /\ pipe[t].queue \in Seq(Events(Units))
        /\ net[t] \in Seq(Sendable) /\ <<>> \in Units
    BY StreamUnits DEF Payloads, FrameOrder, Sides
  <2>1. CASE P2cRead \/ HandRead \/ S2oRead
    <3>1. PICK s \in Sides : \E m : TakeAnswer(s, m)
      BY <2>0, <2>1 DEF P2cRead, HandRead, S2oRead
    <3>2. UNCHANGED holding
      BY <2>1 DEF P2cRead, HandRead, S2oRead, linkVars
    <3>3. pipe'[t].queue = pipe[t].queue \/ (pipe[t].queue # <<>> /\ pipe'[t].queue = Tail(pipe[t].queue))
      BY <3>1, ReadQueue
    <3>4. pipe[t].queue # <<>> => Tail(pipe[t].queue) \in Seq(Events(Units))
      BY <2>0, TailElements
    <3>5. QED
      BY <2>0, <3>2, <3>3, <3>4
  <2>2. CASE Quiet \/ SendAddress \/ C2pRead \/ O2sRead
    <3>1. pipe'[t].queue \in Seq(Events(Units))
      BY <2>2, PipeMoves, <1>1
    <3>2. UNCHANGED holding \/ \E s \in Sides : ReceivePsh(s) \/ Push(s)
      <4>1. CASE \E s \in Sides : Receiver(s) \/ Spawned(s)
        BY <4>1
           DEF Receiver, Spawned, StreamFrames, ReceiveSyn, ReceiveEnd, ReceiveOther, RunEnd, SpawnedTask, WriterEnd,
               ClosePipe, linkVars
      <4>2. CASE HandStep
        BY <4>2 DEF HandStep, HandCheck, HandClose, HandFin, HandConnect, HandRefuse, HandJoin, linkVars
      <4>3. CASE S2oTask \/ O2sTask \/ S2oWait \/ O2sEof \/ O2sRead
        BY <4>3
           DEF S2oTask, O2sTask, S2oCancelled, S2oDenied, S2oFin, S2oShut, O2sCancelled, O2sDenied, O2sFin, O2sError,
               S2oWait, O2sEof,
               O2sRead, linkVars
      <4>4. CASE C2pClose \/ C2pFin \/ C2pEnd \/ P2cWait \/ HandWait \/ Lose \/ Deny \/ DestReset \/ UNCHANGED vars
                 \/ SendAddress \/ C2pRead
        BY <4>4
           DEF C2pClose, C2pFin, C2pEnd, P2cWait, HandWait, Lose, LoseLink, Deny, DenyUser, DestReset, vars,
               SendAddress, C2pRead, linkVars
      <4>5. QED
        BY <2>2, <4>1, <4>2, <4>3, <4>4 DEF Quiet
    <3>3. ASSUME NEW s \in Sides, ReceivePsh(s) \/ Push(s)
          PROVE  holding'[t] \in Units
      <4>1. net[s] # <<>> => Head(net[s]).units \in Units
        <5>1. net[s] # <<>> => Head(net[s]) \in Sendable
          BY TailElements DEF FrameOrder
        <5>2. QED
          BY <5>1 DEF Sendable
      <4>2. holding \in [Sides -> Seq(Int)]
        BY DEF IInv, TypeInv
      <4>3. QED
        BY <2>0, <3>3, <4>1, <4>2 DEF ReceivePsh, Push, Arrived
    <3>4. QED
      BY <2>0, <3>1, <3>2, <3>3
  <2>3. QED
    BY Steps, <2>1, <2>2
<1>3. QED
  BY <1>2

-----------------------------------------------------------------------------
(* The handler and the relay.                                              *)

(* Where the handler is: what it left in the buffer is the address's end,  *)
(* and until it has dialled, it reads byte by byte.                        *)
Stage ==
  /\ hand \in {"new", "check", "dest", "rest", "dial", "relay", "close", "fin", "done"}
  /\ s2o \in {"select", "fin", "shut", "shuterr", "done"} /\ o2s \in {"select", "fin", "done"}
  /\ dials \in 0 .. MaxDials
  /\ pipe["client"].buffer = <<>> /\ pipe["client"].receiver /\ fut["client"] \in {0, Whole}
  /\ pipe["server"].buffer = (IF hand = "rest" THEN <<Rest>> ELSE <<>>)
  /\ fut["server"] \in {0, 1, Whole}
  /\ hand = "rest" => dials = 0 /\ fut["server"] = 0
  /\ hand = "dial" => dials < MaxDials /\ (dials = 0 => fut["server"] = 0)
  /\ dials = 0 => destGot = <<>> /\ fut["server"] \in {0, 1}
  /\ s2o # "done" \/ o2s # "done" => hand = "relay" /\ dials # 0
  /\ hand = "relay" => dials # 0
  /\ dials # 0 => hand # "new"
  /\ hand = "new" => fut["server"] = 0

(* A SYN finds no handler. *)
LEMMA SynNew ==
  ASSUME FrameOrder, NEW s \in Sides, ReceiveSyn(s)
  PROVE  hand = "new"
<1>1. net[s] \in Seq(Sendable) /\ net[s] # <<>> /\ Head(net[s]).cmd = "SYN"
  BY DEF FrameOrder, ReceiveSyn, Arrived
<1>2. Head(net[s]) = net[s][1] /\ 1 \in 1 .. Len(net[s])
  BY <1>1, TailElements
<1>3. QED
  BY <1>1, <1>2 DEF FrameOrder, SynFirst

(* What it has to do with the chunks that come up: n is the next one. *)
UpPhase(n) ==
  /\ dials = 0 /\ hand \in {"new", "check", "dest"} => n = 0
  /\ dials = 0 /\ hand \in {"rest", "dial"} => n = 1
  /\ dials # 0 => n # 0
  /\ dials = 1 /\ s2o = "select" => n = Len(destGot) + 1

(* And with the last one on its way, e - 1. *)
UpEnd(e) ==
  /\ e <= appSent + 1
  /\ c2p = "addr" => e = 0 /\ appSent = 0
  /\ ~lost /\ ~closed["client"] /\ c2p # "addr" => e = appSent + 1

UpOrder ==
  /\ destGot \in Seq(1 .. MaxPieces)
  /\ \E n, e \in Nat : SideFlow("server", n, e) /\ UpEnd(e) /\ UpPhase(n)

(* The steps that read nothing keep the stages in order. *)
LEMMA StageQuiet == IInv /\ FrameOrder /\ Stage /\ (Quiet \/ SendAddress \/ C2pRead \/ O2sRead) => Stage'
(* The parts of a pipe that such a step leaves alone. *)
<1>1. ASSUME IInv, NEW s \in Sides, PipeMove(s)
      PROVE  pipe'[s].buffer = pipe[s].buffer /\ (s = "client" => pipe'[s].receiver = pipe[s].receiver)
  <2> USE <1>1
  <2>1. pipe[s] \in Pipe
    BY SideTypes
  <2>2. ASSUME NEW kind
        PROVE  FinishStream(pipe[s], kind).buffer = pipe[s].buffer /\ FinishStream(pipe[s], kind).receiver = pipe[s].receiver
    BY <2>1 DEF FinishStream, Pipe
  <2>3. /\ Write(pipe[s], holding[s]).buffer = pipe[s].buffer /\ Write(pipe[s], holding[s]).receiver = pipe[s].receiver
        /\ CloseWithError(pipe[s]).buffer = pipe[s].buffer /\ CloseWithError(pipe[s]).receiver = pipe[s].receiver
        /\ DropReader(pipe[s]).buffer = pipe[s].buffer
    BY <2>1 DEF Write, CloseWithError, DropReader, Pipe
  <2>4. QED
    BY <2>2, <2>3 DEF PipeMove

<1>2. ASSUME IInv, FrameOrder, Stage, Quiet \/ SendAddress \/ C2pRead \/ O2sRead
      PROVE  Stage'
  <2> USE <1>2
  <2>0. "client" \in Sides /\ "server" \in Sides /\ "client" # "server" /\ fut \in [Sides -> Nat]
    BY DEF Sides, IInv, TypeInv
  <2>1. /\ pipe'["client"].buffer = pipe["client"].buffer /\ pipe'["client"].receiver = pipe["client"].receiver
        /\ pipe'["server"].buffer = pipe["server"].buffer
    BY <2>0, PipeMoves, <1>1
  <2>2. ASSUME UNCHANGED <<hand, dials, s2o, o2s, fut, destGot>>
        PROVE  Stage'
    BY ZenonT(30), <2>1, <2>2 DEF Stage
  <2>3. CASE \E s \in Sides : Receiver(s) \/ Spawned(s)
    <3>1. PICK s \in Sides : Receiver(s) \/ Spawned(s)
      BY <2>3
    <3>2. UNCHANGED <<dials, s2o, o2s, fut, destGot>>
      BY <3>1
         DEF Receiver, Spawned, StreamFrames, ReceiveSyn, ReceivePsh, ReceiveEnd, ReceiveOther, Push, RunEnd,
             SpawnedTask, WriterEnd,
             ClosePipe, streamVars, tunnelVars, relayVars, destVars
    <3>3. UNCHANGED hand \/ (ReceiveSyn(s) /\ hand' = "check")
      BY <3>1
         DEF Receiver, Spawned, StreamFrames, ReceiveSyn, ReceivePsh, ReceiveEnd, ReceiveOther, Push, RunEnd,
             SpawnedTask, WriterEnd,
             ClosePipe, handVars
    <3>4. ReceiveSyn(s) => hand = "new"
      BY SynNew
    <3>5. CASE hand = "new" /\ hand' = "check"
      BY <2>1, <3>2, <3>5 DEF Stage
    <3>6. QED
      BY <2>2, <3>2, <3>3, <3>4, <3>5
  <2>4. CASE C2pClose \/ C2pFin \/ C2pEnd \/ Lose \/ Deny \/ DestReset \/ UNCHANGED vars \/ SendAddress \/ C2pRead
    BY <2>2, <2>4
       DEF C2pClose, C2pFin, C2pEnd, Lose, LoseLink, Deny, DenyUser, DestReset, vars, SendAddress, C2pRead,
           streamVars, handVars, tunnelVars, relayVars, destVars
  <2>5. CASE P2cWait \/ HandWait \/ S2oWait
    <3>1. UNCHANGED <<hand, dials, s2o, o2s, destGot>>
      BY <2>5 DEF P2cWait, HandWait, S2oWait, handVars, tunnelVars, relayVars, destVars
    <3>2. CASE P2cWait
      BY <2>0, <2>1, <3>1, <3>2 DEF P2cWait, Waits, Stage
    <3>3. CASE HandWait
      <4>1. hand = "dest" /\ fut' = [fut EXCEPT !["server"] = 1]
        BY <3>3, ChunkParts DEF HandWait, Waits, ReadsNow, Stage
      <4>2. QED
        BY <2>0, <2>1, <3>1, <4>1 DEF Stage
    <3>4. CASE S2oWait
      <4>1. s2o = "select" /\ fut' = [fut EXCEPT !["server"] = Whole]
        BY <3>4 DEF S2oWait, Waits
      <4>2. QED
        BY <2>0, <2>1, <3>1, <4>1 DEF Stage
    <3>5. QED
      BY <2>5, <3>2, <3>3, <3>4
  <2>6. CASE (HandCheck \/ HandClose \/ HandFin) /\ UNCHANGED tunnelVars
    <3>1. UNCHANGED <<dials, s2o, o2s, destGot>>
      BY <2>6 DEF tunnelVars, relayVars, destVars
    <3>2. UNCHANGED fut \/ fut' = [fut EXCEPT !["server"] = 0]
      BY <2>6 DEF HandCheck, HandClose, HandFin, Leave, streamVars
    <3>3. hand \in {"check", "close", "fin"} /\ hand' \in {"dest", "fin", "done"}
      BY <2>6 DEF HandCheck, HandClose, HandFin
    <3>4. fut'["client"] = fut["client"] /\ (fut'["server"] = fut["server"] \/ fut'["server"] = 0)
      BY <2>0, <3>2
    <3>5. QED
      BY <2>1, <3>1, <3>3, <3>4 DEF Stage
  <2>7. CASE HandConnect
    <3>1. /\ hand = "dial" /\ dials' = dials + 1 /\ UNCHANGED <<fut, destGot>>
          /\ \/ hand' = "relay" /\ s2o' = "select" /\ o2s' = "select"
             \/ hand' = "done" /\ UNCHANGED <<s2o, o2s>>
      BY <2>7 DEF HandConnect, streamVars
    <3>2. dials' \in 0 .. MaxDials /\ dials' # 0
      <4>1. dials \in 0 .. MaxDials /\ dials < MaxDials
        BY <3>1 DEF Stage
      <4>2. QED
        BY SMT, <3>1, <4>1, TunnelAssumption
    <3>3. QED
      BY <2>1, <3>1, <3>2 DEF Stage
  <2>8. CASE HandRefuse \/ HandJoin
    <3>1. /\ UNCHANGED <<dials, fut, destGot, s2o, o2s>>
          /\ hand \in {"dial", "relay"} /\ hand' \in {"check", "close", "done"} /\ (hand = "relay" => s2o = "done" /\ o2s = "done")
      BY <2>8 DEF HandRefuse, HandJoin, streamVars, tunnelVars, relayVars, destVars
    <3>2. QED
      BY <2>1, <3>1 DEF Stage
  <2>9. CASE S2oTask
    <3>1. UNCHANGED <<hand, dials, o2s, fut, destGot>> /\ s2o # "done" /\ s2o' \in {"fin", "shut", "done"}
      BY <2>9 DEF S2oTask, S2oCancelled, S2oDenied, S2oFin, S2oShut, streamVars, handVars, destVars
    <3>2. QED
      BY <2>1, <3>1 DEF Stage
  <2>10. CASE O2sTask \/ O2sEof \/ O2sRead
    <3>1. UNCHANGED <<hand, dials, s2o, fut, destGot>> /\ o2s # "done" /\ o2s' \in {"select", "fin", "done"}
      BY <2>10
         DEF O2sTask, O2sCancelled, O2sDenied, O2sFin, O2sError, O2sEof, O2sRead, streamVars, handVars, destVars
    <3>2. QED
      BY <2>1, <3>1 DEF Stage
  <2>11. QED
    BY <2>3, <2>4, <2>5, <2>6, <2>7, <2>8, <2>9, <2>10 DEF Quiet, HandStep
<1>3. QED
  BY <1>2

(* Delivering the next number, one behind those that came before. *)
LEMMA DeliverNext ==
  ASSUME NEW got \in Seq(1 .. MaxPieces), NEW n \in Nat, n = Len(got) + 1, n <= MaxPieces
  PROVE  /\ got \o <<n>> = Append(got, Len(got) + 1) /\ got \o <<n>> \in Seq(1 .. MaxPieces)
         /\ n + 1 = Len(got \o <<n>>) + 1
<1> DEFINE S == 1 .. MaxPieces
<1>1. n \in S /\ got \in Seq(S)
  BY SMT, TunnelAssumption
<1> HIDE DEF S
<1>2. /\ got \o <<n>> = Append(got, n) /\ Append(got, n) \in Seq(S) /\ Len(Append(got, n)) = Len(got) + 1 /\ Len(got) \in Nat
  BY SMT, <1>1
<1>3. QED
  BY <1>2 DEF S

(* The upload stays in order, and only the relay delivers a piece of it: *)
(* the next one.                                                         *)
LEMMA UpNext ==
  IInv /\ FrameOrder /\ Stage /\ UpOrder /\ [Next]_vars =>
    /\ UpOrder' /\ (HandRead \/ S2oRead => Stage')
    /\ \/ UNCHANGED destGot
       \/ S2oRead /\ Len(destGot) < appSent /\ destGot' = Append(destGot, Len(destGot) + 1)
(* A step that moves no chunk keeps the order of the upload. *)
<1>1. IInv /\ FrameOrder /\ Stage /\ UpOrder /\ [Next]_vars /\ Quiet => UpOrder' /\ UNCHANGED destGot
  (* A step that moves no chunk leaves the server where it was in the        *)
  (* upload.                                                                 *)
  <2>1. ASSUME IInv, FrameOrder, Stage, Quiet, NEW n \in Nat, UpPhase(n)
        PROVE  UpPhase(n)'
    <3> USE <2>1
    <3>1. ASSUME UNCHANGED <<dials, destGot>>, UNCHANGED s2o \/ s2o' # "select",
                 \/ UNCHANGED hand
                 \/ hand = "new" /\ hand' = "check"
                 \/ hand = "check" /\ hand' = "dest"
                 \/ hand' \in {"fin", "done", "close"}
                 \/ dials # 0
          PROVE  UpPhase(n)'
      BY <3>1 DEF UpPhase
    <3>2. CASE \E s \in Sides : Receiver(s) \/ Spawned(s)
      <4>1. PICK s \in Sides : Receiver(s) \/ Spawned(s)
        BY <3>2
      <4>2. UNCHANGED <<dials, destGot, s2o>>
        BY <4>1 DEF Receiver, Spawned, tunnelVars, relayVars, destVars
      <4>3. UNCHANGED hand \/ (ReceiveSyn(s) /\ hand' = "check")
        BY <4>1
           DEF Receiver, Spawned, StreamFrames, ReceiveSyn, ReceivePsh, ReceiveEnd, ReceiveOther, Push, RunEnd,
               SpawnedTask, WriterEnd,
               ClosePipe, handVars
      <4>4. ReceiveSyn(s) => hand = "new"
        BY SynNew
      <4>5. QED
        BY <3>1, <4>2, <4>3, <4>4
    <3>3. CASE C2pClose \/ C2pFin \/ C2pEnd \/ P2cWait \/ HandWait \/ Lose \/ Deny \/ DestReset \/ UNCHANGED vars
      BY <3>1, <3>3
         DEF C2pClose, C2pFin, C2pEnd, P2cWait, HandWait, Lose, LoseLink, Deny, DenyUser, DestReset, vars,
             handVars, tunnelVars, relayVars, destVars
    <3>4. CASE (HandCheck \/ HandClose \/ HandFin) /\ UNCHANGED tunnelVars
      <4>1. UNCHANGED <<dials, destGot, s2o>>
        BY <3>4 DEF tunnelVars, relayVars, destVars
      <4>2. (hand = "check" /\ hand' = "dest") \/ hand' \in {"fin", "done", "close"}
        BY <3>4 DEF HandCheck, HandClose, HandFin
      <4>3. QED
        BY <3>1, <4>1, <4>2
    <3>5. CASE HandConnect
      <4>1. hand = "dial" /\ dials' = dials + 1 /\ UNCHANGED destGot /\ hand' \notin {"new", "check", "dest", "rest", "dial"}
        BY <3>5 DEF HandConnect
      <4>2. dials \in Nat /\ (dials = 0 => n = 1 /\ Len(destGot) = 0) /\ (dials # 0 => n # 0)
        <5>1. Len(<<>>) = 0
          BY SMT
        <5>2. dials \in 0 .. MaxDials /\ (dials = 0 => n = 1 /\ Len(destGot) = 0) /\ (dials # 0 => n # 0)
          BY <4>1, <5>1 DEF UpPhase, Stage
        <5>3. QED
          BY SMTT(30), <5>2, TunnelAssumption
      <4> DEFINE l == Len(destGot)
      <4> HIDE DEF l
      <4>3. dials' # 0 /\ n # 0 /\ (dials' = 1 => n = l + 1)
        BY SMT, <4>1, <4>2 DEF l
      <4>4. QED
        BY <4>1, <4>3 DEF UpPhase, l
    <3>6. CASE HandRefuse \/ HandJoin
      <4>1. /\ UNCHANGED <<dials, destGot, s2o>> /\ (hand' \in {"close", "done"} \/ hand = "relay")
        BY <3>6 DEF HandRefuse, HandJoin, tunnelVars, relayVars, destVars
      <4>2. QED
        BY <3>1, <4>1 DEF Stage
    <3>7. CASE S2oTask \/ O2sTask \/ S2oWait \/ O2sEof
      <4>1. UNCHANGED <<hand, dials, destGot>> /\ (UNCHANGED s2o \/ s2o' \in {"fin", "shut", "done"})
        BY <3>7
           DEF S2oTask, S2oCancelled, S2oDenied, S2oFin, S2oShut, O2sTask, O2sCancelled, O2sDenied, O2sFin, O2sError,
               O2sEof, S2oWait,
               handVars, destVars, tunnelVars, relayVars
      <4>2. QED
        BY <3>1, <4>1
    <3>8. QED
      BY <3>2, <3>3, <3>4, <3>5, <3>6, <3>7 DEF Quiet, HandStep

  (* A step that moves no chunk leaves the number of chunks sent upwards. *)
  <2>2. ASSUME IInv, Quiet, Onward, NEW e \in Nat, UpEnd(e)
        PROVE  UpEnd(e)'
    <3> USE <2>2
    <3>0. "client" \in Sides
      BY DEF Sides
    <3>1. UNCHANGED appSent /\ (UNCHANGED c2p \/ (c2p # "addr" /\ c2p' # "addr"))
      <4>1. CASE \E s \in Sides : Receiver(s) \/ Spawned(s)
        BY <4>1 DEF Receiver, Spawned, tunnelVars, appVars, taskVars
      <4>2. CASE C2pClose \/ C2pFin \/ C2pEnd \/ P2cWait \/ HandWait \/ Lose \/ Deny \/ DestReset \/ UNCHANGED vars
        BY <4>2
           DEF C2pClose, C2pFin, C2pEnd, P2cWait, HandWait, Lose, Deny, DestReset, vars, tunnelVars, appVars, taskVars
      <4>3. CASE HandStep
        BY <4>3 DEF HandStep, HandConnect, HandRefuse, HandJoin, tunnelVars, appVars, taskVars
      <4>4. CASE S2oTask \/ O2sTask \/ S2oWait \/ O2sEof
        BY <4>4
           DEF S2oTask, S2oCancelled, S2oDenied, S2oFin, S2oShut, O2sTask, O2sCancelled, O2sDenied, O2sFin, O2sError,
               O2sEof, S2oWait,
               tunnelVars, appVars, taskVars
      <4>5. QED
        BY <4>1, <4>2, <4>3, <4>4 DEF Quiet
    <3>2. QED
      BY <3>0, <3>1 DEF UpEnd, Onward

  <2>3. ASSUME IInv, FrameOrder, Stage, UpOrder, [Next]_vars, Quiet
        PROVE  UpOrder' /\ UNCHANGED destGot
    <3> USE <2>3
    <3>1. PICK n, e \in Nat : SideFlow("server", n, e) /\ UpEnd(e) /\ UpPhase(n)
      BY DEF UpOrder
    <3>2. SideFlow("server", n, e)'
      BY <3>1, QuietKeeps DEF Keeps, FrameOrder, Sides
    <3>3. Onward
      BY OnwardNext
    <3>4. UpEnd(e)' /\ UpPhase(n)'
      BY <3>1, <3>3, <2>2, <2>1
    <3>5. UNCHANGED destGot
      <4>1. CASE \E s \in Sides : Receiver(s) \/ Spawned(s)
        BY <4>1 DEF Receiver, Spawned, tunnelVars, destVars
      <4>2. CASE C2pClose \/ C2pFin \/ C2pEnd \/ P2cWait \/ HandWait \/ Lose \/ Deny \/ DestReset \/ UNCHANGED vars
        BY <4>2
           DEF C2pClose, C2pFin, C2pEnd, P2cWait, HandWait, Lose, Deny, DestReset, vars, tunnelVars, destVars
      <4>3. CASE HandStep
        BY <4>3 DEF HandStep, HandConnect, HandRefuse, HandJoin, tunnelVars, destVars
      <4>4. CASE S2oTask \/ O2sTask \/ S2oWait \/ O2sEof
        BY <4>4
           DEF S2oTask, S2oCancelled, S2oDenied, S2oFin, S2oShut, O2sTask, O2sCancelled, O2sDenied, O2sFin, O2sError,
               O2sEof, S2oWait,
               tunnelVars, destVars
      <4>5. QED
        BY <4>1, <4>2, <4>3, <4>4 DEF Quiet
    <3>6. QED
      BY <3>2, <3>4, <3>5 DEF UpOrder
  <2>4. QED
    BY <2>3

(* The address goes out first. *)
<1>2. ASSUME IInv, UpOrder, SendAddress
      PROVE  UpOrder' /\ UNCHANGED destGot
  <2> USE <1>2
  <2>0. /\ "client" \in Sides /\ "server" \in Sides /\ Peer("client") = "server" /\ appSent \in Nat
        /\ (writer["client"] = "down" => lost)
    BY DEF Sides, Peer, IInv, TypeInv, SideInv
  <2>1. PICK n, e \in Nat : SideFlow("server", n, e) /\ UpEnd(e) /\ UpPhase(n)
    BY DEF UpOrder
  <2>2. /\ UNCHANGED <<closed, mapped, pipe, holding, lost, appSent, destGot, dials, hand, s2o>> /\ c2p = "addr" /\ c2p' # "addr"
        /\ e = 0 /\ appSent = 0
    BY <2>1 DEF SendAddress, UpEnd, streamVars, destVars, relayVars, handVars
  <2>3. UpPhase(n)'
    BY <2>1, <2>2 DEF UpPhase
  <2>4. 0 <= 0 + 1 /\ 0 + 1 <= 0 + 1 /\ 0 + 1 \in Nat
    BY SMT
  <2>5. CASE Usable("client") /\ ~lost
    <3>1. net'["server"] = Append(net["server"], Psh(Address))
      BY <2>0, <2>5, SendEffect DEF SendAddress
    <3>2. Psh(Address) \in Replies /\ Psh(Address).cmd = "PSH" /\ Psh(Address).units = Chunk(e)
      <4>1. Address \in Seq(Int)
        BY SMT DEF Address, Atyp, Rest
      <4>2. QED
        BY <2>2, <4>1, FrameTypes DEF Psh, Chunk
    <3>3. SideFlow("server", n, e + 1)'
      BY <2>0, <2>1, <2>2, <3>1, <3>2, SideSent
    <3>4. UpEnd(e + 1)'
      BY <2>2, <2>4 DEF UpEnd
    <3>5. QED
      BY <2>2, <2>3, <2>4, <3>3, <3>4 DEF UpOrder
  <2>6. CASE ~(Usable("client") /\ ~lost)
    <3>1. UNCHANGED net
      BY <2>6 DEF SendAddress, Send
    <3>2. SideFlow("server", n, e)'
      BY <2>0, <2>1, <2>2, <3>1, SideAlone
    <3>3. UpEnd(e)'
      BY <2>0, <2>2, <2>4, <2>6 DEF UpEnd, Usable, Open
    <3>4. QED
      BY <2>2, <2>3, <3>2, <3>3 DEF UpOrder
  <2>7. QED
    BY <2>5, <2>6

(* Each piece is the next chunk. *)
<1>3. ASSUME IInv, UpOrder, C2pRead
      PROVE  UpOrder' /\ UNCHANGED destGot
  <2> USE <1>3
  <2>0. /\ "client" \in Sides /\ "server" \in Sides /\ Peer("client") = "server" /\ appSent \in Nat
        /\ (writer["client"] = "down" => lost)
    BY DEF Sides, Peer, IInv, TypeInv, SideInv
  <2>1. PICK n, e \in Nat : SideFlow("server", n, e) /\ UpEnd(e) /\ UpPhase(n)
    BY DEF UpOrder
  <2>2. /\ UNCHANGED <<closed, mapped, pipe, holding, lost, destGot, dials, hand, s2o>> /\ c2p = "read" /\ c2p' # "addr"
        /\ appSent' = appSent + 1
    BY DEF C2pRead, streamVars, destVars, relayVars, handVars
  <2>3. UpPhase(n)'
    BY <2>1, <2>2 DEF UpPhase
  <2>4. e <= appSent + 1 => e <= appSent' + 1
    BY SMT, <2>0, <2>2
  <2>5. CASE Usable("client") /\ ~lost
    <3>1. net'["server"] = Append(net["server"], Psh(<<appSent'>>))
      BY <2>0, <2>5, SendEffect DEF C2pRead
    <3>2. e = appSent'
      BY <2>1, <2>2, <2>5 DEF UpEnd, Usable
    <3>3. e # 0 /\ <<e>> \in Seq(Int) /\ e + 1 <= e + 1 /\ e + 1 \in Nat
      BY SMTT(30), <2>0, <2>2, <3>2
    <3>4. Psh(<<appSent'>>) \in Replies /\ Psh(<<appSent'>>).cmd = "PSH" /\ Psh(<<appSent'>>).units = Chunk(e)
      BY <3>2, <3>3, FrameTypes DEF Psh, Chunk
    <3>5. SideFlow("server", n, e + 1)'
      BY <2>0, <2>1, <2>2, <3>1, <3>4, SideSent
    <3>6. UpEnd(e + 1)'
      BY <2>2, <3>2, <3>3 DEF UpEnd
    <3>7. QED
      BY <2>1, <2>2, <2>3, <3>3, <3>5, <3>6 DEF UpOrder
  <2>6. CASE ~(Usable("client") /\ ~lost)
    <3>1. UNCHANGED net
      BY <2>6 DEF C2pRead, Send
    <3>2. SideFlow("server", n, e)'
      BY <2>0, <2>1, <2>2, <3>1, SideAlone
    <3>3. UpEnd(e)'
      BY <2>0, <2>1, <2>2, <2>4, <2>6 DEF UpEnd, Usable, Open
    <3>4. QED
      BY <2>1, <2>2, <2>3, <3>2, <3>3 DEF UpOrder
  <2>7. QED
    BY <2>5, <2>6

(* What goes down does not touch the chunks that come up. *)
<1>4. ASSUME IInv, UpOrder, O2sRead \/ P2cRead
      PROVE  UpOrder' /\ UNCHANGED destGot
  <2> USE <1>4
  <2>0. "client" \in Sides /\ "server" \in Sides /\ Peer("server") = "client" /\ "client" # "server"
    BY DEF Sides, Peer
  <2>1. PICK n, e \in Nat : SideFlow("server", n, e) /\ UpEnd(e) /\ UpPhase(n)
    BY DEF UpOrder
  <2>2. /\ UNCHANGED <<closed, mapped, holding, lost, appSent, c2p, destGot, dials, hand, s2o>>
    BY DEF O2sRead, P2cRead, streamVars, linkVars, appVars, taskVars, destVars, relayVars, handVars
  <2>3. net'["server"] = net["server"] /\ pipe'["server"] = pipe["server"]
    <3>1. CASE O2sRead
      BY <2>0, <3>1, SendEffect DEF O2sRead, streamVars
    <3>2. CASE P2cRead
      BY <2>0, <3>2, ReadQueue DEF P2cRead, linkVars
    <3>3. QED
      BY <3>1, <3>2
  <2>4. SideFlow("server", n, e)'
    BY <2>0, <2>1, <2>2, <2>3, SideAlone
  <2>5. UpEnd(e)' /\ UpPhase(n)'
    BY <2>1, <2>2 DEF UpEnd, UpPhase
  <2>6. QED
    BY <2>2, <2>4, <2>5 DEF UpOrder

(* A read of the server changes nothing else that the invariants mention. *)
<1>5. ASSUME IInv, HandRead \/ S2oRead
      PROVE  /\ UNCHANGED <<closed, mapped, net, holding, lost, appSent, c2p, dials, o2s>>
             /\ fut'["server"] = 0 /\ fut'["client"] = fut["client"]
             /\ HandRead => UNCHANGED <<s2o, destGot>>
             /\ S2oRead => UNCHANGED hand
  <2> USE <1>5
  <2>0. "client" \in Sides /\ "server" \in Sides /\ "client" # "server" /\ fut \in [Sides -> Nat]
    BY DEF Sides, IInv, TypeInv
  <2>1. UNCHANGED <<closed, mapped, net, holding, lost, appSent, c2p, dials, o2s>>
    BY DEF HandRead, S2oRead, linkVars, tunnelVars, appVars, taskVars, destVars, relayVars
  <2>2. fut' = [fut EXCEPT !["server"] = 0]
    BY DEF HandRead, S2oRead, TakeAnswer
  <2>3. QED
    BY <2>0, <2>1, <2>2 DEF HandRead, S2oRead, tunnelVars, relayVars, destVars, handVars

(* The handler reads the address, or a piece in its place. *)
<1>6. ASSUME IInv, Stage, UpOrder, HandRead
      PROVE  Stage' /\ UpOrder' /\ UNCHANGED destGot
  <2> USE <1>6
  (* The two parts of an address and the pieces are different units. *)
  <2>1. /\ <<Rest>> # <<Atyp>> /\ \A n \in Nat : n # 0 => <<n>> # <<Atyp>> /\ <<n>> # <<Rest>>
    <3>1. <<Rest>>[1] = Rest /\ <<Atyp>>[1] = Atyp /\ Rest # Atyp
      BY SMT DEF Rest, Atyp
    <3>2. ASSUME NEW n \in Nat, n # 0
          PROVE  <<n>>[1] = n /\ n # Rest /\ n # Atyp
      BY SMT, <3>2 DEF Rest, Atyp
    <3>3. QED
      BY <3>1, <3>2

  <2> DEFINE a == Answer("server", 1)
  <2>2. /\ "client" \in Sides /\ "server" \in Sides /\ "client" # "server" /\ TakeAnswer("server", 1) /\ 1 \in {1, Whole}
        /\ hand \in {"dest", "rest"}
    BY DEF Sides, HandRead
  <2>3. /\ UNCHANGED <<closed, mapped, net, holding, lost, appSent, c2p, dials, s2o, o2s, destGot>>
        /\ fut'["server"] = 0 /\ fut'["client"] = fut["client"]
    BY <1>5
  <2>4. \/ a.kind = "data" /\ a.units = <<Atyp>> /\ hand' = "rest"
        \/ a.kind = "data" /\ a.units = <<Rest>> /\ hand' = "dial"
        \/ a.kind = "data" /\ a.units \notin {<<Atyp>>, <<Rest>>} /\ (hand' = "done" \/ (hand' = "dial" /\ dials < MaxDials))
        \/ a.kind # "data" /\ hand' = "done"
    BY DEF HandRead
  <2>5. PICK n, e \in Nat : SideFlow("server", n, e) /\ UpEnd(e) /\ UpPhase(n)
    BY DEF UpOrder
  <2>6. UpEnd(e)'
    BY <2>3, <2>5 DEF UpEnd
  <2>7. pipe'["client"] = pipe["client"] /\ pipe'["client"].receiver
    BY <2>2, ReadQueue DEF Stage
  <2>8. /\ s2o = "done" /\ o2s = "done"
        /\ hand = "rest" => dials = 0 /\ fut["server"] = 0 /\ pipe["server"].buffer = <<Rest>>
        /\ hand = "dest" => pipe["server"].buffer = <<>>
    BY <2>2 DEF Stage
  <2> HIDE DEF a
  <2>9. ASSUME hand' = "done", pipe'["server"].buffer = <<>>
        PROVE  Stage' /\ \A k \in Nat : UpPhase(k) => UpPhase(k)'
    BY <2>3, <2>7, <2>8, <2>9 DEF Stage, UpPhase
  <2>10. CASE hand = "rest"
    <3>1. /\ Keeps /\ pipe'["server"].buffer = <<>> /\ a.kind = "data" /\ a.units = <<Rest>>
      BY ZenonT(30), <2>2, <2>3, <2>8, <2>10, ChunkParts, SideNow DEF a
    <3>2. hand' = "dial"
      BY <2>4, <3>1, <2>1
    <3>3. n = 1 /\ dials = 0 /\ fut["server"] = 0
      BY <2>5, <2>8, <2>10 DEF UpPhase
    <3>4. UpPhase(n)'
      BY <2>3, <2>8, <3>2, <3>3 DEF UpPhase
    <3>5. 0 < MaxDials
      BY SMT, TunnelAssumption
    <3>6. Stage'
      BY <2>3, <2>7, <2>8, <3>1, <3>2, <3>3, <3>5 DEF Stage
    <3>7. SideFlow("server", n, e)'
      BY <2>2, <2>5, <3>1 DEF Keeps
    <3>8. QED
      BY <2>3, <2>6, <3>4, <3>6, <3>7 DEF UpOrder
  <2>11. CASE hand = "dest" /\ fut["server"] = 0
    <3>1. Keeps /\ pipe'["server"].buffer = <<>> /\ a.kind = "eof"
      BY <2>2, <2>3, <2>8, <2>11, SideNow DEF a
    <3>2. hand' = "done"
      BY <2>4, <3>1
    <3>3. SideFlow("server", n, e)'
      BY <2>2, <2>5, <3>1 DEF Keeps
    <3>4. QED
      BY <2>3, <2>5, <2>6, <2>9, <3>1, <3>2, <3>3 DEF UpOrder
  <2>12. CASE hand = "dest" /\ fut["server"] # 0
    <3>0. fut["server"] \in {1, Whole} /\ pipe["server"].buffer = <<>> /\ (dials = 0 => fut["server"] = 1 /\ n = 0) /\ (dials # 0 => n # 0)
      BY <2>5, <2>8, <2>12 DEF Stage, UpPhase
    <3>1. /\ a.kind = "data" =>
                /\ n < e /\ SideFlow("server", n + 1, e)'
                /\ n # 0 => a.units = <<n>> /\ pipe'["server"].buffer = <<>>
                /\ n = 0 /\ fut["server"] = 1 => a.units = <<Atyp>> /\ pipe'["server"].buffer = <<Rest>>
          /\ a.kind # "data" => SideFlow("server", n, e)' /\ pipe'["server"].buffer = <<>>
      BY ZenonT(60), <2>2, <2>3, <2>5, <3>0, SideEvent DEF a
    <3>2. CASE a.kind # "data"
      BY <2>3, <2>4, <2>5, <2>6, <2>9, <3>1, <3>2 DEF UpOrder
    <3>3. CASE a.kind = "data" /\ dials = 0
      <4>1. hand' = "rest" /\ n + 1 = 1 /\ n + 1 \in Nat
        <5>1. hand' = "rest"
          BY ZenonT(30), <2>4, <3>0, <3>1, <3>3, <2>1
        <5>2. n + 1 = 1 /\ n + 1 \in Nat
          BY SMTT(30), <3>0, <3>3
        <5>3. QED
          BY <5>1, <5>2
      <4>2. UpPhase(n + 1)'
        BY <2>3, <2>8, <3>3, <4>1 DEF UpPhase
      <4>3. Stage'
        BY <2>3, <2>7, <2>8, <3>0, <3>1, <3>3, <4>1 DEF Stage
      <4>4. QED
        BY <2>3, <2>6, <3>1, <3>3, <4>1, <4>2, <4>3 DEF UpOrder
    <3>4. CASE a.kind = "data" /\ dials # 0
      <4>1. hand' = "done" \/ (hand' = "dial" /\ dials < MaxDials)
        BY <2>4, <3>0, <3>1, <3>4, <2>1
      <4>2. n + 1 # 0 /\ n + 1 \in Nat
        BY SMT
      <4>3. UpPhase(n + 1)'
        BY <2>3, <2>8, <3>4, <4>1, <4>2 DEF UpPhase
      <4>4. Stage'
        BY <2>3, <2>7, <2>8, <3>0, <3>1, <3>4, <4>1 DEF Stage
      <4>5. QED
        BY <2>3, <2>6, <3>1, <3>4, <4>2, <4>3, <4>4 DEF UpOrder
    <3>5. QED
      BY <3>2, <3>3, <3>4
  <2>13. QED
    BY <2>2, <2>10, <2>11, <2>12

(* The relay reads a piece for the destination. *)
<1>7. ASSUME IInv, FrameOrder, Stage, UpOrder, S2oRead
      PROVE  /\ Stage' /\ UpOrder'
             /\ UNCHANGED destGot \/ (Len(destGot) < appSent /\ destGot' = Append(destGot, Len(destGot) + 1))
  <2> USE <1>7
  <2> DEFINE a == Answer("server", Whole)
  <2>0. /\ "client" \in Sides /\ "server" \in Sides /\ "client" # "server" /\ TakeAnswer("server", Whole) /\ Whole \in {1, Whole}
        /\ s2o = "select"
    BY DEF Sides, S2oRead
  <2>1. /\ UNCHANGED <<closed, mapped, net, holding, lost, appSent, c2p, dials, o2s, hand>>
        /\ fut'["server"] = 0 /\ fut'["client"] = fut["client"]
    BY <1>5
  <2>2. \/ /\ a.kind = "data" /\ dest # "reset" /\ UNCHANGED s2o
           /\ destGot' = IF dials = 1 THEN destGot \o a.units ELSE destGot
        \/ a.kind = "data" /\ s2o' = "shuterr" /\ UNCHANGED destGot
        \/ a.kind # "data" /\ s2o' \in {"shut", "shuterr"} /\ UNCHANGED destGot
    BY DEF S2oRead
  <2>3. PICK n, e \in Nat : SideFlow("server", n, e) /\ UpEnd(e) /\ UpPhase(n)
    BY DEF UpOrder
  <2>4. UpEnd(e)'
    BY <2>1, <2>3 DEF UpEnd
  <2>5. pipe'["client"] = pipe["client"]
    BY <2>0, ReadQueue
  <2>6. hand = "relay" /\ dials # 0 /\ n # 0 /\ pipe["server"].buffer = <<>> /\ fut["server"] \in {0, 1, Whole}
    BY <2>0, <2>3 DEF Stage, UpPhase
  <2> HIDE DEF a
  <2>7. ASSUME pipe'["server"].buffer = <<>>
        PROVE  Stage'
    <3>1. s2o' \in {"select", "shut", "shuterr"}
      BY <2>0, <2>2
    <3>2. QED
      BY <2>1, <2>5, <2>6, <2>7, <3>1 DEF Stage
  <2>8. CASE a.kind # "data"
    <3>1. SideFlow("server", n, e)' /\ pipe'["server"].buffer = <<>>
      <4>1. CASE fut["server"] = 0
        BY <2>0, <2>1, <2>3, <2>6, <4>1, SideNow DEF Keeps
      <4>2. CASE fut["server"] # 0
        BY <2>0, <2>1, <2>3, <2>6, <2>8, <4>2, SideEvent DEF a
      <4>3. QED
        BY <4>1, <4>2
    <3>2. UpPhase(n)' /\ UNCHANGED destGot
      BY <2>1, <2>2, <2>6, <2>8 DEF UpPhase
    <3>3. QED
      BY <2>4, <2>7, <3>1, <3>2 DEF UpOrder
  <2>9. CASE a.kind = "data"
    <3>1. n < e /\ SideFlow("server", n + 1, e)' /\ a.units = <<n>> /\ pipe'["server"].buffer = <<>>
      <4>1. CASE fut["server"] = 0
        BY <2>0, <2>1, <2>6, <2>9, <4>1, SideNow DEF a
      <4>2. CASE fut["server"] # 0
        BY ZenonT(30), <2>0, <2>1, <2>3, <2>6, <2>9, <4>2, SideEvent DEF a
      <4>3. QED
        BY <4>1, <4>2
    <3>2. n <= appSent /\ n <= MaxPieces /\ n + 1 # 0 /\ n + 1 \in Nat
      <4>1. e <= appSent + 1 /\ appSent \in Nat /\ destSent \in Nat /\ appSent + destSent <= MaxPieces
        BY <2>3 DEF UpEnd, IInv, TypeInv, FrameOrder
      <4>2. QED
        BY SMTT(30), <3>1, <4>1, TunnelAssumption
    <3>3. CASE UNCHANGED destGot /\ (dials # 1 \/ s2o' # "select")
      <4>1. UpPhase(n + 1)'
        BY <2>1, <2>6, <3>2, <3>3 DEF UpPhase
      <4>2. QED
        BY <2>4, <2>7, <3>1, <3>2, <3>3, <4>1 DEF UpOrder
    <3>4. CASE dials = 1 /\ destGot' = destGot \o <<n>> /\ UNCHANGED s2o
      <4>1. destGot \in Seq(1 .. MaxPieces) /\ n = Len(destGot) + 1
        BY <2>0, <2>3, <3>4 DEF UpOrder, UpPhase
      <4>2. /\ destGot' = Append(destGot, Len(destGot) + 1) /\ destGot' \in Seq(1 .. MaxPieces) /\ n + 1 = Len(destGot') + 1
        BY <3>2, <3>4, <4>1, DeliverNext
      <4>3. UpPhase(n + 1)'
        BY <2>1, <2>6, <3>2, <4>2 DEF UpPhase
      <4>4. Len(destGot) < appSent
        <5>1. Len(destGot) \in Nat /\ appSent \in Nat
          BY SMT, <4>1 DEF IInv, TypeInv
        <5>2. QED
          BY SMTT(30), <3>2, <4>1, <5>1
      <4>5. QED
        BY <2>4, <2>7, <3>1, <3>2, <4>2, <4>3, <4>4 DEF UpOrder
    <3>5. QED
      BY <2>2, <2>9, <3>1, <3>3, <3>4
  <2>10. QED
    BY <2>8, <2>9

<1>8. QED
  BY Steps, <1>1, <1>2, <1>3, <1>4, <1>6, <1>7

-----------------------------------------------------------------------------
(* Down to the application.                                                *)

(* No failure, and the application has not closed its side. *)
Calm == ~lost /\ ~denied /\ app = "open"

LastEof(q) == q # <<>> /\ q[Len(q)].kind = "eof"

(* p2c expects chunk n, and the last one on its way is e - 1. *)
DownEnd(e) ==
  /\ e <= destSent + 1
  /\ Calm \/ (~lost /\ ~closed["server"]) => e = destSent + 1
DownPhase(n, e) ==
  /\ n # 0
  /\ p2c # "done" => n = Len(appGot) + 1
  /\ Calm /\ LastEof(pipe["client"].queue) => closed["server"] /\ n + Len(pipe["client"].queue) = e + 1
DownOrder ==
  /\ appGot \in Seq(1 .. MaxPieces)
  /\ \E n, e \in Nat : SideFlow("client", n, e) /\ DownEnd(e) /\ DownPhase(n, e)

(* Until something fails, only the end of the destination's pieces ends    *)
(* what the application reads.                                             *)
Undisturbed ==
  /\ mapped["client"] => ~closed["client"]
  /\ p2c # "done" => appEnd = "no"
  /\ c2p = "addr" => p2c = "new"
  /\ Calm =>
       /\ closed["server"] => o2s # "select" /\ hand \in {"relay", "check", "fin", "done"}
       /\ c2p # "fin" /\ (c2p = "close" => closed["client"]) /\ ~spawned["client"]
       /\ p2c # "done" => ~pipe["client"].closed /\ pipe["client"].sender
       /\ \A i \in 1 .. Len(net["server"]) : net["server"][i].cmd \in {"SYN", "PSH"}
       /\ appEnd = "eof" => closed["server"] /\ Len(appGot) = destSent

(* What is undisturbed after a step was so before it. *)
LEMMA CalmBefore ==
  ASSUME Onward, Calm'
  PROVE  Calm
BY DEF Onward, Calm

(* The pipe of the client, as long as all is calm. *)
LEMMA CalmPipe ==
  IInv /\ FrameOrder /\ Stage /\ Undisturbed /\ Onward /\ Calm' /\ PipeMove("client") =>
    \A n, e \in Nat :
      /\ SideFlow("client", n, e)
      /\ LastEof(pipe["client"].queue) => closed["server"] /\ n + Len(pipe["client"].queue) = e + 1
      => /\ LastEof(pipe'["client"].queue) => closed["server"] /\ n + Len(pipe'["client"].queue) = e + 1
         /\ pipe'["client"].closed = pipe["client"].closed /\ pipe'["client"].sender = pipe["client"].sender
(* What a new last event is. *)
<1>1. ASSUME NEW S, NEW q \in Seq(S), NEW x \in S
      PROVE  LastEof(Append(q, x)) => x.kind = "eof"
  <2> USE <1>1
  <2>1. Len(Append(q, x)) = Len(q) + 1 /\ Append(q, x)[Len(q) + 1] = x
    BY SMT
  <2>2. QED
    BY <2>1 DEF LastEof

(* A stream that is in the map takes what comes for it. *)
<1>2. ASSUME IInv, Stage, ~closed["client"]
      PROVE  CanWrite(pipe["client"])
  BY <1>2 DEF IInv, SideInv, Running, CanWrite, Sides, Stage

(* When the FIN is next, everything has been queued. *)
<1>3. ASSUME IInv, FrameOrder, Stage, ~closed["client"], mapped["client"], Arrived("client", {"FIN"}),
             CanWrite(pipe["client"]), NEW n \in Nat, NEW e \in Nat, SideFlow("client", n, e)
      PROVE  closed["server"] /\ n + Len(pipe["client"].queue) = e
  <2> USE <1>3
  <2> DEFINE q == net["client"]
  <2>0. "client" \in Sides /\ pipe["client"] \in Pipe /\ q \in Seq(Sendable) /\ q # <<>> /\ Head(q).cmd = "FIN" /\ holding["client"] = <<>>
    BY SideTypes DEF Sides, FrameOrder, Arrived
  <2>1. Numbered(q, Behind(pipe["client"], <<>>, n), e)
    BY <2>0 DEF SideFlow, Flow, Live
  <2>2. Behind(pipe["client"], <<>>, n) = n + Len(pipe["client"].queue) /\ n + Len(pipe["client"].queue) \in Nat
    BY SMT, <2>0 DEF Behind, Pipe
  <2>3. Head(q) = q[1] /\ 1 \in 1 .. Len(q)
    BY <2>0, TailElements
  <2>4. closed["server"] /\ \A j \in 1 + 1 .. Len(q) : q[j].cmd # "PSH"
    BY <2>0, <2>3 DEF FrameOrder, FinLast
  <2>5. \A j \in 1 .. Len(q) : j = 1 \/ j \in 1 + 1 .. Len(q)
    <3>1. Len(q) \in Nat
      BY SMT, <2>0
    <3> HIDE DEF q
    <3>2. QED
      BY SMTT(30), <3>1
  <2> HIDE DEF q
  <2>6. \A j \in 1 .. Len(q) : q[j].cmd # "PSH"
    BY <2>0, <2>3, <2>4, <2>5
  <2>7. Behind(pipe["client"], <<>>, n) = e
    <3> DEFINE b == Behind(pipe["client"], <<>>, n)
    <3>1. b \in Nat /\ Numbered(q, b, e) /\ q \in Seq(Sendable) /\ q # <<>>
      BY <2>0, <2>1, <2>2
    <3> HIDE DEF b
    <3>2. b = e
      BY <2>6, <3>1, NumberedTail
    <3>3. QED
      BY <3>2 DEF b
  <2>8. QED
    BY <2>2, <2>4, <2>7

(* A pipe that can be written gets its end behind what is queued. *)
<1>4. ASSUME NEW p \in Pipe, CanWrite(p), NEW kind
      PROVE  /\ FinishStream(p, kind).queue = Append(p.queue, StreamEnd(kind))
             /\ FinishStream(p, kind).closed = p.closed /\ FinishStream(p, kind).sender = p.sender
  BY <1>4 DEF CanWrite, FinishStream, Pipe

<1>5. ASSUME IInv, FrameOrder, Stage, Undisturbed, Onward, Calm', PipeMove("client"),
             NEW n \in Nat, NEW e \in Nat, SideFlow("client", n, e),
             LastEof(pipe["client"].queue) => closed["server"] /\ n + Len(pipe["client"].queue) = e + 1
      PROVE  /\ LastEof(pipe'["client"].queue) => closed["server"] /\ n + Len(pipe'["client"].queue) = e + 1
             /\ pipe'["client"].closed = pipe["client"].closed /\ pipe'["client"].sender = pipe["client"].sender
  <2> USE <1>5
  <2> DEFINE p == pipe["client"]
             r == pipe'["client"]
  <2>0. "client" \in Sides /\ p \in Pipe /\ p.queue \in Seq(Event) /\ holding["client"] \in Seq(Int) /\ Calm /\ ~lost /\ ~spawned["client"]
    BY SideTypes, CalmBefore DEF Sides, Undisturbed, Calm, Pipe
  <2>1. mapped["client"] => ~closed["client"] /\ CanWrite(p)
    BY <1>2 DEF Undisturbed
  <2>2. CASE r = p
    BY <2>2
  <2>3. CASE r = Write(p, holding["client"])
    <3>1. r.queue = Append(p.queue, Data(holding["client"])) /\ r.closed = p.closed /\ r.sender = p.sender
      BY <2>0, <2>3 DEF Write, Pipe
    <3>2. Data(holding["client"]) \in Event /\ Data(holding["client"]).kind # "eof"
      BY <2>0 DEF Data, Event
    <3>3. ~LastEof(r.queue)
      BY <2>0, <3>1, <3>2, <1>1
    <3>4. QED
      BY <3>1, <3>3
  <2>4. ASSUME NEW kind \in {"eof", "error"}, mapped["client"], r = FinishStream(p, kind)
        PROVE  r.queue = Append(p.queue, StreamEnd(kind)) /\ r.closed = p.closed /\ r.sender = p.sender
    <3>1. CanWrite(p) /\ p \in Pipe
      BY <2>0, <2>1, <2>4
    <3> HIDE DEF p
    <3>2. /\ FinishStream(p, kind).queue = Append(p.queue, StreamEnd(kind))
          /\ FinishStream(p, kind).closed = p.closed /\ FinishStream(p, kind).sender = p.sender
      BY <3>1, <1>4
    <3> HIDE DEF r
    <3>3. QED
      BY <2>4, <3>2
  <2>5. CASE mapped["client"] /\ Arrived("client", {"FIN"}) /\ r = FinishStream(p, "eof")
    <3>1. r.queue = Append(p.queue, StreamEnd("eof")) /\ r.closed = p.closed /\ r.sender = p.sender
      BY <2>4, <2>5
    <3>2. StreamEnd("eof") \in Event
      BY SMT DEF StreamEnd, Event
    <3>3. closed["server"] /\ n + Len(p.queue) = e
      BY <2>1, <2>5, <1>3
    <3> DEFINE q == p.queue
               x == StreamEnd("eof")
    <3>4. q \in Seq(Event) /\ x \in Event /\ n + Len(q) = e /\ r.queue = Append(q, x)
      BY <2>0, <3>1, <3>2, <3>3
    <3> HIDE DEF p, q, r, x
    <3>5. n + Len(Append(q, x)) = e + 1
      <4>1. q \in Seq(Event) /\ x \in Event
        BY <3>4
      <4>2. Len(Append(q, x)) = Len(q) + 1 /\ Len(q) \in Nat
        BY SMT, <4>1
      <4> DEFINE l == Len(q)
      <4>3. l \in Nat /\ n + l = e /\ Len(Append(q, x)) = l + 1
        BY <3>4, <4>2
      <4> HIDE DEF l
      <4>4. QED
        BY SMT, <4>3
    <3>6. n + Len(r.queue) = e + 1
      BY <3>4, <3>5
    <3>7. QED
      BY <3>1, <3>3, <3>6 DEF p, r
  <2>6. CASE mapped["client"] /\ r = FinishStream(p, "error")
    <3>1. r.queue = Append(p.queue, StreamEnd("error")) /\ r.closed = p.closed /\ r.sender = p.sender
      BY <2>4, <2>6
    <3>2. StreamEnd("error") \in Event /\ StreamEnd("error").kind # "eof"
      BY SMT DEF StreamEnd, Event
    <3>3. ~LastEof(r.queue)
      BY <2>0, <3>1, <3>2, <1>1
    <3>4. QED
      BY <3>1, <3>3
  <2>7. QED
    BY <2>0, <2>2, <2>3, <2>5, <2>6 DEF PipeMove
<1>6. QED
  BY <1>5

(* Steps that neither read nor send a piece. *)
LEMMA DownStatic ==
  ASSUME Quiet
  PROVE  UNCHANGED <<p2c, appGot, destSent, appEnd>>
<1>1. CASE \E s \in Sides : Receiver(s) \/ Spawned(s)
  BY <1>1 DEF Receiver, Spawned, tunnelVars, appVars, taskVars, destVars
<1>2. CASE C2pClose \/ C2pFin \/ C2pEnd \/ P2cWait \/ HandWait \/ Lose \/ Deny \/ DestReset \/ UNCHANGED vars
  BY <1>2
     DEF C2pClose, C2pFin, C2pEnd, P2cWait, HandWait, Lose, Deny, DestReset, vars, tunnelVars, appVars, taskVars, destVars
<1>3. CASE HandStep
  BY <1>3 DEF HandStep, HandConnect, HandRefuse, HandJoin, tunnelVars, appVars, taskVars, destVars
<1>4. CASE S2oTask \/ O2sTask \/ S2oWait \/ O2sEof
  BY <1>4
     DEF S2oTask, S2oCancelled, S2oDenied, S2oFin, S2oShut, O2sTask, O2sCancelled, O2sDenied, O2sFin, O2sError,
         O2sEof, S2oWait,
         tunnelVars, appVars, taskVars, destVars
<1>5. QED
  BY <1>1, <1>2, <1>3, <1>4 DEF Quiet

(* Until p2c reads, the download stays in order. *)
LEMMA DownNext ==
  IInv /\ FrameOrder /\ Stage /\ Undisturbed /\ DownOrder /\ [Next]_vars /\ ~P2cRead =>
    DownOrder' /\ UNCHANGED appGot
(* A step that moves no chunk keeps the order of the download. *)
<1>1. ASSUME IInv, FrameOrder, Stage, Undisturbed, DownOrder, [Next]_vars, Quiet
      PROVE  DownOrder' /\ UNCHANGED appGot
  <2> USE <1>1
  (* A step without a piece of the destination leaves the number of chunks   *)
  (* sent downwards.                                                         *)
  <2>1. ASSUME Onward, UNCHANGED destSent, NEW e \in Nat, DownEnd(e)
        PROVE  DownEnd(e)'
    <3> USE <2>1
    <3>1. Calm' => Calm
      BY CalmBefore
    <3>2. ~lost' /\ ~closed'["server"] => ~lost /\ ~closed["server"]
      BY DEF Onward, Sides
    <3>3. QED
      BY <3>1, <3>2 DEF DownEnd

  <2>2. "client" \in Sides /\ "server" \in Sides /\ Onward /\ UNCHANGED <<p2c, appGot, destSent>> /\ PipeMove("client")
    BY OnwardNext, DownStatic, PipeMoves DEF Sides
  <2>3. PICK n, e \in Nat : SideFlow("client", n, e) /\ DownEnd(e) /\ DownPhase(n, e)
    BY DEF DownOrder
  <2>4. SideFlow("client", n, e)'
    BY <2>2, <2>3, QuietKeeps DEF Keeps, FrameOrder
  <2>5. DownEnd(e)'
    BY <2>2, <2>3, <2>1
  <2>6. ASSUME Calm', LastEof(pipe'["client"].queue)
        PROVE  closed'["server"] /\ n + Len(pipe'["client"].queue) = e + 1
    <3>1. LastEof(pipe["client"].queue) => closed["server"] /\ n + Len(pipe["client"].queue) = e + 1
      BY <2>2, <2>3, <2>6, CalmBefore DEF DownPhase
    <3>2. closed["server"] /\ n + Len(pipe'["client"].queue) = e + 1
      BY <2>2, <2>3, <2>6, <3>1, CalmPipe
    <3>3. QED
      BY <2>2, <3>2 DEF Onward
  <2>7. DownPhase(n, e)'
    BY <2>2, <2>3, <2>6 DEF DownPhase
  <2>8. QED
    BY <2>2, <2>4, <2>5, <2>7 DEF DownOrder

(* The destination's next piece. *)
<1>2. ASSUME IInv, Undisturbed, DownOrder, O2sRead
      PROVE  DownOrder' /\ UNCHANGED appGot
  <2> USE <1>2
  <2>0. /\ "client" \in Sides /\ "server" \in Sides /\ Peer("server") = "client" /\ destSent \in Nat
        /\ (writer["server"] = "down" => lost)
    BY DEF Sides, Peer, IInv, TypeInv, SideInv
  <2>1. PICK n, e \in Nat : SideFlow("client", n, e) /\ DownEnd(e) /\ DownPhase(n, e)
    BY DEF DownOrder
  <2>2. /\ UNCHANGED <<closed, mapped, pipe, holding, lost, denied, app, appGot, p2c>> /\ o2s = "select"
        /\ destSent' = destSent + 1
    BY DEF O2sRead, streamVars, appVars, taskVars, handVars
  <2>3. e <= destSent + 1 => e <= destSent' + 1
    BY SMT, <2>0, <2>2
  <2>4. CASE Usable("server") /\ ~lost
    <3>1. net'["client"] = Append(net["client"], Psh(<<destSent'>>))
      BY ZenonT(30), <2>0, <2>4, SendEffect DEF O2sRead
    <3>2. e = destSent' /\ ~closed["server"]
      BY <2>1, <2>2, <2>4 DEF DownEnd, Usable
    <3>3. e # 0 /\ <<e>> \in Seq(Int) /\ e + 1 <= e + 1 /\ e + 1 \in Nat
      BY SMTT(30), <2>0, <2>2, <3>2
    <3>4. Psh(<<destSent'>>) \in Replies /\ Psh(<<destSent'>>).cmd = "PSH" /\ Psh(<<destSent'>>).units = Chunk(e)
      BY <3>2, <3>3, FrameTypes DEF Psh, Chunk
    <3>5. SideFlow("client", n, e + 1)'
      BY <2>0, <2>1, <2>2, <3>1, <3>4, SideSent
    <3>6. DownEnd(e + 1)'
      BY <3>2, <3>3 DEF DownEnd
    <3>7. DownPhase(n, e + 1)'
      BY <2>1, <2>2, <3>2 DEF DownPhase, Calm
    <3>8. QED
      BY <2>2, <3>3, <3>5, <3>6, <3>7 DEF DownOrder
  <2>5. CASE ~(Usable("server") /\ ~lost)
    <3>1. UNCHANGED net
      BY <2>5 DEF O2sRead, Send
    <3>2. SideFlow("client", n, e)'
      BY <2>0, <2>1, <2>2, <3>1, SideAlone
    <3>3. lost \/ (closed["server"] /\ ~Calm)
      BY <2>0, <2>2, <2>5 DEF Usable, Open, Undisturbed
    <3>4. DownEnd(e)'
      BY <2>1, <2>2, <2>3, <3>3 DEF DownEnd, Calm
    <3>5. DownPhase(n, e)'
      BY <2>1, <2>2 DEF DownPhase, Calm
    <3>6. QED
      BY <2>2, <3>2, <3>4, <3>5 DEF DownOrder
  <2>6. QED
    BY <2>4, <2>5

(* What goes up does not touch the chunks that come down. *)
<1>3. ASSUME IInv, Undisturbed, DownOrder, SendAddress \/ C2pRead \/ HandRead \/ S2oRead
      PROVE  DownOrder' /\ UNCHANGED appGot
  <2> USE <1>3
  <2>0. "client" \in Sides /\ "server" \in Sides /\ Peer("client") = "server" /\ "client" # "server"
    BY DEF Sides, Peer
  <2>1. PICK n, e \in Nat : SideFlow("client", n, e) /\ DownEnd(e) /\ DownPhase(n, e)
    BY DEF DownOrder
  <2>2. UNCHANGED <<closed, mapped, holding, lost, denied, app, destSent, appGot>>
    BY DEF SendAddress, C2pRead, HandRead, S2oRead, streamVars, linkVars, tunnelVars, appVars, destVars, handVars
  <2>3. net'["client"] = net["client"] /\ pipe'["client"] = pipe["client"] /\ (p2c = "done" => p2c' = "done")
    <3>1. CASE SendAddress
      BY <2>0, <3>1, SendEffect DEF SendAddress, streamVars, Undisturbed
    <3>2. CASE C2pRead
      BY <2>0, <3>2, SendEffect DEF C2pRead, streamVars
    <3>3. CASE HandRead \/ S2oRead
      <4>1. \E m : TakeAnswer("server", m)
        BY <3>3 DEF HandRead, S2oRead
      <4>2. QED
        BY <2>0, <3>3, <4>1, ReadQueue DEF HandRead, S2oRead, linkVars, tunnelVars, taskVars
    <3>4. QED
      BY <3>1, <3>2, <3>3
  <2>4. SideFlow("client", n, e)'
    BY <2>0, <2>1, <2>2, <2>3, SideAlone
  <2>5. DownEnd(e)' /\ DownPhase(n, e)'
    BY <2>1, <2>2, <2>3 DEF DownEnd, DownPhase, Calm
  <2>6. QED
    BY <2>2, <2>4, <2>5 DEF DownOrder

<1>4. QED
  BY Steps, <1>1, <1>2, <1>3

(* p2c reads a piece for the application. *)
LEMMA DownRead ==
  IInv /\ FrameOrder /\ Stage /\ Undisturbed /\ DownOrder /\ P2cRead =>
    /\ Stage' /\ DownOrder' /\ Undisturbed'
    /\ UNCHANGED appGot \/ (Len(appGot) < destSent /\ appGot' = Append(appGot, Len(appGot) + 1))
(* Taking the first event leaves the last one. *)
<1>1. ASSUME NEW S, NEW q \in Seq(S), q # <<>>, LastEof(Tail(q))
      PROVE  LastEof(q) /\ \A n, e \in Nat : n + Len(q) = e => (n + 1) + Len(Tail(q)) = e
  <2> USE <1>1
  <2> DEFINE l == Len(q)
             r == Tail(q)
  <2>1. l \in Nat \ {0} /\ Len(r) = l - 1 /\ (r # <<>> => r[l - 1] = q[l])
    BY SMT
  <2>2. LastEof(q)
    BY <2>1 DEF LastEof
  <2> HIDE DEF l, r
  <2>3. \A n, e \in Nat : n + l = e => (n + 1) + (l - 1) = e
    BY SMT, <2>1
  <2>4. QED
    BY <2>1, <2>2, <2>3 DEF l, r

(* What p2c does with the answer to its read. *)
<1>2. ASSUME IInv, Stage, P2cRead
      PROVE  /\ UNCHANGED <<closed, mapped, spawned, net, holding, lost, denied, app, appSent, c2p, destVars, relayVars, hand>>
             /\ fut'["client"] = 0 /\ fut'["server"] = fut["server"] /\ pipe'["server"] = pipe["server"]
             /\ pipe'["client"].receiver
             /\ p2c = "read" /\ TakeAnswer("client", Whole) /\ fut["client"] \in {0, Whole}
             /\ \/ /\ Answer("client", Whole).kind = "data" /\ app # "gone" /\ UNCHANGED <<p2c, appEnd>>
                   /\ appGot' = appGot \o Answer("client", Whole).units
                \/ /\ Answer("client", Whole).kind = "data" /\ app = "gone" /\ UNCHANGED appGot
                   /\ p2c' = "done" /\ appEnd' = "error"
                \/ /\ Answer("client", Whole).kind # "data" /\ UNCHANGED appGot
                   /\ p2c' = "done" /\ appEnd' = Answer("client", Whole).kind
  <2> USE <1>2
  <2>0. "client" \in Sides /\ "server" \in Sides /\ "client" # "server" /\ fut \in [Sides -> Nat]
    BY DEF Sides, IInv, TypeInv
  <2>1. UNCHANGED <<closed, mapped, spawned, net, holding, lost, denied, app, appSent, c2p, destVars, relayVars, hand>>
    BY DEF P2cRead, linkVars, handVars
  <2>2. p2c = "read" /\ TakeAnswer("client", Whole) /\ fut' = [fut EXCEPT !["client"] = 0]
    BY DEF P2cRead, TakeAnswer
  <2>3. pipe'["server"] = pipe["server"] /\ pipe'["client"].receiver
    BY <2>0, <2>2, ReadQueue DEF Stage
  <2>4. QED
    BY <2>0, <2>1, <2>2, <2>3 DEF P2cRead, Stage

(* Without a failure, p2c comes to the end only behind the last piece. *)
<1>3. ASSUME IInv, Stage, Undisturbed, Calm, P2cRead, Answer("client", Whole).kind = "eof",
             appGot \in Seq(1 .. MaxPieces), NEW n \in Nat, NEW e \in Nat, SideFlow("client", n, e), DownEnd(e), DownPhase(n, e)
      PROVE  closed["server"] /\ Len(appGot) = destSent
  <2> USE <1>3
  <2> DEFINE q == pipe["client"].queue
  <2>0. /\ "client" \in Sides /\ Whole \in {1, Whole} /\ TakeAnswer("client", Whole) /\ p2c = "read"
        /\ UNCHANGED <<closed, mapped, net, holding>> /\ fut["client"] \in {0, Whole} /\ q \in Seq(Event)
    BY <1>2, SideTypes DEF Sides, Pipe
  <2>1. ~pipe["client"].closed /\ pipe["client"].sender /\ pipe["client"].buffer = <<>>
    BY <2>0 DEF Undisturbed, Stage
  <2>2. fut["client"] # 0
    BY <2>0, <2>1, SideNow DEF AtEnd
  <2>3. Len(q) = 1 /\ q # <<>> /\ Head(q).kind = "eof"
    BY <2>0, <2>1, <2>2, SideEvent
  <2>4. Head(q) = q[1]
    BY <2>0, <2>3, TailElements
  <2>5. LastEof(q)
    BY <2>3, <2>4 DEF LastEof
  <2>6. closed["server"] /\ n + 1 = e + 1 /\ n = Len(appGot) + 1 /\ e = destSent + 1
    BY <2>0, <2>3, <2>5 DEF DownPhase, DownEnd
  <2>7. destSent \in Nat
    BY DEF IInv, TypeInv
  <2>8. Len(appGot) \in Nat
    BY SMT
  <2> DEFINE l == Len(appGot)
  <2>9. n + 1 = e + 1 /\ n = l + 1 /\ e = destSent + 1 /\ l \in Nat
    BY <2>6, <2>8
  <2> HIDE DEF l
  <2>10. l = destSent
    BY SMT, <2>7, <2>9
  <2>11. QED
    BY <2>6, <2>10 DEF l

<1>4. ASSUME IInv, FrameOrder, Stage, Undisturbed, DownOrder, P2cRead
      PROVE  /\ Stage' /\ DownOrder' /\ Undisturbed'
             /\ UNCHANGED appGot \/ (Len(appGot) < destSent /\ appGot' = Append(appGot, Len(appGot) + 1))
  <2> USE <1>4
  <2> DEFINE a == Answer("client", Whole)
  <2>0. /\ "client" \in Sides /\ Whole \in {1, Whole} /\ TakeAnswer("client", Whole) /\ p2c = "read" /\ appGot \in Seq(1 .. MaxPieces)
        /\ UNCHANGED <<closed, mapped, spawned, net, holding, lost, denied, app, appSent, c2p, destSent, destGot, dials, s2o, o2s, hand>>
        /\ fut["client"] \in {0, Whole} /\ pipe["client"].buffer = <<>>
    BY <1>2 DEF Sides, Stage, DownOrder, destVars, relayVars
  <2>1. \/ a.kind = "data" /\ app # "gone" /\ UNCHANGED <<p2c, appEnd>> /\ appGot' = appGot \o a.units
        \/ a.kind = "data" /\ app = "gone" /\ UNCHANGED appGot /\ p2c' = "done" /\ appEnd' = "error"
        \/ a.kind # "data" /\ UNCHANGED appGot /\ p2c' = "done" /\ appEnd' = a.kind
    BY <1>2
  <2>2. PICK n, e \in Nat : SideFlow("client", n, e) /\ DownEnd(e) /\ DownPhase(n, e)
    BY DEF DownOrder
  <2>3. DownEnd(e)'
    BY <2>0, <2>2 DEF DownEnd, Calm
  <2>4. Calm' <=> Calm
    BY <2>0 DEF Calm
  <2>5. n # 0 /\ n = Len(appGot) + 1
    BY <2>0, <2>2 DEF DownPhase
  <2>6. a.kind = "data" => fut["client"] # 0
    BY <2>0, SideNow
  <2>7. a.kind = "data" =>
          /\ n < e /\ SideFlow("client", n + 1, e)' /\ a.units = <<n>> /\ pipe'["client"].buffer = <<>>
          /\ pipe["client"].queue # <<>> /\ pipe'["client"].queue = Tail(pipe["client"].queue)
          /\ pipe'["client"].closed = pipe["client"].closed /\ pipe'["client"].sender = pipe["client"].sender
    BY <2>0, <2>2, <2>5, <2>6, SideEvent
  <2>8. ASSUME a.kind # "data"
        PROVE  SideFlow("client", n, e)' /\ pipe'["client"].buffer = <<>> /\ (Calm => ~LastEof(pipe'["client"].queue))
    <3>1. CASE fut["client"] = 0
      <4>1. Keeps /\ pipe'["client"].buffer = <<>> /\ AtEnd(pipe["client"])
        BY <2>0, <3>1, SideNow
      <4>2. ~Calm
        BY <2>0, <4>1 DEF Undisturbed, AtEnd
      <4>3. QED
        BY <2>0, <2>2, <4>1, <4>2 DEF Keeps
    <3>2. CASE fut["client"] # 0
      <4>1. SideFlow("client", n, e)' /\ pipe'["client"].buffer = <<>> /\ pipe'["client"].queue = <<>>
        BY <2>0, <2>2, <2>8, <3>2, SideEvent
      <4>2. QED
        BY <4>1 DEF LastEof
    <3>3. QED
      BY <3>1, <3>2
  <2>9. Stage'
    <3>1. fut'["client"] = 0 /\ fut'["server"] = fut["server"] /\ pipe'["server"] = pipe["server"] /\ pipe'["client"].receiver
      BY <1>2
    <3>2. pipe'["client"].buffer = <<>>
      BY <2>7, <2>8
    <3>3. QED
      BY <2>0, <3>1, <3>2 DEF Stage
  <2>10. Undisturbed'
    <3>1. /\ (p2c' # "done" => appEnd' = "no")
          /\ (p2c' # "done" => pipe'["client"].closed = pipe["client"].closed /\ pipe'["client"].sender = pipe["client"].sender)
      BY <2>0, <2>1, <2>7 DEF Undisturbed
    <3>2. ASSUME Calm, appEnd' = "eof"
          PROVE  closed["server"] /\ Len(appGot') = destSent
      <4>1. a.kind = "eof" /\ UNCHANGED appGot
        BY <2>0, <2>1, <3>1, <3>2
      <4>2. QED
        BY <2>0, <2>2, <3>2, <4>1, <1>3
    <3> HIDE DEF a
    <3>3. QED
      BY <2>0, <2>4, <3>1, <3>2 DEF Undisturbed
  <2> HIDE DEF a
  <2>11. CASE a.kind # "data"
    <3>1. DownPhase(n, e)' /\ UNCHANGED appGot
      BY <2>1, <2>4, <2>5, <2>8, <2>11 DEF DownPhase
    <3>2. QED
      BY <2>0, <2>3, <2>8, <2>9, <2>10, <2>11, <3>1 DEF DownOrder
  <2>12. CASE a.kind = "data"
    <3>1. n <= destSent /\ n <= MaxPieces /\ n + 1 # 0 /\ n + 1 \in Nat
      <4>1. e <= destSent + 1 /\ appSent \in Nat /\ destSent \in Nat /\ appSent + destSent <= MaxPieces
        BY <2>2 DEF DownEnd, IInv, TypeInv, FrameOrder
      <4>2. n < e
        BY <2>7, <2>12
      <4>3. QED
        BY SMTT(30), <4>1, <4>2, TunnelAssumption
    <3>2. ASSUME Calm', LastEof(pipe'["client"].queue)
          PROVE  closed'["server"] /\ (n + 1) + Len(pipe'["client"].queue) = e + 1
      <4> DEFINE q == pipe["client"].queue
      <4>1. q \in Seq(Event) /\ q # <<>> /\ pipe'["client"].queue = Tail(q) /\ LastEof(Tail(q)) /\ e + 1 \in Nat
        <5>1. pipe["client"].queue \in Seq(Event)
          BY <2>0, SideTypes DEF Pipe
        <5>2. e + 1 \in Nat
          BY SMT
        <5>3. QED
          BY <2>7, <2>12, <3>2, <5>1, <5>2
      <4>2. (LastEof(q) => closed["server"] /\ n + Len(q) = e + 1)
        BY <2>2, <2>4, <3>2 DEF DownPhase
      <4> HIDE DEF q
      <4>3. LastEof(q) /\ \A i, j \in Nat : i + Len(q) = j => (i + 1) + Len(Tail(q)) = j
        BY <4>1, <1>1
      <4>4. QED
        BY <2>0, <4>1, <4>2, <4>3
    <3>3. CASE UNCHANGED appGot /\ p2c' = "done"
      <4>1. DownPhase(n + 1, e)'
        BY <3>1, <3>2, <3>3 DEF DownPhase
      <4>2. QED
        BY <2>0, <2>3, <2>7, <2>9, <2>10, <2>12, <3>1, <3>3, <4>1 DEF DownOrder
    <3>4. CASE appGot' = appGot \o <<n>>
      <4>1. /\ appGot' = Append(appGot, Len(appGot) + 1) /\ appGot' \in Seq(1 .. MaxPieces) /\ n + 1 = Len(appGot') + 1
        BY <2>0, <2>5, <3>1, <3>4, DeliverNext
      <4>2. DownPhase(n + 1, e)'
        BY <3>1, <3>2, <4>1 DEF DownPhase
      <4>3. Len(appGot) < destSent
        <5>1. Len(appGot) \in Nat /\ destSent \in Nat
          BY SMT, <2>0 DEF IInv, TypeInv
        <5>2. QED
          BY SMTT(30), <2>5, <3>1, <5>1
      <4>4. QED
        BY <2>3, <2>7, <2>9, <2>10, <2>12, <3>1, <4>1, <4>2, <4>3 DEF DownOrder
    <3>5. QED
      BY <2>1, <2>7, <2>12, <3>3, <3>4
  <2>13. QED
    BY <2>11, <2>12
<1>5. QED
  BY <1>4

(* How a stream leaves the map of its session. *)
Unmapped(s) ==
  /\ mapped' = [mapped EXCEPT ![s] = FALSE]
  /\ \/ closed' = [closed EXCEPT ![s] = TRUE]
     \/ closed' = [closed EXCEPT ![s] = @ \/ mapped[s]]

(* All of that. *)
LEMMA UndisturbedNext == IInv /\ FrameOrder /\ Stage /\ Undisturbed /\ DownOrder /\ [Next]_vars => Undisturbed'
(* What the receive loop and the spawned tasks do to it. *)
<1>1. ASSUME IInv, NEW s \in Sides, Receiver(s) \/ Spawned(s)
      PROVE  /\ \/ UNCHANGED <<closed, mapped>>
                \/ Unmapped(s)
                \/ s = "server" /\ UNCHANGED closed /\ mapped' = [mapped EXCEPT !["server"] = Open("server")]
             /\ UNCHANGED closed \/ lost \/ Arrived(s, {"FIN", "SYNERR"})
             /\ UNCHANGED hand \/ hand' = "check"
             /\ UNCHANGED spawned \/ (spawned[s] /\ spawned' = [spawned EXCEPT ![s] = FALSE])
             /\ UNCHANGED tunnelVars
  <2> USE <1>1
  <2>1. CASE ReceiveSyn(s) /\ UNCHANGED tunnelVars
    <3>1. s = "server" /\ st["server"].settings
      <4>1. CASE s = "client"
        <5>1. net["client"] \in Seq(Replies) /\ net["client"] # <<>> /\ Head(net["client"]).cmd = "SYN"
          BY <2>1, <4>1 DEF ReceiveSyn, Arrived, IInv, TypeInv
        <5>2. Head(net["client"]) \in Replies
          BY <5>1, TailElements
        <5>3. QED
          BY <5>1, <5>2 DEF Replies
      <4>2. QED
        BY <4>1 DEF Sides, IInv, TypeInv
    <3>2. QED
      BY <2>1, <3>1 DEF ReceiveSyn
  <2>2. CASE (ReceivePsh(s) \/ ReceiveOther(s) \/ Push(s)) /\ UNCHANGED tunnelVars
    BY <2>2 DEF ReceivePsh, ReceiveOther, Push, streamVars, handVars
  <2>3. CASE ReceiveEnd(s) /\ UNCHANGED tunnelVars
    BY <2>3 DEF ReceiveEnd, EndStream, Unmapped, handVars
  <2>4. CASE RunEnd(s) /\ UNCHANGED tunnelVars
    <3>1. lost
      BY <2>4 DEF RunEnd, IInv, SideInv
    <3>2. QED
      BY <2>4, <3>1 DEF RunEnd, EndStream, Unmapped, handVars
  <2>5. CASE Spawned(s)
    BY <2>5 DEF Spawned, SpawnedTask, WriterEnd, ClosePipe, streamVars, handVars
  <2>6. QED
    BY <2>1, <2>2, <2>3, <2>4, <2>5 DEF Receiver, StreamFrames

(* A stream in the map of the client's session is not closed. *)
<1>2. ASSUME IInv, [Next]_vars, mapped["client"] => ~closed["client"]
      PROVE  mapped'["client"] => ~closed'["client"]
  <2> USE <1>2
  <2>0. /\ closed \in [Sides -> BOOLEAN] /\ mapped \in [Sides -> BOOLEAN] /\ "client" \in Sides /\ "server" \in Sides
        /\ "client" # "server"
    BY DEF IInv, TypeInv, Sides
  <2>1. ASSUME UNCHANGED <<closed, mapped>>
        PROVE  mapped'["client"] => ~closed'["client"]
    BY <2>1
  <2>2. ASSUME NEW s \in Sides, Unmapped(s)
        PROVE  mapped'["client"] => ~closed'["client"]
    BY <2>0, <2>2 DEF Unmapped
  <2>3. CASE \E s \in Sides : Receiver(s) \/ Spawned(s)
    <3>1. PICK s \in Sides : Receiver(s) \/ Spawned(s)
      BY <2>3
    <3>2. CASE s = "server" /\ UNCHANGED closed /\ mapped' = [mapped EXCEPT !["server"] = Open("server")]
      BY <2>0, <3>2
    <3>3. QED
      BY <2>1, <2>2, <3>1, <3>2, <1>1
  <2>4. CASE C2pClose \/ S2oDenied \/ O2sDenied \/ O2sEof \/ ((HandCheck \/ HandClose) /\ UNCHANGED tunnelVars)
    <3>1. UNCHANGED <<closed, mapped>> \/ CloseStream("client") \/ CloseStream("server")
      BY <2>4 DEF C2pClose, S2oDenied, O2sDenied, O2sEof, HandCheck, HandClose, streamVars
    <3>2. QED
      BY <2>0, <2>1, <2>2, <3>1 DEF CloseStream, Unmapped
  <2>5. CASE C2pFin \/ C2pEnd \/ P2cWait \/ SendAddress \/ C2pRead \/ P2cRead \/ Lose \/ Deny \/ DestReset \/ UNCHANGED vars
    BY <2>1, <2>5
       DEF C2pFin, C2pEnd, P2cWait, SendAddress, C2pRead, P2cRead, Lose, LoseLink, Deny, DenyUser, DestReset, vars,
           streamVars
  <2>6. CASE (HandFin /\ UNCHANGED tunnelVars) \/ HandConnect \/ HandRefuse \/ HandJoin \/ HandWait \/ HandRead
    BY <2>1, <2>6 DEF HandFin, HandConnect, HandRefuse, HandJoin, HandWait, HandRead, streamVars
  <2>7. CASE S2oCancelled \/ S2oFin \/ S2oShut \/ S2oWait \/ S2oRead \/ O2sCancelled \/ O2sFin \/ O2sError \/ O2sRead
    BY <2>1, <2>7
       DEF S2oCancelled, S2oFin, S2oShut, S2oWait, S2oRead, O2sCancelled, O2sFin, O2sError, O2sRead, streamVars
  <2>8. CASE HandStep
    BY <2>4, <2>6, <2>8 DEF HandStep
  <2>9. CASE S2oTask \/ O2sTask
    BY <2>4, <2>7, <2>9 DEF S2oTask, O2sTask
  <2>10. QED
    BY ZenonT(30), Steps, <2>3, <2>4, <2>5, <2>6, <2>7, <2>8, <2>9 DEF Quiet

(* Without a failure the server closes the stream only when the            *)
(* destination is done, or could not be reached.                           *)
<1>3. ASSUME IInv, FrameOrder, Stage, Undisturbed, Calm, [Next]_vars
      PROVE  (closed["server"] => o2s # "select" /\ hand \in {"relay", "check", "fin", "done"})'
  <2> USE <1>3
  <2> DEFINE Done == {"relay", "check", "fin", "done"}
  <2>0. /\ "client" \in Sides /\ "server" \in Sides /\ "client" # "server" /\ closed \in [Sides -> BOOLEAN] /\ mapped \in [Sides -> BOOLEAN]
        /\ ~lost /\ ~denied /\ (closed["server"] => o2s # "select" /\ hand \in Done)
        /\ s2o # "done" \/ o2s # "done" => hand = "relay"
        /\ "relay" \in Done /\ "check" \in Done /\ "fin" \in Done /\ "done" \in Done
        /\ "dest" \notin Done /\ "rest" \notin Done /\ "dial" \notin Done /\ "close" \notin Done
    BY DEF IInv, TypeInv, Sides, Calm, Undisturbed, Stage
  <2> HIDE DEF Done
  <2> SUFFICES closed'["server"] => o2s' # "select" /\ hand' \in Done
    BY DEF Done
  <2>1. CASE \E s \in Sides : Receiver(s) \/ Spawned(s)
    <3>1. PICK s \in Sides : Receiver(s) \/ Spawned(s)
      BY <2>1
    <3>2. UNCHANGED o2s /\ (UNCHANGED hand \/ hand' = "check")
      BY <3>1, <1>1 DEF tunnelVars, relayVars
    <3>3. closed'["server"] = closed["server"]
      <4>1. ASSUME s = "server", Arrived(s, {"FIN", "SYNERR"})
            PROVE  FALSE
        <5>1. net["server"] \in Seq(Sendable) /\ net["server"] # <<>> /\ Head(net["server"]).cmd \in {"FIN", "SYNERR"}
          BY <2>0, <4>1 DEF FrameOrder, Arrived
        <5>2. Head(net["server"]) = net["server"][1] /\ 1 \in 1 .. Len(net["server"])
          BY <5>1, TailElements
        <5>3. net["server"][1].cmd \in {"SYN", "PSH"}
          BY <5>2 DEF Undisturbed
        <5>4. QED
          BY <5>1, <5>2, <5>3
      <4>2. UNCHANGED closed \/ (Unmapped(s) /\ s # "server")
        BY <2>0, <3>1, <4>1, <1>1
      <4>3. QED
        BY <2>0, <4>2 DEF Unmapped
    <3>4. QED
      BY <2>0, <3>2, <3>3
  <2>2. CASE UNCHANGED <<closed, hand, o2s>>
    BY <2>0, <2>2
  <2>3. CASE C2pClose
    <3>1. UNCHANGED <<hand, o2s>> /\ (UNCHANGED closed \/ CloseStream("client"))
      BY <2>3 DEF C2pClose, relayVars, handVars
    <3>2. closed'["server"] = closed["server"]
      BY <2>0, <3>1 DEF CloseStream
    <3>3. QED
      BY <2>0, <3>1, <3>2
  <2>4. CASE O2sEof
    <3>1. hand' = "relay" /\ o2s' \in {"done", "fin"}
      BY <2>0, <2>4 DEF O2sEof, handVars
    <3>2. QED
      BY <2>0, <3>1
  <2>5. CASE HandCheck /\ UNCHANGED tunnelVars
    <3>1. UNCHANGED o2s /\ UNCHANGED closed /\ (hand' = "done" \/ (hand' = "dest" /\ Usable("server")))
      BY <2>0, <2>5 DEF HandCheck, tunnelVars, relayVars, streamVars
    <3>2. QED
      BY <2>0, <3>1 DEF Usable
  <2>6. CASE (HandClose \/ HandFin) /\ UNCHANGED tunnelVars
    <3>1. UNCHANGED o2s /\ hand' \in {"fin", "done"} /\ hand \in {"close", "fin"}
      BY <2>0, <2>6 DEF HandClose, HandFin, tunnelVars, relayVars
    <3>2. o2s = "done"
      BY <2>0, <3>1
    <3>3. QED
      BY <2>0, <3>1, <3>2
  <2>7. CASE HandConnect \/ HandRefuse \/ HandRead
    <3>1. UNCHANGED closed /\ hand \notin Done
      BY <2>0, <2>7 DEF HandConnect, HandRefuse, HandRead, streamVars
    <3>2. QED
      BY <2>0, <3>1
  <2>8. CASE HandJoin
    BY <2>0, <2>8 DEF HandJoin, streamVars, relayVars
  <2>9. CASE S2oTask \/ O2sTask \/ S2oRead \/ O2sRead
    <3>1. /\ UNCHANGED <<closed, hand>> /\ (o2s' = "select" => o2s = "select")
      BY <2>0, <2>9
         DEF S2oTask, O2sTask, S2oCancelled, S2oDenied, S2oFin, S2oShut, O2sCancelled, O2sDenied, O2sFin, O2sError,
             S2oRead, O2sRead,
             streamVars, handVars
    <3>2. QED
      BY <2>0, <3>1
  <2>10. CASE C2pFin \/ C2pEnd \/ P2cWait \/ SendAddress \/ C2pRead \/ P2cRead \/ HandWait \/ S2oWait \/ Lose \/ Deny \/ DestReset \/ UNCHANGED vars
    <3>1. UNCHANGED <<closed, hand, o2s>>
      BY <2>10
         DEF C2pFin, C2pEnd, P2cWait, SendAddress, C2pRead, P2cRead, HandWait, S2oWait, Lose, LoseLink, Deny, DenyUser,
             DestReset,
             vars, streamVars, handVars, tunnelVars, relayVars
    <3>2. QED
      BY <2>2, <3>1
  <2>11. QED
    BY Steps, <2>1, <2>3, <2>4, <2>5, <2>6, <2>7, <2>8, <2>9, <2>10 DEF Quiet, HandStep

(* What only p2c's reads and the address change. *)
<1>4. ASSUME IInv, Undisturbed, [Next]_vars
      PROVE  P2cRead \/ (/\ p2c' # "done" => p2c # "done" /\ appEnd' = "no"
                         /\ c2p' = "addr" => p2c' = "new"
                         /\ appEnd' = "eof" => appEnd = "eof"
                         /\ UNCHANGED appGot /\ (UNCHANGED destSent \/ o2s = "select"))
  <2> USE <1>4
  <2>1. CASE Quiet
    <3>1. UNCHANGED <<p2c, appGot, destSent, appEnd>>
      BY <2>1, DownStatic
    <3>2. c2p' = "addr" => c2p = "addr"
      <4>1. CASE \E s \in Sides : Receiver(s) \/ Spawned(s)
        BY <4>1 DEF Receiver, Spawned, tunnelVars, taskVars
      <4>2. CASE C2pClose \/ C2pFin \/ C2pEnd \/ P2cWait \/ HandWait \/ Lose \/ Deny \/ DestReset \/ UNCHANGED vars
        BY <4>2 DEF C2pClose, C2pFin, C2pEnd, P2cWait, HandWait, Lose, Deny, DestReset, vars, tunnelVars, taskVars
      <4>3. CASE HandStep
        BY <4>3 DEF HandStep, HandConnect, HandRefuse, HandJoin, tunnelVars, taskVars
      <4>4. CASE S2oTask \/ O2sTask \/ S2oWait \/ O2sEof
        BY <4>4
           DEF S2oTask, S2oCancelled, S2oDenied, S2oFin, S2oShut, O2sTask, O2sCancelled, O2sDenied, O2sFin, O2sError,
               O2sEof, S2oWait,
               tunnelVars, taskVars
      <4>5. QED
        BY <2>1, <4>1, <4>2, <4>3, <4>4 DEF Quiet
    <3>3. QED
      BY <3>1, <3>2 DEF Undisturbed
  <2>2. CASE SendAddress
    <3>1. p2c = "new" /\ p2c # "done"
      BY <2>2 DEF SendAddress, Undisturbed
    <3>2. QED
      BY <2>2, <3>1 DEF SendAddress, destVars, Undisturbed
  <2>3. CASE C2pRead \/ O2sRead \/ HandRead \/ S2oRead
    BY <2>3 DEF C2pRead, O2sRead, HandRead, S2oRead, appVars, taskVars, destVars, tunnelVars, Undisturbed
  <2>4. QED
    BY Steps, <2>1, <2>2, <2>3

(* Without a failure only the server ends the client's stream. *)
<1>5. ASSUME IInv, Undisturbed, Calm, [Next]_vars, Calm'
      PROVE  c2p' # "fin" /\ (c2p' = "close" => closed'["client"]) /\ ~spawned'["client"]
  <2> USE <1>5
  <2>0. /\ "client" \in Sides /\ "server" \in Sides /\ "client" # "server" /\ spawned \in [Sides -> BOOLEAN]
        /\ ~lost /\ ~denied /\ app = "open" /\ app' = "open"
        /\ c2p # "fin" /\ (c2p = "close" => closed["client"]) /\ ~spawned["client"] /\ (closed["client"] => closed'["client"])
        /\ (writer["client"] = "down" => lost)
    BY OnwardNext DEF IInv, TypeInv, SideInv, Sides, Calm, Undisturbed, Onward
  <2>1. ASSUME UNCHANGED c2p, UNCHANGED spawned \/ CloseStream("server")
        PROVE  c2p' # "fin" /\ (c2p' = "close" => closed'["client"]) /\ ~spawned'["client"]
    <3>1. spawned'["client"] = spawned["client"]
      BY <2>0, <2>1 DEF CloseStream
    <3>2. QED
      BY <2>0, <2>1, <3>1
  <2>2. CASE \E s \in Sides : Receiver(s) \/ Spawned(s)
    <3>1. PICK s \in Sides : Receiver(s) \/ Spawned(s)
      BY <2>2
    <3>2. UNCHANGED c2p /\ (UNCHANGED spawned \/ spawned' = [spawned EXCEPT ![s] = FALSE])
      BY <3>1, <1>1 DEF tunnelVars, taskVars
    <3>3. ~spawned'["client"]
      BY <2>0, <3>2
    <3>4. QED
      BY <2>0, <3>2, <3>3
  <2>3. CASE C2pClose
    BY <2>0, <2>3 DEF C2pClose
  <2>4. CASE C2pFin
    BY <2>0, <2>4 DEF C2pFin
  <2>5. CASE C2pEnd
    <3>1. app' # "open"
      BY <2>5 DEF C2pEnd
    <3>2. QED
      BY <2>0, <3>1
  <2>6. CASE C2pRead \/ SendAddress
    BY <2>0, <2>6 DEF C2pRead, SendAddress, Usable, Open, streamVars
  <2>7. CASE P2cWait \/ P2cRead \/ Lose \/ Deny \/ DestReset \/ UNCHANGED vars
    BY <2>1, <2>7
       DEF P2cWait, P2cRead, Lose, LoseLink, Deny, DenyUser, DestReset, vars, streamVars, tunnelVars, taskVars
  <2>8. CASE HandStep
    <3>1. UNCHANGED c2p /\ (UNCHANGED spawned \/ CloseStream("server"))
      BY <2>8
         DEF HandStep, HandCheck, HandClose, HandFin, HandConnect, HandRefuse, HandJoin, streamVars, tunnelVars, taskVars
    <3>2. QED
      BY <2>1, <3>1
  <2>9. CASE HandWait \/ HandRead \/ S2oWait \/ S2oRead \/ O2sRead
    BY ZenonT(30), <2>1, <2>9 DEF HandWait, HandRead, S2oWait, S2oRead, O2sRead, streamVars, tunnelVars, taskVars
  <2>10. CASE S2oTask \/ O2sTask \/ O2sEof
    <3>1. UNCHANGED c2p /\ (UNCHANGED spawned \/ CloseStream("server"))
      BY <2>10
         DEF S2oTask, S2oCancelled, S2oDenied, S2oFin, S2oShut, O2sTask, O2sCancelled, O2sDenied, O2sFin, O2sError, O2sEof,
             streamVars, tunnelVars, taskVars
    <3>2. QED
      BY <2>1, <3>1
  <2>11. QED
    BY Steps, <2>2, <2>3, <2>4, <2>5, <2>6, <2>7, <2>8, <2>9, <2>10 DEF Quiet

(* And only payload follows the SYN. *)
<1>6. ASSUME IInv, FrameOrder, Undisturbed, Calm, [Next]_vars
      PROVE  \A i \in 1 .. Len(net'["server"]) : net'["server"][i].cmd \in {"SYN", "PSH"}
  <2> USE <1>6
  <2> DEFINE q == net["server"]
             r == net'["server"]
  <2>0. /\ q \in Seq(Sendable) /\ (\A i \in 1 .. Len(q) : q[i].cmd \in {"SYN", "PSH"}) /\ c2p # "fin" /\ NetMove("server")
    BY NetMoves DEF FrameOrder, Sides, Undisturbed
  <2>1. r = q \/ (q # <<>> /\ r = Tail(q)) \/ r = <<>> \/ \E frame \in Sendable : r = Append(q, frame) /\ frame.cmd = "PSH"
    BY <2>0 DEF NetMove
  <2>2. \A i \in 1 .. Len(q) : q[i].cmd \in {"SYN", "PSH"}
    BY <2>0
  <2>3. q \in Seq(Sendable)
    BY <2>0
  <2> HIDE DEF q, r
  <2> SUFFICES ASSUME NEW i \in 1 .. Len(r)
               PROVE  r[i].cmd \in {"SYN", "PSH"}
    BY DEF r
  <2>4. CASE r = q
    BY <2>2, <2>4
  <2>5. CASE q # <<>> /\ r = Tail(q)
    <3>1. i + 1 \in 1 .. Len(q) /\ r[i] = q[i + 1]
      BY <2>3, <2>5, TailElements
    <3>2. QED
      BY <2>2, <3>1
  <2>6. CASE r = <<>>
    BY SMT, <2>6
  <2>7. CASE \E frame \in Sendable : r = Append(q, frame) /\ frame.cmd = "PSH"
    <3>1. PICK frame \in Sendable : r = Append(q, frame) /\ frame.cmd = "PSH"
      BY <2>7
    <3>2. Len(r) = Len(q) + 1 /\ Len(q) \in Nat /\ r[Len(q) + 1] = frame /\ \A j \in 1 .. Len(q) : r[j] = q[j]
      BY SMTT(30), <2>3, <3>1
    <3>3. i = Len(q) + 1 \/ i \in 1 .. Len(q)
      BY SMT, <3>2
    <3>4. QED
      BY <2>2, <3>1, <3>2, <3>3
  <2>8. QED
    BY <2>1, <2>4, <2>5, <2>6, <2>7

<1>7. ASSUME IInv, FrameOrder, Stage, Undisturbed, DownOrder, [Next]_vars
      PROVE  Undisturbed'
  <2> USE <1>7
  <2>1. CASE P2cRead
    BY <2>1, DownRead
  <2>2. CASE ~P2cRead
    <3>0. /\ p2c' # "done" => p2c # "done" /\ appEnd' = "no"
          /\ c2p' = "addr" => p2c' = "new"
          /\ appEnd' = "eof" => appEnd = "eof"
          /\ UNCHANGED appGot /\ (UNCHANGED destSent \/ o2s = "select")
          /\ "client" \in Sides /\ "server" \in Sides /\ "client" # "server" /\ Onward
      BY <2>2, <1>4, OnwardNext DEF Sides
    <3>1. mapped'["client"] => ~closed'["client"]
      BY <1>2 DEF Undisturbed
    <3>2. ASSUME Calm'
          PROVE  /\ closed'["server"] => o2s' # "select" /\ hand' \in {"relay", "check", "fin", "done"}
                 /\ c2p' # "fin" /\ (c2p' = "close" => closed'["client"]) /\ ~spawned'["client"]
                 /\ p2c' # "done" => ~pipe'["client"].closed /\ pipe'["client"].sender
                 /\ \A i \in 1 .. Len(net'["server"]) : net'["server"][i].cmd \in {"SYN", "PSH"}
                 /\ appEnd' = "eof" => closed'["server"] /\ Len(appGot') = destSent'
      <4>0. Calm
        BY <3>0, <3>2, CalmBefore
      <4>1. closed'["server"] => o2s' # "select" /\ hand' \in {"relay", "check", "fin", "done"}
        BY <4>0, <1>3
      <4>2. c2p' # "fin" /\ (c2p' = "close" => closed'["client"]) /\ ~spawned'["client"]
        BY <3>2, <4>0, <1>5
      <4>3. \A i \in 1 .. Len(net'["server"]) : net'["server"][i].cmd \in {"SYN", "PSH"}
        BY <4>0, <1>6
      <4>4. appEnd' = "eof" => closed'["server"] /\ Len(appGot') = destSent'
        BY <3>0, <4>0 DEF Undisturbed, Onward
      <4>5. pipe'["client"].closed = pipe["client"].closed /\ pipe'["client"].sender = pipe["client"].sender
        <5>1. CASE HandRead \/ S2oRead
          <6>1. \E m : TakeAnswer("server", m)
            BY <5>1 DEF HandRead, S2oRead
          <6>2. QED
            BY <3>0, <6>1, ReadQueue
        <5>2. CASE Quiet \/ SendAddress \/ C2pRead \/ O2sRead
          <6>1. PICK n, e \in Nat : SideFlow("client", n, e) /\ DownPhase(n, e)
            BY DEF DownOrder
          <6>2. LastEof(pipe["client"].queue) => closed["server"] /\ n + Len(pipe["client"].queue) = e + 1
            BY <4>0, <6>1 DEF DownPhase
          <6>3. PipeMove("client")
            BY <3>0, <5>2, PipeMoves
          <6>4. QED
            BY ZenonT(30), <3>0, <3>2, <6>1, <6>2, <6>3, CalmPipe
        <5>3. QED
          BY Steps, <2>2, <5>1, <5>2
      <4>6. p2c' # "done" => ~pipe'["client"].closed /\ pipe'["client"].sender
        BY <3>0, <4>0, <4>5 DEF Undisturbed
      <4>7. QED
        BY <4>1, <4>2, <4>3, <4>4, <4>6
    <3>3. QED
      BY <3>0, <3>1, <3>2 DEF Undisturbed
  <2>3. QED
    BY <2>1, <2>2
<1>8. QED
  BY <1>7

-----------------------------------------------------------------------------
(* The invariant as a whole, and what follows from it.                     *)

(* The types of what the other conjuncts do not mention. *)
ControlTypes ==
  /\ app \in {"open", "eof", "gone"} /\ appEnd \in {"no", "eof", "error"}
  /\ c2p \in {"addr", "read", "close", "fin", "done"} /\ p2c \in {"new", "read", "done"}
  /\ dest \in {"open", "eof", "reset"} /\ destEnd \in BOOLEAN /\ cancel \in BOOLEAN /\ denied \in BOOLEAN

TunnelInv ==
  IInv /\ FrameOrder /\ Payloads /\ Stage /\ UpOrder /\ DownOrder /\ Undisturbed /\ ControlTypes

(* Every step keeps the types of the phases, the pending reads and the     *)
(* bounds.                                                                 *)
LEMMA ControlNext == IInv /\ ControlTypes /\ [Next]_vars => ControlTypes'
(* A read answers with data, the end or an error. *)
<1>1. ASSUME IInv, NEW s \in Sides, NEW m, Answers(s)
      PROVE  Answer(s, m).kind \in {"data", "eof", "error"}
  <2> USE <1>1
  <2>0. pipe[s] \in Pipe /\ pipe[s].queue \in Seq(Event)
    BY SideTypes DEF Pipe
  <2>1. ReadNow(pipe[s], m).kind \in {"data", "eof"}
    BY DEF ReadNow
  <2>2. ReadEvent(pipe[s], fut[s]).kind \in {"data", "eof", "error"}
    <3>1. CASE pipe[s].queue = <<>>
      BY <3>1 DEF ReadEvent
    <3>2. CASE pipe[s].queue # <<>>
      <4>1. Head(pipe[s].queue) \in Event
        BY <2>0, <3>2, TailElements
      <4>2. ReadEvent(pipe[s], fut[s]).kind = Head(pipe[s].queue).kind
        BY <3>2 DEF ReadEvent
      <4>3. QED
        BY <4>1, <4>2 DEF Event
    <3>3. QED
      BY <3>1, <3>2
  <2>3. QED
    BY <2>1, <2>2 DEF Answer

<1>2. ASSUME IInv, ControlTypes, [Next]_vars
      PROVE  ControlTypes'
  <2> USE <1>2
  <2>1. CASE \E s \in Sides : Receiver(s) \/ Spawned(s)
    <3>1. UNCHANGED tunnelVars /\ UNCHANGED denied
      BY <2>1
         DEF Receiver, Spawned, StreamFrames, ReceiveSyn, ReceivePsh, ReceiveEnd, ReceiveOther, Push, RunEnd,
             SpawnedTask, WriterEnd, ClosePipe, handVars
    <3>2. QED
      BY ZenonT(30), <3>1 DEF ControlTypes, tunnelVars, appVars, taskVars, destVars, relayVars
  <2>2. CASE SendAddress \/ C2pRead \/ C2pEnd \/ C2pClose \/ C2pFin \/ P2cWait
    BY <2>2
       DEF ControlTypes, SendAddress, C2pRead, C2pEnd, C2pClose, C2pFin, P2cWait, tunnelVars, appVars, taskVars,
           destVars, relayVars, handVars
  <2>3. CASE P2cRead
    <3>1. /\ UNCHANGED <<app, c2p, dest, destEnd, cancel, denied>> /\ p2c' \in {"read", "done"}
      BY <2>3 DEF P2cRead, destVars, relayVars, handVars
    <3>2. Answer("client", Whole).kind \in {"data", "eof", "error"}
      BY <2>3, <1>1 DEF P2cRead, TakeAnswer, Sides
    <3>3. appEnd' \in {"no", "eof", "error"}
      BY <2>3, <3>2 DEF P2cRead, ControlTypes
    <3>4. QED
      BY ZenonT(30), <3>1, <3>3 DEF ControlTypes
  <2>4. CASE HandStep
    <3>1. UNCHANGED <<denied, app, appEnd, c2p, p2c>> /\ (UNCHANGED dest \/ dest' = "open") /\ (UNCHANGED destEnd \/ destEnd' = TRUE)
          /\ (UNCHANGED cancel \/ cancel' = FALSE)
      BY <2>4
         DEF HandStep, HandCheck, HandClose, HandFin, HandConnect, HandRefuse, HandJoin, tunnelVars, appVars, taskVars,
             destVars, relayVars
    <3>2. dest' \in {"open", "eof", "reset"}
      BY <3>1 DEF ControlTypes
    <3>3. destEnd' \in BOOLEAN /\ cancel' \in BOOLEAN
      BY <3>1 DEF ControlTypes
    <3>4. QED
      BY <3>1, <3>2, <3>3 DEF ControlTypes
  <2>5. CASE HandWait \/ HandRead \/ S2oWait \/ S2oRead
    <3>1. UNCHANGED <<denied, app, appEnd, c2p, p2c, dest, destEnd, cancel>>
      BY <2>5 DEF HandWait, HandRead, S2oWait, S2oRead, tunnelVars, appVars, taskVars, destVars, relayVars, handVars
    <3>2. QED
      BY ZenonT(60), <3>1 DEF ControlTypes
  <2>6. CASE S2oTask
    <3>1. UNCHANGED <<denied, app, appEnd, c2p, p2c, dest>> /\ (UNCHANGED destEnd \/ destEnd' = TRUE)
          /\ (UNCHANGED cancel \/ cancel' = (cancel \/ s2o = "shuterr"))
      BY <2>6
         DEF S2oTask, S2oCancelled, S2oDenied, S2oFin, S2oShut, tunnelVars, appVars, taskVars, destVars, relayVars, handVars
    <3>2. QED
      BY ZenonT(60), <3>1 DEF ControlTypes
  <2>7. CASE O2sTask \/ O2sRead \/ O2sEof
    <3>1. UNCHANGED <<denied, app, appEnd, c2p, p2c, destEnd>> /\ (UNCHANGED dest \/ dest' = "eof") /\ (UNCHANGED cancel \/ cancel' = TRUE)
      BY <2>7
         DEF O2sTask, O2sCancelled, O2sDenied, O2sFin, O2sError, O2sRead, O2sEof, tunnelVars, appVars, taskVars,
             destVars, relayVars, handVars
    <3>2. QED
      BY ZenonT(60), <3>1 DEF ControlTypes
  <2>8. CASE Lose \/ Deny \/ DestReset \/ UNCHANGED vars
    <3>1. UNCHANGED <<app, appEnd, c2p, p2c, destEnd, cancel>> /\ (UNCHANGED dest \/ dest' = "reset") /\ (UNCHANGED denied \/ denied' = TRUE)
      BY <2>8
         DEF Lose, LoseLink, Deny, DenyUser, DestReset, vars, tunnelVars, appVars, taskVars, destVars, relayVars, handVars
    <3>2. QED
      BY ZenonT(60), <3>1 DEF ControlTypes
  <2>9. QED
    BY Steps, <2>1, <2>2, <2>3, <2>4, <2>5, <2>6, <2>7, <2>8 DEF Quiet
<1>3. QED
  BY <1>2

(* Who counts a piece as sent. *)
LEMMA SentNext ==
  ASSUME [Next]_vars
  PROVE  /\ UNCHANGED appSent \/ (C2pRead /\ appSent' = appSent + 1)
         /\ UNCHANGED destSent \/ (O2sRead /\ destSent' = destSent + 1)
<1>1. CASE C2pRead \/ O2sRead
  BY <1>1 DEF C2pRead, O2sRead, appVars, destVars
<1>2. CASE \E s \in Sides : Receiver(s) \/ Spawned(s)
  BY <1>2 DEF Receiver, Spawned, tunnelVars, appVars, destVars
<1>3. CASE C2pClose \/ C2pEnd \/ C2pFin \/ P2cWait \/ P2cRead \/ SendAddress \/ Lose \/ Deny \/ DestReset \/ UNCHANGED vars
  BY <1>3
     DEF C2pClose, C2pEnd, C2pFin, P2cWait, P2cRead, SendAddress, Lose, Deny, DestReset, vars, tunnelVars, appVars,
         destVars
<1>4. CASE HandStep \/ HandWait \/ HandRead
  BY <1>4 DEF HandStep, HandConnect, HandRefuse, HandJoin, HandWait, HandRead, tunnelVars, appVars, destVars
<1>5. CASE S2oTask \/ O2sTask \/ S2oWait \/ S2oRead \/ O2sEof
  BY <1>5
     DEF S2oTask, O2sTask, S2oCancelled, S2oDenied, S2oFin, S2oShut, O2sCancelled, O2sDenied, O2sFin, O2sError,
         S2oWait, S2oRead,
         O2sEof, tunnelVars, appVars, destVars
<1>6. QED
  BY Steps, <1>1, <1>2, <1>3, <1>4, <1>5 DEF Quiet

(* Every step keeps the invariant, and is a step of both conduits. *)
LEMMA TunnelNext ==
  ASSUME TunnelInv, [Next]_vars
  PROVE  /\ TunnelInv'
         /\ [Up!Put \/ Up!Deliver]_<<appSent, destGot>> /\ [Down!Put \/ Down!Deliver]_<<destSent, appGot>>
<1>0. IInv /\ FrameOrder /\ Payloads /\ Stage /\ UpOrder /\ DownOrder /\ Undisturbed /\ ControlTypes
  BY DEF TunnelInv
<1>1. IInv' /\ FrameOrder' /\ Payloads' /\ Undisturbed' /\ ControlTypes'
  BY <1>0, NextInv, FrameOrderNext, PayloadsNext, UndisturbedNext, ControlNext
<1>2. Stage'
  BY <1>0, Steps, StageQuiet, UpNext, DownRead
<1>3. UpOrder' /\ (UNCHANGED destGot \/ (S2oRead /\ Len(destGot) < appSent /\ destGot' = Append(destGot, Len(destGot) + 1)))
  BY <1>0, UpNext
<1>4. DownOrder' /\ (UNCHANGED appGot \/ (P2cRead /\ Len(appGot) < destSent /\ appGot' = Append(appGot, Len(appGot) + 1)))
  BY <1>0, DownNext, DownRead
<1>5. S2oRead => UNCHANGED appSent
  BY DEF S2oRead, appVars
<1>6. P2cRead => UNCHANGED destSent
  BY DEF P2cRead, destVars
<1>7. [Up!Put \/ Up!Deliver]_<<appSent, destGot>>
  BY <1>3, <1>5, SentNext DEF Up!Put, Up!Deliver
<1>8. [Down!Put \/ Down!Deliver]_<<destSent, appGot>>
  BY <1>4, <1>6, SentNext DEF Down!Put, Down!Deliver
<1>9. QED
  BY <1>0, <1>1, <1>2, <1>3, <1>4, <1>7, <1>8 DEF TunnelInv

(* The invariant holds initially. *)
LEMMA TunnelInit ==
  ASSUME Init
  PROVE  TunnelInv
(* No frames are no chunks. *)
<1>1. ASSUME NEW a \in Nat
      PROVE  Numbered(<<>>, a, a)
  <2> USE <1>1
  <2> DEFINE f == [i \in 0 .. 0 |-> a]
  <2>1. Len(<<>>) = 0 /\ f \in [0 .. 0 -> 0 .. a]
    BY SMT
  <2>2. NumberedBy(<<>>, a, a, f)
    BY SMT DEF NumberedBy
  <2> HIDE DEF f
  <2>3. QED
    BY <2>1, <2>2 DEF Numbered

(* At first only the SYN is on its way. *)
<1>2. ASSUME Init
      PROVE  SideFlow("server", 0, 0) /\ SideFlow("client", 1, 1)
  <2> USE <1>2
  <2>0. /\ pipe["client"] = NewPipe /\ pipe["server"] = NewPipe /\ holding["client"] = <<>> /\ holding["server"] = <<>>
        /\ net["client"] = <<>> /\ net["server"] = <<Frame("SYN")>>
    BY ZenonT(30) DEF Init, StreamsInit, Sides
  <2>1. NewPipe.queue = <<>> /\ Len(<<>>) = 0
    BY SMT DEF NewPipe
  <2>2. ASSUME NEW n \in Nat
        PROVE  Queued(NewPipe, n, n) /\ Behind(NewPipe, <<>>, n) = n
    BY SMT, <2>1 DEF Queued, Behind
  <2>3. Numbered(<<>>, 1, 1) /\ Numbered(<<>>, 0, 0) /\ 0 \in Nat /\ 1 \in Nat
    BY SMT, <1>1
  <2>4. Numbered(<<Frame("SYN")>>, 0, 0)
    <3> DEFINE q == <<>>
               f == Frame("SYN")
               S == {Frame("SYN")}
    <3>1. q \in Seq(S) /\ f \in S /\ f.cmd # "PSH" /\ Append(q, f) = <<Frame("SYN")>>
      BY SMT DEF Frame
    <3>2. Numbered(q, 0, 0) /\ 0 \in Nat
      BY <2>3
    <3> HIDE DEF q, f, S
    <3>3. Numbered(Append(q, f), 0, 0)
      BY <3>1, <3>2, NumberedAppend
    <3>4. QED
      BY <3>1, <3>3
  <2>5. QED
    BY <2>0, <2>2, <2>3, <2>4 DEF SideFlow, Flow

<1>3. /\ pipe["client"] = NewPipe /\ pipe["server"] = NewPipe /\ holding["client"] = <<>> /\ holding["server"] = <<>>
      /\ net["client"] = <<>> /\ net["server"] = <<Frame("SYN")>> /\ "client" \in Sides /\ "server" \in Sides
      /\ ~closed["client"] /\ ~closed["server"] /\ ~spawned["client"] /\ fut["client"] = 0 /\ fut["server"] = 0
      /\ ~lost /\ denied = FALSE /\ hand = "new" /\ \A s \in Sides : s = "client" \/ s = "server"
  BY DEF Init, StreamsInit, Sides
<1>4. /\ app = "open" /\ appSent = 0 /\ appGot = <<>> /\ appEnd = "no" /\ c2p = "addr" /\ p2c = "new"
      /\ dest = "open" /\ destSent = 0 /\ destGot = <<>> /\ destEnd = FALSE
      /\ dials = 0 /\ s2o = "done" /\ o2s = "done" /\ cancel = FALSE
  BY DEF Init
<1>5. /\ 0 + 0 <= MaxPieces /\ 0 \in 0 .. MaxDials /\ 0 \in Nat /\ 1 \in Nat /\ 0 <= 0 + 1 /\ 1 = 0 + 1 /\ 1 <= 0 + 1 /\ 1 # 0 /\ 0 # 1
      /\ Len(<<>>) = 0 /\ <<>> \in Seq(1 .. MaxPieces) /\ <<>> \in Seq(Sendable) /\ <<>> \in Seq(Events(Units))
  BY SMTT(30), TunnelAssumption
<1>6. /\ NewPipe.queue = <<>> /\ NewPipe.buffer = <<>> /\ NewPipe.receiver /\ ~NewPipe.closed /\ NewPipe.sender
  BY SMT DEF NewPipe
<1>7. /\ Len(<<Frame("SYN")>>) = 1 /\ <<Frame("SYN")>>[1] = Frame("SYN") /\ Frame("SYN").cmd = "SYN"
      /\ \A i \in 1 .. 1 : i = 1
      /\ \A i : i \notin 1 .. 0
  BY SMT DEF Frame
<1>8. <<Frame("SYN")>> \in Seq(Sendable)
  <2>1. Frame("SYN") \in Sendable
    BY StreamUnits DEF Frame, Sendable
  <2>2. QED
    BY SMT, <2>1
<1>9. IInv
  BY InitInv
<1>10. FrameOrder
  <2>1. SynFirst
    BY <1>3, <1>5, <1>7 DEF SynFirst
  <2>2. FinLast
    BY <1>3, <1>5, <1>7 DEF FinLast
  <2>3. QED
    BY <1>3, <1>4, <1>5, <1>8, <2>1, <2>2 DEF FrameOrder
<1>11. Payloads
  BY <1>3, <1>5, <1>6, StreamUnits DEF Payloads
<1>12. Stage
  BY <1>3, <1>4, <1>5, <1>6 DEF Stage
<1>13. UpOrder
  <2>1. UpEnd(0) /\ UpPhase(0)
    BY <1>3, <1>4, <1>5 DEF UpEnd, UpPhase
  <2>2. QED
    BY <1>4, <1>5, <2>1, <1>2 DEF UpOrder
<1>14. DownOrder
  <2>1. DownEnd(1) /\ DownPhase(1, 1)
    BY <1>3, <1>4, <1>5, <1>6 DEF DownEnd, DownPhase, LastEof
  <2>2. QED
    BY <1>4, <1>5, <2>1, <1>2 DEF DownOrder
<1>15. Undisturbed
  BY <1>3, <1>4, <1>6, <1>7 DEF Undisturbed
<1>16. ControlTypes
  BY <1>3, <1>4 DEF ControlTypes
<1>17. QED
  BY <1>9, <1>10, <1>11, <1>12, <1>13, <1>14, <1>15, <1>16 DEF TunnelInv

(* The inductive invariant holds in every state of a tunnel. *)
LEMMA TunnelInvariant == Spec => []TunnelInv
<1>1. TunnelInv /\ [Next]_vars => TunnelInv'
  BY TunnelNext
<1>2. Init => TunnelInv
  BY TunnelInit
<1>3. QED
  BY <1>1, <1>2, PTL DEF Spec

(* The destination receives what the application sent, in order, nothing   *)
(* twice and nothing left out before a later piece, and no address among   *)
(* it: with whatever is dropped by a stream that ends on either side,      *)
(* s5_connect, the pipe, push_stream_data and handle_tcp_stream implement  *)
(* Conduit, for any number of pieces, destinations and faults.             *)
THEOREM UpRefinesConduit == Spec => UpInOrder
<1>1. Init => Up!Init
  BY DEF Init, Up!Init
<1>2. TunnelInv /\ [Next]_vars => [Up!Put \/ Up!Deliver]_<<appSent, destGot>>
  BY TunnelNext
<1>3. QED
  BY TunnelInvariant, <1>1, <1>2, PTL DEF Spec, UpInOrder, Up!Spec

(* The same of what the destination sends and the application receives.    *)
THEOREM DownRefinesConduit == Spec => DownInOrder
<1>1. Init => Down!Init
  BY DEF Init, Down!Init
<1>2. TunnelInv /\ [Next]_vars => [Down!Put \/ Down!Deliver]_<<destSent, appGot>>
  BY TunnelNext
<1>3. QED
  BY TunnelInvariant, <1>1, <1>2, PTL DEF Spec, DownInOrder, Down!Spec

(* An application that did not close its side, and sees the end of what it *)
(* reads without a failure in between, has read all that the destination   *)
(* sent (finish_stream queues the end, handle_tcp_stream closes the stream *)
(* only at the destination's end).                                         *)
THEOREM DownloadIsComplete == Spec => []DownloadComplete
<1>1. TunnelInv => DownloadComplete
  BY DEF TunnelInv, Undisturbed, DownloadComplete, Calm
<1>2. QED
  BY TunnelInvariant, <1>1, PTL

(* Every variable keeps its type: no queue, buffer or frame ever holds     *)
(* anything but the address, the part of it still to be read, or a piece.  *)
THEOREM TunnelTypes == Spec => []TypeOK
<1>1. ASSUME TunnelInv
      PROVE  TypeOK
  <2>0. IInv /\ TypeInv /\ FrameOrder /\ Payloads /\ Stage /\ UpOrder /\ DownOrder /\ ControlTypes /\ \A s \in Sides : s = "client" \/ s = "server"
    BY <1>1 DEF TunnelInv, IInv, Sides
  <2>1. fut \in [Sides -> {0, 1, Whole}]
    BY <2>0 DEF TypeInv, Stage
  <2>2. ASSUME NEW s \in Sides
        PROVE  /\ pipe[s].queue \in Seq(Events(Units)) /\ pipe[s].buffer \in Units
               /\ \A flag \in {"closed", "sender", "receiver", "endQueued"} : pipe[s][flag] \in BOOLEAN
               /\ net[s] \in Seq([cmd : {"SYN", "PSH", "FIN", "SYNACK", "SYNERR"}, units : Units])
    <3>1. pipe[s].queue \in Seq(Events(Units)) /\ net[s] \in Seq(Sendable)
      BY <2>0 DEF Payloads, FrameOrder
    <3>2. pipe[s].buffer \in Units
      BY <2>0, StreamUnits DEF Stage
    <3>3. \A flag \in {"closed", "sender", "receiver", "endQueued"} : pipe[s][flag] \in BOOLEAN
      <4>1. pipe[s] \in Pipe
        BY <2>0, SideTypes
      <4>2. QED
        BY SMTT(30), <4>1 DEF Pipe
    <3>4. QED
      BY <3>1, <3>2, <3>3 DEF Sendable
  <2>3. holding \in [Sides -> Units]
    BY <2>0 DEF TypeInv, Payloads
  <2>4. StreamsType(Units, {"SYN", "PSH", "FIN", "SYNACK", "SYNERR"}, {0, 1, Whole})
    BY <2>0, <2>1, <2>2, <2>3 DEF StreamsType, TypeInv, ControlTypes
  <2>5. appSent \in 0 .. MaxPieces /\ destSent \in 0 .. MaxPieces
    <3>1. appSent \in Nat /\ destSent \in Nat /\ appSent + destSent <= MaxPieces
      BY <2>0 DEF TypeInv, FrameOrder
    <3>2. QED
      BY SMTT(30), <3>1, TunnelAssumption
  <2>6. appGot \in Seq(1 .. MaxPieces) /\ destGot \in Seq(1 .. MaxPieces)
    BY <2>0 DEF UpOrder, DownOrder
  <2>7. QED
    BY <2>0, <2>4, <2>5, <2>6 DEF TypeOK, ControlTypes, Stage
<1>2. QED
  BY TunnelInvariant, <1>1, PTL
=============================================================================
