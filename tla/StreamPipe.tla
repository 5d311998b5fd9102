----------------------------- MODULE StreamPipe -----------------------------
(***************************************************************************)
(* The pipe between a session's receive loop and the reader of a stream:   *)
(* PipeInner, PipeReader and PipeWriter (src/src/proxy/pipe/io_pipe.rs).   *)
(* A pipe is a record, each operator what one section under its lock does. *)
(*                                                                         *)
(* A read is two such sections with an await between them: the first one   *)
(* answers from the buffer or finds the end (ReadsNow), and otherwise the  *)
(* reader takes the receiver out and waits for an event (ReadReady), while *)
(* others write, finish or close the pipe.  Nothing in the code sets a     *)
(* deadline, and every close_with_error carries no error, so read_error is *)
(* always empty.                                                           *)
(*                                                                         *)
(* Data is a sequence of units; what a read returns is a record of its     *)
(* result ("data", "eof" or "error"), the units and the pipe after it.     *)
(***************************************************************************)
EXTENDS Integers, Sequences

Data(units) == [kind |-> "data", units |-> units]
StreamEnd(kind) == [kind |-> kind, units |-> <<>>]   \* "eof", or "error"

Events(Units) == [kind : {"data"}, units : Units] \cup {StreamEnd("eof"), StreamEnd("error")}

(* pipe() *)
NewPipe ==
  [queue |-> <<>>, buffer |-> <<>>, closed |-> FALSE, sender |-> TRUE, receiver |-> TRUE, endQueued |-> FALSE]

(* PipeWriter::write succeeds. *)
CanWrite(p) == ~p.closed /\ ~p.endQueued /\ p.sender /\ p.receiver
WriteFirst(p, units) == [p EXCEPT !.queue = <<Data(units)>> \o @]
Write(p, units) == [p EXCEPT !.queue = Append(@, Data(units))]

(* PipeReader::finish_stream: the end goes behind what is queued. *)
FinishStreamAtOnce(p, kind) == [p EXCEPT !.closed = TRUE, !.sender = FALSE]
FinishStream(p, kind) ==
  IF p.closed \/ p.endQueued THEN p
  ELSE IF p.sender /\ p.receiver THEN [p EXCEPT !.endQueued = TRUE, !.queue = Append(@, StreamEnd(kind))]
  ELSE [p EXCEPT !.endQueued = TRUE, !.closed = TRUE, !.sender = FALSE]

(* The task that PipeReader::close_with_error spawns. *)
CloseButKeepSender(p) == [p EXCEPT !.closed = TRUE]
CloseWithError(p) == [p EXCEPT !.closed = TRUE, !.sender = FALSE]

(* A read is dropped while it waits: the receiver it took out goes with it. *)
DropReader(p) == [p EXCEPT !.receiver = FALSE, !.queue = <<>>]

-----------------------------------------------------------------------------
(* PipeReader::read of at most n units.                                    *)

AtEnd(p) == p.closed /\ ~p.sender
ReadsNow(p) == p.buffer # <<>> \/ AtEnd(p)

Least(n, units) == IF Len(units) < n THEN Len(units) ELSE n

(* The first section, when it returns: the buffer goes before the end. *)
ReadNowUndrained(p, n) ==
  IF p.buffer # <<>>
  THEN [kind |-> "data", units |-> SubSeq(p.buffer, 1, Least(n, p.buffer)), pipe |-> p]
  ELSE [kind |-> "eof", units |-> <<>>, pipe |-> p]
ReadNow(p, n) ==
  IF p.buffer # <<>>
  THEN LET k == Least(n, p.buffer) IN
       [kind |-> "data", units |-> SubSeq(p.buffer, 1, k),
        pipe |-> [p EXCEPT !.buffer = SubSeq(@, k + 1, Len(@))]]
  ELSE [kind |-> "eof", units |-> <<>>, pipe |-> p]

(* recv() is ready: an event is queued, or the sender is gone. *)
ReadReady(p) == p.queue # <<>> \/ ~p.sender

(* The event received, and the second section. *)
ReadEventCutOff(p, n) ==
  IF p.queue = <<>>
  THEN [kind |-> "eof", units |-> <<>>, pipe |-> p]
  ELSE LET e == Head(p.queue)
           rest == [p EXCEPT !.queue = Tail(@)]
       IN [kind |-> e.kind, units |-> SubSeq(e.units, 1, Least(n, e.units)),
           pipe |-> IF e.kind = "data" THEN rest ELSE [rest EXCEPT !.closed = TRUE, !.sender = FALSE]]
ReadEvent(p, n) ==
  IF p.queue = <<>>
  THEN [kind |-> "eof", units |-> <<>>, pipe |-> p]
  ELSE LET e == Head(p.queue)
           k == Least(n, e.units)
           rest == [p EXCEPT !.queue = Tail(@)]
       IN [kind |-> e.kind, units |-> SubSeq(e.units, 1, k),
           pipe |-> IF e.kind = "data"
                    THEN [rest EXCEPT !.buffer = @ \o SubSeq(e.units, k + 1, Len(e.units))]
                    ELSE [rest EXCEPT !.closed = TRUE, !.sender = FALSE]]
=============================================================================
