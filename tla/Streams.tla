------------------------------ MODULE Streams ------------------------------
(***************************************************************************)
(* Both ends of one stream of a session: the streams and their pipes       *)
(* (src/src/proxy/session/stream.rs), the receive loops                    *)
(* (proxy/session/inner.rs), what the engine does with each frame          *)
(* (core/engine.rs, core/state.rs, runtime/mod.rs), and the frame of       *)
(* handle_session (src/bin/server.rs) that every relay runs in.            *)
(*                                                                         *)
(* The module has no specification of its own: Tunnel and UdpRelay extend  *)
(* it by what uses the stream, and say what its actions leave unchanged.   *)
(* The TLS connection delivers in order until it is lost.  Frame queues do *)
(* not fill up (100 frames in the code), so send_frame and send_frame_sync *)
(* differ only in who learns of a failed write.                            *)
(*                                                                         *)
(* A definition that directly precedes another one and differs from it in  *)
(* one respect is a mistake the code could have made; no specification     *)
(* uses it.                                                                *)
(***************************************************************************)
EXTENDS StreamPipe

VARIABLES
  closed,    \* Stream.closed, on each side
  mapped,    \* the stream is in its session's map
  pipe,      \* its pipe
  spawned,   \* the task of close_with_error has not run yet
  fut,       \* size of the pending read, 0 if there is none
  net,       \* frames on their way to each side
  writer,    \* the writer task: "up", "doomed" by a write that fails, or "down"
  run,       \* Session::run: "up", "failing" on an error, or "ended"
  holding,   \* the payload push_stream_data is about to push, or <<>>
  lost,      \* the TLS connection is gone
  st,        \* State: padding scheme, peer_version, received_settings_from_client
  hand,      \* where handle_session is
  denied     \* ctx.approved() is false

Sides == {"client", "server"}
Peer(s) == IF s = "client" THEN "server" ELSE "client"

streamVars == <<closed, mapped, pipe, spawned, fut>>
linkVars == <<net, writer, run, holding, lost, st>>
handVars == <<hand, denied>>

MinVersion == 2   \* MIN_PROTOCOL_VERSION

Psh(units) == [cmd |-> "PSH", units |-> units]
Frame(cmd) == [cmd |-> cmd, units |-> <<>>]
Settings(v, scheme) == [cmd |-> "SETTINGS", v |-> v, padding |-> scheme]
ServerSettings(v) == [cmd |-> "SERVERSETTINGS", v |-> v]
UpdatePadding(scheme) == [cmd |-> "UPDATEPADDING", padding |-> scheme]

State(padding, peer, settings) == [padding |-> padding, peer |-> peer, settings |-> settings]

(* The client has opened the stream and sent opening; each side has its State. *)
StreamsInit(opening, states) ==
  /\ closed = [s \in Sides |-> FALSE]
  /\ mapped = [s \in Sides |-> s = "client"]
  /\ pipe = [s \in Sides |-> NewPipe]
  /\ spawned = [s \in Sides |-> FALSE]
  /\ fut = [s \in Sides |-> 0]
  /\ net = [s \in Sides |-> IF s = "server" THEN opening ELSE <<>>]
  /\ writer = [s \in Sides |-> "up"]
  /\ run = [s \in Sides |-> "up"]
  /\ holding = [s \in Sides |-> <<>>]
  /\ lost = FALSE
  /\ st = states
  /\ hand = "new" /\ denied = FALSE

-----------------------------------------------------------------------------
(* Streams.                                                                *)

(* frame_tx takes a frame as long as the writer task is there. *)
Open(s) == writer[s] # "down"

(* Stream::is_terminated is false. *)
Usable(s) == ~closed[s] /\ Open(s)

(* frame_tx.send, and the write; on a lost connection it fails later. *)
Send(s, frame) ==
  IF lost
  THEN writer' = [writer EXCEPT ![s] = "doomed"] /\ UNCHANGED net
  ELSE net' = [net EXCEPT ![Peer(s)] = Append(@, frame)] /\ UNCHANGED writer

(* The last step of Stream::close, whose callers ignore its error. *)
SendFin(s) == IF Open(s) THEN Send(s, Frame("FIN")) ELSE UNCHANGED <<net, writer>>

(* Stream::close up to its FIN, by the task that gets past mark_closed. *)
CloseStream(s) ==
  /\ closed' = [closed EXCEPT ![s] = TRUE]
  /\ mapped' = [mapped EXCEPT ![s] = FALSE]
  /\ spawned' = [spawned EXCEPT ![s] = TRUE]

(* The task it spawns. *)
ClosePipe(s) ==
  /\ spawned[s]
  /\ spawned' = [spawned EXCEPT ![s] = FALSE]
  /\ pipe' = [pipe EXCEPT ![s] = CloseWithError(@)]
  /\ UNCHANGED <<closed, mapped, fut, linkVars, handVars>>

(* The end of a stream that comes from the peer (close_from_peer) or from  *)
(* the session (close_from_session).                                       *)
EndStreamUnfinished(s, kind) ==
  /\ mapped' = [mapped EXCEPT ![s] = FALSE]
  /\ closed' = [closed EXCEPT ![s] = @ \/ mapped[s]]
  /\ UNCHANGED pipe
EndStream(s, kind) ==
  /\ mapped' = [mapped EXCEPT ![s] = FALSE]
  /\ closed' = [closed EXCEPT ![s] = @ \/ mapped[s]]
  /\ pipe' = [pipe EXCEPT ![s] = IF mapped[s] THEN FinishStream(@, kind) ELSE @]

(* A read of at most n units by the reader of s: it waits, or it answers.  *)
(* A read that waits stays as it is when select! takes another branch.     *)
Waits(s, n) ==
  /\ fut[s] = 0
  /\ ~ReadsNow(pipe[s])
  /\ fut' = [fut EXCEPT ![s] = n]
Answers(s) == IF fut[s] = 0 THEN ReadsNow(pipe[s]) ELSE ReadReady(pipe[s])
Answer(s, n) == IF fut[s] = 0 THEN ReadNow(pipe[s], n) ELSE ReadEvent(pipe[s], fut[s])
TakeAnswer(s, n) ==
  /\ Answers(s)
  /\ pipe' = [pipe EXCEPT ![s] = Answer(s, n).pipe]
  /\ fut' = [fut EXCEPT ![s] = 0]

(* The reader of s is dropped, and with it the read it left pending. *)
Leave(s) ==
  /\ pipe' = [pipe EXCEPT ![s] = IF fut[s] = 0 THEN @ ELSE DropReader(@)]
  /\ fut' = [fut EXCEPT ![s] = 0]

-----------------------------------------------------------------------------
(* The receive loop: Engine::on_frame and apply_actions for each frame.    *)

Arrived(s, cmds) == run[s] = "up" /\ holding[s] = <<>> /\ net[s] # <<>> /\ Head(net[s]).cmd \in cmds
Consumed(s) == [net EXCEPT ![s] = Tail(@)]

(* The frames that answer a frame.  One that cannot be written fails the   *)
(* handling of the frame, an asynchronous one only once the writer is gone.*)
Reply(s, frames, sync) ==
  LET fails == frames # <<>> /\ lost IN
  /\ net' = IF fails THEN Consumed(s) ELSE [Consumed(s) EXCEPT ![Peer(s)] = @ \o frames]
  /\ writer' = [writer EXCEPT ![s] = IF fails /\ @ = "up" THEN "doomed" ELSE @]
  /\ run' = [run EXCEPT ![s] = IF fails /\ (sync \/ ~Open(s)) THEN "failing" ELSE @]

(* SYN: create_incoming_stream, which spawns handle_session, or the alert. *)
ReceiveSynIgnored(s) ==
  /\ Arrived(s, {"SYN"})
  /\ net' = Consumed(s)
  /\ mapped' = [mapped EXCEPT ![s] = st[s].settings /\ Open(s)]
  /\ hand' = IF st[s].settings /\ Open(s) THEN "check" ELSE hand
  /\ UNCHANGED <<closed, pipe, spawned, fut, writer, run, holding, lost, st, denied>>
ReceiveSyn(s) ==
  /\ Arrived(s, {"SYN"})
  /\ IF st[s].settings
     THEN /\ net' = Consumed(s)
          /\ mapped' = [mapped EXCEPT ![s] = Open(s)]
          /\ hand' = IF Open(s) THEN "check" ELSE hand
          /\ UNCHANGED <<writer, run>>
     ELSE /\ net' = IF lost THEN Consumed(s) ELSE [Consumed(s) EXCEPT ![Peer(s)] = Append(@, Frame("ALERT"))]
          /\ writer' = [writer EXCEPT ![s] = IF lost /\ @ = "up" THEN "doomed" ELSE @]
          /\ run' = [run EXCEPT ![s] = "failing"]
          /\ UNCHANGED <<mapped, hand>>
  /\ UNCHANGED <<closed, pipe, spawned, fut, holding, lost, st, denied>>

(* PSH: push_stream_data looks the stream up. *)
ReceivePsh(s) ==
  /\ Arrived(s, {"PSH"})
  /\ net' = Consumed(s)
  /\ holding' = [holding EXCEPT ![s] = IF mapped[s] /\ ~closed[s] THEN Head(net[s]).units ELSE <<>>]
  /\ UNCHANGED <<streamVars, writer, run, lost, st, handVars>>

(* FIN, and SYNACK with a message, end the stream. *)
ReceiveEnd(s) ==
  /\ Arrived(s, {"FIN", "SYNERR"})
  /\ net' = Consumed(s)
  /\ EndStream(s, IF Head(net[s]).cmd = "FIN" THEN "eof" ELSE "error")
  /\ UNCHANGED <<spawned, fut, writer, run, holding, lost, st, handVars>>

(* What the server answers to settings: its scheme, if the client has      *)
(* another one, and the version, if it knows that version.                 *)
SettingsReplyKnownOnly(own, v, scheme) ==
  IF v < MinVersion THEN <<>>
  ELSE IF scheme = own THEN <<ServerSettings(v)>> ELSE <<UpdatePadding(own), ServerSettings(v)>>
SettingsReply(own, v, scheme) ==
  (IF scheme = own THEN <<>> ELSE <<UpdatePadding(own)>>)
    \o (IF v < MinVersion THEN <<>> ELSE <<ServerSettings(v)>>)

ReceiveSettings(s) ==
  /\ Arrived(s, {"SETTINGS"})
  /\ LET v == Head(net[s]).v IN
     /\ st' = [st EXCEPT ![s].settings = TRUE, ![s].peer = IF v < MinVersion THEN @ ELSE v]
     /\ Reply(s, SettingsReply(st[s].padding, v, Head(net[s]).padding), TRUE)
  /\ UNCHANGED <<streamVars, holding, lost, handVars>>

ReceiveServerSettings(s) ==
  /\ Arrived(s, {"SERVERSETTINGS"})
  /\ net' = Consumed(s)
  /\ st' = [st EXCEPT ![s].peer = Head(net[s]).v]
  /\ UNCHANGED <<streamVars, writer, run, holding, lost, handVars>>

ReceiveUpdate(s) ==
  /\ Arrived(s, {"UPDATEPADDING"})
  /\ net' = Consumed(s)
  /\ st' = [st EXCEPT ![s].padding = Head(net[s]).padding]
  /\ UNCHANGED <<streamVars, writer, run, holding, lost, handVars>>

ReceiveHeart(s) ==
  /\ Arrived(s, {"HEARTREQUEST"})
  /\ Reply(s, <<Frame("HEARTRESPONSE")>>, FALSE)
  /\ UNCHANGED <<streamVars, holding, lost, st, handVars>>

ReceiveAlert(s) ==
  /\ Arrived(s, {"ALERT"})
  /\ net' = Consumed(s)
  /\ run' = [run EXCEPT ![s] = "failing"]
  /\ UNCHANGED <<streamVars, writer, holding, lost, st, handVars>>

(* Frames that change nothing. *)
ReceiveOther(s) ==
  /\ Arrived(s, {"SYNACK", "HEARTRESPONSE"})
  /\ net' = Consumed(s)
  /\ UNCHANGED <<streamVars, writer, run, holding, lost, st, handVars>>

(* A push that fails is overlooked if the stream has been closed. *)
PushForgivenNever(s) == CanWrite(pipe[s])
PushForgiven(s) == CanWrite(pipe[s]) \/ closed[s]

(* push_stream_data, after its check of the stream.  A stream closed since *)
(* then may still take the payload: push_data has a check of its own, but  *)
(* the close may come after that one too.                                  *)
Push(s) ==
  /\ run[s] = "up" /\ holding[s] # <<>>
  /\ holding' = [holding EXCEPT ![s] = <<>>]
  /\ \/ pipe' = [pipe EXCEPT ![s] = IF CanWrite(@) THEN Write(@, holding[s]) ELSE @]
     \/ closed[s] /\ UNCHANGED pipe
  /\ run' = [run EXCEPT ![s] = IF PushForgiven(s) THEN @ ELSE "failing"]
  /\ UNCHANGED <<closed, mapped, spawned, fut, net, writer, lost, st, handVars>>

(* recv_loop returns, and terminate ends the stream.  Of the frames under  *)
(* way when the connection was lost, any number may have come before that. *)
RunEnd(s) ==
  /\ run[s] # "ended"
  /\ run[s] = "up" => lost /\ holding[s] = <<>>
  /\ run' = [run EXCEPT ![s] = "ended"]
  /\ net' = [net EXCEPT ![s] = <<>>]
  /\ EndStream(s, "eof")
  /\ UNCHANGED <<spawned, fut, writer, holding, lost, st, handVars>>

(* A write fails: the writer task ends and drops the frame queue. *)
WriterEnd(s) ==
  /\ writer[s] = "doomed"
  /\ writer' = [writer EXCEPT ![s] = "down"]
  /\ UNCHANGED <<streamVars, net, run, holding, lost, st, handVars>>

StreamFrames(s) == ReceiveSyn(s) \/ ReceivePsh(s) \/ ReceiveEnd(s) \/ ReceiveOther(s)
ControlFrames(s) ==
  \/ ReceiveSettings(s) \/ ReceiveServerSettings(s) \/ ReceiveUpdate(s)
  \/ ReceiveHeart(s) \/ ReceiveAlert(s)
RunTask(s) == StreamFrames(s) \/ ControlFrames(s) \/ Push(s) \/ RunEnd(s)
SpawnedTask(s) == WriterEnd(s) \/ ClosePipe(s)

-----------------------------------------------------------------------------
(* handle_session.                                                         *)

(* handshake_success and handshake_failure tell a client whose version is  *)
(* known, and fail if that cannot be sent.                                 *)
TellFails == st["server"].peer >= MinVersion /\ ~Open("server")
Tell(cmd) == IF st["server"].peer >= MinVersion THEN Send("server", Frame(cmd)) ELSE UNCHANGED <<net, writer>>

(* The head of the loop: is_terminated, then approved. *)
HandCheck ==
  /\ hand = "check"
  /\ \/ /\ Usable("server") /\ ~denied
        /\ hand' = "dest"
        /\ UNCHANGED streamVars
     \/ /\ Usable("server") /\ denied
        /\ hand' = "fin"
        /\ CloseStream("server")
        /\ UNCHANGED <<pipe, fut>>
     \/ /\ ~Usable("server")
        /\ hand' = "done"
        /\ Leave("server")
        /\ UNCHANGED <<closed, mapped, spawned>>
  /\ UNCHANGED <<linkVars, denied>>

(* terminate after a failed handshake. *)
HandClose ==
  /\ hand = "close"
  /\ IF closed["server"]
     THEN hand' = "done" /\ UNCHANGED <<closed, mapped, spawned>>
     ELSE hand' = "fin" /\ CloseStream("server")
  /\ UNCHANGED <<pipe, fut, linkVars, denied>>

(* The FIN of a handler that closed the stream. *)
HandFin ==
  /\ hand = "fin"
  /\ hand' = "done"
  /\ SendFin("server")
  /\ Leave("server")
  /\ UNCHANGED <<closed, mapped, spawned, run, holding, lost, st, denied>>

-----------------------------------------------------------------------------
(* The types of the variables above; hand is typed where its values are.   *)
StreamsType(Units, cmds, sizes) ==
  /\ closed \in [Sides -> BOOLEAN] /\ mapped \in [Sides -> BOOLEAN] /\ spawned \in [Sides -> BOOLEAN]
  /\ fut \in [Sides -> sizes]
  /\ \A s \in Sides :
       /\ pipe[s].queue \in Seq(Events(Units)) /\ pipe[s].buffer \in Units
       /\ \A flag \in {"closed", "sender", "receiver", "endQueued"} : pipe[s][flag] \in BOOLEAN
       /\ net[s] \in Seq([cmd : cmds, units : Units])
  /\ writer \in [Sides -> {"up", "doomed", "down"}] /\ run \in [Sides -> {"up", "failing", "ended"}]
  /\ holding \in [Sides -> Units] /\ lost \in BOOLEAN /\ denied \in BOOLEAN

-----------------------------------------------------------------------------
(* The environment.                                                        *)

(* The TLS connection is lost. *)
LoseLink ==
  /\ ~lost
  /\ lost' = TRUE
  /\ UNCHANGED <<streamVars, net, writer, run, holding, st, handVars>>

(* The user is revoked, expires or runs out of quota. *)
DenyUser ==
  /\ ~denied
  /\ denied' = TRUE
  /\ UNCHANGED <<streamVars, linkVars, hand>>
=============================================================================
