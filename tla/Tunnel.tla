------------------------------- MODULE Tunnel -------------------------------
(***************************************************************************)
(* One proxied TCP connection from end to end: s5_connect on the client    *)
(* (src/src/client_runner.rs), the two ends of its stream (Streams), and   *)
(* handle_session with handle_tcp_stream on the server (src/bin/server.rs).*)
(*                                                                         *)
(* The settings have been exchanged and open_stream has put SYN on its     *)
(* way.  The application and the destination are the environment: each     *)
(* sends numbered pieces, each of which travels as one PSH frame, and may  *)
(* end or break off at any time.                                           *)
(*                                                                         *)
(* A definition that directly precedes another one and differs from it in  *)
(* one respect is a mistake the code could have made; no specification     *)
(* uses it.                                                                *)
(***************************************************************************)
EXTENDS Streams, FiniteSets

CONSTANTS
  MaxPieces,      \* bound: pieces the application and the destination send
  MaxDials,       \* bound: destinations dialled for the stream
  MaxFaults       \* bound: kinds of faults in one behaviour

ASSUME TunnelAssumption ==
  /\ MaxPieces \in Nat /\ MaxDials \in Nat \ {0}
  /\ MaxFaults \in Nat

VARIABLES
  app,       \* the application's sending side: "open", "eof" or "gone"
  appSent, appGot, appEnd,     \* what it sent, got, and how that ended
  c2p, p2c,  \* the two tasks of s5_connect
  dest,      \* the destination's sending side: "open", "eof" or "reset"
  destSent, destGot, destEnd,  \* what it sent, got, and whether that ended
  dials,     \* destinations it has dialled
  s2o, o2s,  \* the two halves of handle_tcp_stream
  cancel     \* relay_cancel

appVars == <<app, appSent, appGot, appEnd>>
taskVars == <<c2p, p2c>>
destVars == <<dest, destSent, destGot, destEnd>>
relayVars == <<dials, s2o, o2s, cancel>>
tunnelVars == <<appVars, taskVars, destVars, relayVars>>
vars == <<streamVars, linkVars, handVars, tunnelVars>>

Atyp == 0                   \* the first unit of an encoded address,
Rest == -1                  \* and the others; the unit of a piece is its number
Address == <<Atyp, Rest>>
Whole == 2                  \* a read of 4096 bytes takes any chunk whole

Init ==
  /\ StreamsInit(<<Frame("SYN")>>, [s \in Sides |-> State("agreed", MinVersion, s = "server")])
  /\ app = "open" /\ appSent = 0 /\ appGot = <<>> /\ appEnd = "no"
  /\ c2p = "addr" /\ p2c = "new"
  /\ dest = "open" /\ destSent = 0 /\ destGot = <<>> /\ destEnd = FALSE
  /\ dials = 0 /\ s2o = "done" /\ o2s = "done" /\ cancel = FALSE

-----------------------------------------------------------------------------
(* s5_connect.                                                             *)

(* The address; if that fails the application's connection is dropped. *)
SendAddress ==
  /\ c2p = "addr"
  /\ IF Usable("client")
     THEN c2p' = "read" /\ p2c' = "read" /\ Send("client", Psh(Address)) /\ UNCHANGED appEnd
     ELSE c2p' = "done" /\ p2c' = "done" /\ appEnd' = "error" /\ UNCHANGED <<net, writer>>
  /\ UNCHANGED <<streamVars, run, holding, lost, st, app, appSent, appGot, destVars, relayVars, handVars>>

(* c2p reads a piece, and Stream::write.  What comes between its test of   *)
(* closed and the send does not touch the frames of this side.             *)
C2pRead ==
  /\ c2p = "read" /\ app = "open" /\ appSent + destSent < MaxPieces
  /\ appSent' = appSent + 1
  /\ IF Usable("client")
     THEN Send("client", Psh(<<appSent'>>)) /\ UNCHANGED c2p
     ELSE c2p' = "close" /\ UNCHANGED <<net, writer>>
  /\ UNCHANGED <<streamVars, run, holding, lost, st, app, appGot, appEnd, p2c, destVars, relayVars, handVars>>

(* The application half-closes its connection, or breaks it off. *)
C2pEnd ==
  /\ c2p = "read" /\ app = "open"
  /\ app' \in {"eof", "gone"}
  /\ c2p' = "close"
  /\ UNCHANGED <<streamVars, linkVars, appSent, appGot, appEnd, p2c, destVars, relayVars, handVars>>

C2pClose ==
  /\ c2p = "close"
  /\ IF closed["client"]
     THEN c2p' = "done" /\ UNCHANGED <<closed, mapped, spawned>>
     ELSE c2p' = "fin" /\ CloseStream("client")
  /\ UNCHANGED <<pipe, fut, linkVars, appVars, p2c, destVars, relayVars, handVars>>

C2pFin ==
  /\ c2p = "fin"
  /\ c2p' = "done"
  /\ SendFin("client")
  /\ UNCHANGED <<streamVars, run, holding, lost, st, appVars, p2c, destVars, relayVars, handVars>>

P2cWait ==
  /\ p2c = "read"
  /\ Waits("client", Whole)
  /\ UNCHANGED <<closed, mapped, pipe, spawned, linkVars, handVars, tunnelVars>>

(* p2c hands what it read to the application, and at the end, or when the  *)
(* application is gone, shuts the connection down.                         *)
P2cRead ==
  /\ p2c = "read"
  /\ TakeAnswer("client", Whole)
  /\ LET a == Answer("client", Whole) IN
     IF a.kind = "data" /\ app # "gone"
     THEN appGot' = appGot \o a.units /\ UNCHANGED <<p2c, appEnd>>
     ELSE p2c' = "done" /\ appEnd' = (IF a.kind = "data" THEN "error" ELSE a.kind) /\ UNCHANGED appGot
  /\ UNCHANGED <<closed, mapped, spawned, linkVars, app, appSent, c2p, destVars, relayVars, handVars>>

ClientInput == C2pRead \/ C2pEnd
ClientTask == SendAddress \/ C2pClose \/ C2pFin
ClientReader == P2cWait \/ P2cRead

-----------------------------------------------------------------------------
(* handle_session.                                                         *)

HandWait ==
  /\ hand \in {"dest", "rest"}
  /\ Waits("server", 1)
  /\ UNCHANGED <<closed, mapped, pipe, spawned, linkVars, handVars, tunnelVars>>

(* Address::retrieve_from_async_stream, byte by byte.  A payload in its    *)
(* place is an address by accident, or it ends the handler: it is no       *)
(* address, or the answer to a larger read does not fit the buffer.        *)
HandRead ==
  /\ hand \in {"dest", "rest"}
  /\ TakeAnswer("server", 1)
  /\ LET a == Answer("server", 1) IN
     \/ a.kind = "data" /\ a.units = <<Atyp>> /\ hand' = "rest"
     \/ a.kind = "data" /\ a.units = <<Rest>> /\ hand' = "dial"
     \/ /\ a.kind = "data" /\ a.units \notin {<<Atyp>>, <<Rest>>}
        /\ hand' \in {"done"} \cup (IF dials < MaxDials THEN {"dial"} ELSE {})
     \/ a.kind # "data" /\ hand' = "done"
  /\ UNCHANGED <<closed, mapped, spawned, linkVars, denied, tunnelVars>>

(* connect_outbound_tcp succeeds, and handshake_success. *)
HandConnect ==
  /\ hand = "dial"
  /\ dials' = dials + 1
  /\ dest' = "open"
  /\ IF ~TellFails
     THEN /\ Tell("SYNACK")
          /\ hand' = "relay" /\ s2o' = "select" /\ o2s' = "select" /\ cancel' = FALSE
          /\ UNCHANGED destEnd
     ELSE /\ hand' = "done" /\ destEnd' = TRUE
          /\ UNCHANGED <<net, writer, s2o, o2s, cancel>>
  /\ UNCHANGED <<streamVars, run, holding, lost, st, appVars, taskVars, destSent, destGot, denied>>

(* It fails, and handshake_failure. *)
HandRefuse ==
  /\ hand = "dial"
  /\ IF ~TellFails
     THEN Tell("SYNERR") /\ hand' = "close"
     ELSE hand' = "done" /\ UNCHANGED <<net, writer>>
  /\ UNCHANGED <<streamVars, run, holding, lost, st, denied, tunnelVars>>

(* join! of the two halves: the outbound connection is dropped. *)
HandJoin ==
  /\ hand = "relay" /\ s2o = "done" /\ o2s = "done"
  /\ hand' = "check"
  /\ destEnd' = TRUE
  /\ UNCHANGED <<streamVars, linkVars, appVars, taskVars, dest, destSent, destGot, denied, relayVars>>

HandStep ==
  \/ (HandCheck \/ HandClose \/ HandFin) /\ UNCHANGED tunnelVars
  \/ HandConnect \/ HandRefuse \/ HandJoin
HandReader == HandWait \/ HandRead

-----------------------------------------------------------------------------
(* handle_tcp_stream: s2o, from the stream to the destination.             *)

(* relay_cancel: no shutdown, and what the stream still holds stays there. *)
S2oCancelled ==
  /\ s2o = "select" /\ cancel
  /\ s2o' = "done"
  /\ UNCHANGED <<streamVars, linkVars, appVars, taskVars, destVars, dials, o2s, cancel, handVars>>

(* enable_check: the user is no longer approved. *)
S2oDenied ==
  /\ s2o = "select" /\ denied
  /\ IF closed["server"]
     THEN s2o' = "shut" /\ UNCHANGED <<closed, mapped, spawned>>
     ELSE s2o' = "fin" /\ CloseStream("server")
  /\ UNCHANGED <<pipe, fut, linkVars, appVars, taskVars, destVars, dials, o2s, cancel, handVars>>

S2oFin ==
  /\ s2o = "fin"
  /\ s2o' = "shut"
  /\ SendFin("server")
  /\ UNCHANGED <<streamVars, run, holding, lost, st, appVars, taskVars, destVars, dials, o2s, cancel, handVars>>

S2oWait ==
  /\ s2o = "select"
  /\ Waits("server", Whole)
  /\ UNCHANGED <<closed, mapped, pipe, spawned, linkVars, handVars, tunnelVars>>

(* A read, and write_all to the destination, which fails once it has reset. *)
S2oRead ==
  /\ s2o = "select"
  /\ TakeAnswer("server", Whole)
  /\ LET a == Answer("server", Whole) IN
     \/ /\ a.kind = "data" /\ dest # "reset"
        /\ destGot' = IF dials = 1 THEN destGot \o a.units ELSE destGot
        /\ UNCHANGED s2o
     \/ a.kind = "data" /\ dest = "reset" /\ s2o' = "shuterr" /\ UNCHANGED destGot
     \/ /\ a.kind # "data"
        /\ s2o' = IF a.kind = "eof" THEN "shut" ELSE "shuterr"
        /\ UNCHANGED destGot
  /\ UNCHANGED <<closed, mapped, spawned, linkVars, appVars, taskVars, dest, destSent, destEnd, dials, o2s, cancel, handVars>>

(* shutdown; on a connection that was reset it may fail, and then s2o      *)
(* returns before relay_cancel.                                            *)
S2oShut ==
  /\ s2o \in {"shut", "shuterr"}
  /\ s2o' = "done"
  /\ destEnd' = TRUE
  /\ \/ cancel' = (cancel \/ s2o = "shuterr")
     \/ dest = "reset" /\ UNCHANGED cancel
  /\ UNCHANGED <<streamVars, linkVars, appVars, taskVars, dest, destSent, destGot, dials, o2s, handVars>>

-----------------------------------------------------------------------------
(* handle_tcp_stream: o2s, from the destination to the stream.             *)

O2sCancelled ==
  /\ o2s = "select" /\ cancel
  /\ o2s' = "done"
  /\ UNCHANGED <<streamVars, linkVars, appVars, taskVars, destVars, dials, s2o, cancel, handVars>>

O2sDenied ==
  /\ o2s = "select" /\ denied
  /\ IF closed["server"]
     THEN o2s' = "done" /\ UNCHANGED <<closed, mapped, spawned>>
     ELSE o2s' = "fin" /\ CloseStream("server")
  /\ UNCHANGED <<pipe, fut, linkVars, appVars, taskVars, destVars, dials, s2o, cancel, handVars>>

(* A piece from the destination, and Stream::write, whose error cancels    *)
(* the relay.  Both halves are one task, and the frame queue is not full.  *)
O2sReadStale ==
  /\ o2s = "select" /\ dest = "open" /\ appSent + destSent < MaxPieces
  /\ destSent' = destSent + 1
  /\ IF Usable("server")
     THEN Send("server", Psh(<<destSent>>)) /\ UNCHANGED <<o2s, cancel>>
     ELSE o2s' = "done" /\ cancel' = TRUE /\ UNCHANGED <<net, writer>>
  /\ UNCHANGED <<streamVars, run, holding, lost, st, appVars, taskVars, dest, destGot, destEnd, dials, s2o, handVars>>
O2sRead ==
  /\ o2s = "select" /\ dest = "open" /\ appSent + destSent < MaxPieces
  /\ destSent' = destSent + 1
  /\ IF Usable("server")
     THEN Send("server", Psh(<<destSent'>>)) /\ UNCHANGED <<o2s, cancel>>
     ELSE o2s' = "done" /\ cancel' = TRUE /\ UNCHANGED <<net, writer>>
  /\ UNCHANGED <<streamVars, run, holding, lost, st, appVars, taskVars, dest, destGot, destEnd, dials, s2o, handVars>>

(* The destination is done: Stream::close. *)
O2sEof ==
  /\ o2s = "select" /\ dest = "open"
  /\ dest' = "eof"
  /\ IF closed["server"]
     THEN o2s' = "done" /\ UNCHANGED <<closed, mapped, spawned>>
     ELSE o2s' = "fin" /\ CloseStream("server")
  /\ UNCHANGED <<pipe, fut, linkVars, appVars, taskVars, destSent, destGot, destEnd, dials, s2o, cancel, handVars>>

O2sFin ==
  /\ o2s = "fin"
  /\ o2s' = "done"
  /\ SendFin("server")
  /\ UNCHANGED <<streamVars, run, holding, lost, st, appVars, taskVars, destVars, dials, s2o, cancel, handVars>>

(* A read error cancels the relay and leaves the stream open. *)
O2sError ==
  /\ o2s = "select" /\ dest = "reset"
  /\ o2s' = "done"
  /\ cancel' = TRUE
  /\ UNCHANGED <<streamVars, linkVars, appVars, taskVars, destVars, dials, s2o, handVars>>

S2oTask == S2oCancelled \/ S2oDenied \/ S2oFin \/ S2oShut
O2sTask == O2sCancelled \/ O2sDenied \/ O2sFin \/ O2sError
RelayReader == S2oWait \/ S2oRead
DestInput == O2sRead \/ O2sEof

-----------------------------------------------------------------------------
(* The environment, and the specification.                                 *)

(* The TLS connection is lost with a part of what was under way, the       *)
(* destination resets its connection, or the user is denied.               *)
Faults == {f \in {"lost", "reset", "denied"} :
             \/ f = "lost" /\ lost
             \/ f = "reset" /\ dest = "reset"
             \/ f = "denied" /\ denied}
MayFail == Cardinality(Faults) < MaxFaults

Lose == MayFail /\ LoseLink /\ UNCHANGED tunnelVars
Deny == MayFail /\ DenyUser /\ UNCHANGED tunnelVars

DestReset ==
  /\ MayFail /\ hand = "relay" /\ dest # "reset"
  /\ dest' = "reset"
  /\ UNCHANGED <<streamVars, linkVars, handVars, appVars, taskVars, destSent, destGot, destEnd, relayVars>>

Receiver(s) == (StreamFrames(s) \/ Push(s) \/ RunEnd(s)) /\ UNCHANGED tunnelVars
Spawned(s) == SpawnedTask(s) /\ UNCHANGED tunnelVars

Tasks ==
  \/ \E s \in Sides : Receiver(s) \/ Spawned(s)
  \/ ClientTask \/ ClientReader
  \/ HandStep \/ HandReader \/ S2oTask \/ O2sTask \/ RelayReader

Next == Tasks \/ ClientInput \/ DestInput \/ Lose \/ DestReset \/ Deny

Spec == Init /\ [][Next]_vars

(* The dial of the server ends when the destination answers; it has no     *)
(* timeout.                                                                *)
AwaitsDial == hand = "dial" /\ hand' # "dial"

(* The two programs go on as long as any of their tasks can.  Nothing      *)
(* makes the application or the destination send or stop, the destination  *)
(* answer a dial, or the connection fail.                                  *)
FairSpec == Spec /\ WF_vars(Tasks /\ ~AwaitsDial)

-----------------------------------------------------------------------------
(* Properties.                                                             *)

Units == {<<>>, Address, <<Atyp>>, <<Rest>>} \cup {<<i>> : i \in 1 .. MaxPieces}

(* Every variable keeps its type (PipeInner, Stream, s5_connect,           *)
(* handle_session, handle_tcp_stream).                                     *)
TypeOK ==
  /\ StreamsType(Units, {"SYN", "PSH", "FIN", "SYNACK", "SYNERR"}, {0, 1, Whole})
  /\ app \in {"open", "eof", "gone"} /\ appEnd \in {"no", "eof", "error"}
  /\ appSent \in 0 .. MaxPieces /\ destSent \in 0 .. MaxPieces
  /\ appGot \in Seq(1 .. MaxPieces) /\ destGot \in Seq(1 .. MaxPieces)
  /\ c2p \in {"addr", "read", "close", "fin", "done"} /\ p2c \in {"new", "read", "done"}
  /\ dest \in {"open", "eof", "reset"} /\ destEnd \in BOOLEAN
  /\ hand \in {"new", "check", "dest", "rest", "dial", "relay", "close", "fin", "done"}
  /\ dials \in 0 .. MaxDials
  /\ s2o \in {"select", "fin", "shut", "shuterr", "done"} /\ o2s \in {"select", "fin", "done"}
  /\ cancel \in BOOLEAN

Up == INSTANCE Conduit WITH sent <- appSent, got <- destGot
Down == INSTANCE Conduit WITH sent <- destSent, got <- appGot

(* The destination receives what the application sent, in order, nothing   *)
(* twice and nothing left out before a later piece, and no address among   *)
(* it: s5_connect, the pipe and handle_tcp_stream implement Conduit.       *)
UpInOrder == Up!Spec

(* The same of what the destination sends.                                 *)
DownInOrder == Down!Spec

(* An application that did not close its side, and sees the end of what it *)
(* reads without a failure in between, has read all that the destination   *)
(* sent: the FIN of the server stays behind the payload queued before it.  *)
DownloadComplete ==
  appEnd = "eof" /\ app = "open" /\ ~lost /\ ~denied => Len(appGot) = destSent

(* A payload that arrives while its stream is being closed never ends the  *)
(* session, which other streams share (push_stream_data).                  *)
PayloadSparesSession == \A s \in Sides : run[s] # "up" => lost

(* The application sees the end of its connection once it closes its own   *)
(* side, or the TLS connection is lost, or the destination ends: neither   *)
(* the spawned close of the pipe nor a read waiting for data holds it up.  *)
AppReleased == (app # "open" \/ lost \/ dest = "eof") ~> (appEnd # "no")
=============================================================================
