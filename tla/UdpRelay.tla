------------------------------ MODULE UdpRelay ------------------------------
(***************************************************************************)
(* One UDP association from end to end, over a new session: the settings   *)
(* of the session, handle_udp_associate on the client                      *)
(* (src/src/client_runner.rs), packets over the stream (uot/mod.rs), and   *)
(* handle_uot_datagram_stream or handle_uot_connected_stream on the server *)
(* (src/bin/server.rs).                                                    *)
(*                                                                         *)
(* A packet is one PSH frame, read back in parts: the address and the rest *)
(* of it, or in connected mode the length and the payload (each is several *)
(* reads; two are enough for one to be dropped between them).  select!     *)
(* drops the packet that another branch overtakes; its parts so far are    *)
(* gone, and StreamReader keeps the read that was pending.  Between two    *)
(* parts a read is pending when the pipe's lock is taken or the task's     *)
(* budget is used up.                                                      *)
(*                                                                         *)
(* The application, the destinations and the UDP sockets are the           *)
(* environment.  A client of another make may declare another version,     *)
(* ask for connected mode, send heartbeats, or leave its settings out.     *)
(*                                                                         *)
(* A definition that directly precedes another one and differs from it in  *)
(* one respect is a mistake the code could have made; no specification     *)
(* uses it.                                                                *)
(***************************************************************************)
EXTENDS Streams

CONSTANTS
  Openings,    \* how clients open: records of declares, heart, v, padding, mode,
               \* and packets (bound: datagrams in both directions)
  ServerPadding,
  MaxFaults    \* bound: faults and dropped packets in one behaviour

ASSUME UdpAssumption ==
  /\ \A o \in Openings :
       /\ o.declares \in BOOLEAN /\ o.heart \in BOOLEAN /\ o.v \in 0 .. 255 /\ o.mode \in {"datagram", "connected"}
       /\ o.packets \in Nat
  /\ MaxFaults \in Nat

VARIABLES
  opening,   \* how this client opens
  assoc,     \* handle_udp_associate: "dropped" if it returned by ?
  partial,   \* the parts of the packet that each side is reading
  torn,      \* a packet was dropped between two of its parts
  appSent, appGot, destSent, destGot,
  faults     \* faults so far

udpVars == <<opening, assoc, partial, torn, appSent, appGot, destSent, destGot, faults>>
vars == <<streamVars, linkVars, handVars, udpVars>>

(* uot_encode_packet: the parts of packet i; 0 is what no peer encoded. *)
Packet(i) == <<<<i, 1>>, <<i, 2>>>>
Sentinel == <<<<0, 1>>>>
Request == <<<<0, 2>>>>

(* Engine::on_session_start, which ensure_started puts ahead of the SYN. *)
Opening(o) ==
  (IF o.declares THEN <<Settings(o.v, o.padding)>> ELSE <<>>)
    \o (IF o.heart THEN <<Frame("HEARTREQUEST")>> ELSE <<>>) \o <<Frame("SYN")>>

Init ==
  /\ opening \in Openings
  /\ StreamsInit(Opening(opening),
       [s \in Sides |-> State(IF s = "client" THEN opening.padding ELSE ServerPadding, 0, FALSE)])
  /\ assoc = "dest"
  /\ partial = [s \in Sides |-> <<>>] /\ torn = [s \in Sides |-> FALSE]
  /\ appSent = 0 /\ appGot = <<>> /\ destSent = 0 /\ destGot = <<>>
  /\ faults = 0

Fault == faults < MaxFaults /\ faults' = faults + 1

(* Another branch of the select! of s is taken: a packet begun is dropped. *)
Overtake(s) ==
  /\ partial[s] # <<>> => faults < MaxFaults
  /\ faults' = IF partial[s] = <<>> THEN faults ELSE faults + 1
  /\ torn' = [torn EXCEPT ![s] = @ \/ partial[s] # <<>>]
  /\ partial' = [partial EXCEPT ![s] = <<>>]

(* uot_get_packet_from_stream, one read.  A part out of its place may be   *)
(* taken for the one expected, or end the task: it is no address, or the   *)
(* answer to the read that was kept does not fit the buffer.               *)
Misplaced(s, part) == part[2] # Len(partial[s]) + 1
Completes(s) == partial[s] # <<>>
Datagram(parts) == IF parts = Packet(parts[1][1]) THEN parts[1][1] ELSE 0
TakePartOnTop(s, part) ==
  partial' = [partial EXCEPT ![s] = Append(@, part)]
TakePart(s, part) ==
  partial' = [partial EXCEPT ![s] = IF Completes(s) THEN <<>> ELSE Append(@, part)]

-----------------------------------------------------------------------------
(* handle_udp_associate.                                                   *)

(* The sentinel address and the request. *)
CliRequest ==
  /\ assoc \in {"dest", "request"}
  /\ IF Usable("client")
     THEN /\ Send("client", Psh(IF assoc = "dest" THEN Sentinel ELSE Request))
          /\ assoc' = IF assoc = "dest" THEN "request" ELSE "select"
     ELSE assoc' = "close" /\ UNCHANGED <<net, writer>>
  /\ UNCHANGED <<streamVars, run, holding, lost, st, handVars, opening, partial, torn,
                 appSent, appGot, destSent, destGot, faults>>

(* A datagram of the application. *)
CliUp ==
  /\ assoc = "select" /\ appSent + destSent < opening.packets
  /\ appSent' = appSent + 1
  /\ Overtake("client")
  /\ IF Usable("client")
     THEN Send("client", Psh(Packet(appSent'))) /\ UNCHANGED <<pipe, fut, assoc>>
     ELSE assoc' = "dropped" /\ Leave("client") /\ UNCHANGED <<net, writer>>
  /\ UNCHANGED <<closed, mapped, spawned, run, holding, lost, st, handVars, opening,
                 appGot, destSent, destGot>>

(* The control connection is closed, or a datagram is a fragment. *)
CliEnd ==
  /\ assoc = "select"
  /\ assoc' = "close"
  /\ UNCHANGED <<streamVars, linkVars, handVars, opening, partial, torn, appSent, appGot, destSent, destGot, faults>>

(* The control connection breaks, or a datagram is none of SOCKS5: the     *)
(* function returns by ? and leaves the stream as it is.                   *)
CliBreak ==
  /\ assoc = "select" /\ Fault
  /\ assoc' = "dropped"
  /\ Leave("client")
  /\ UNCHANGED <<closed, mapped, spawned, linkVars, handVars, opening, partial, torn,
                 appSent, appGot, destSent, destGot>>

CliClose ==
  /\ assoc = "close"
  /\ IF closed["client"]
     THEN assoc' = "done" /\ Leave("client") /\ UNCHANGED <<closed, mapped, spawned>>
     ELSE assoc' = "fin" /\ CloseStream("client") /\ UNCHANGED <<pipe, fut>>
  /\ UNCHANGED <<linkVars, handVars, opening, partial, torn, appSent, appGot, destSent, destGot, faults>>

CliFin ==
  /\ assoc = "fin"
  /\ assoc' = "done"
  /\ SendFin("client") /\ Leave("client")
  /\ UNCHANGED <<closed, mapped, spawned, run, holding, lost, st, handVars, opening, partial, torn,
                 appSent, appGot, destSent, destGot, faults>>

CliWait ==
  /\ assoc = "select"
  /\ Waits("client", 1)
  /\ UNCHANGED <<closed, mapped, pipe, spawned, linkVars, handVars, udpVars>>

(* A packet is passed on once the application's address is known, unless   *)
(* send_to fails.                                                          *)
CliRead ==
  /\ assoc = "select"
  /\ TakeAnswer("client", 1)
  /\ LET a == Answer("client", 1)
         known == appSent > 0
     IN \/ /\ a.kind = "data" => Misplaced("client", a.units[1])
           /\ assoc' = "dropped"
           /\ UNCHANGED <<partial, appGot, faults>>
        \/ /\ a.kind = "data" /\ Completes("client") /\ known /\ Fault
           /\ assoc' = "dropped"
           /\ UNCHANGED <<partial, appGot>>
        \/ /\ a.kind = "data"
           /\ TakePart("client", a.units[1])
           /\ appGot' = IF Completes("client") /\ known
                        THEN Append(appGot, Datagram(Append(partial["client"], a.units[1]))) ELSE appGot
           /\ UNCHANGED <<assoc, faults>>
  /\ UNCHANGED <<closed, mapped, spawned, linkVars, handVars, opening, torn,
                 appSent, destSent, destGot>>

CliTask == CliRequest \/ CliClose \/ CliFin \/ CliWait \/ CliRead

-----------------------------------------------------------------------------
(* handle_uot_stream, from the sentinel address to the relay.              *)

SrvWait ==
  /\ hand \in {"dest", "request", "relay"}
  /\ Waits("server", 1)
  /\ UNCHANGED <<closed, mapped, pipe, spawned, linkVars, handVars, udpVars>>

SrvOpen ==
  /\ hand \in {"dest", "request"}
  /\ TakeAnswer("server", 1)
  /\ hand' = IF Answer("server", 1).kind # "data" THEN "done" ELSE IF hand = "dest" THEN "request" ELSE "bind"
  /\ UNCHANGED <<closed, mapped, spawned, linkVars, denied, udpVars>>

(* create_uot_udp_outbound, ensure_uot_udp_outbound_ready and the handshake. *)
SrvBind ==
  /\ hand = "bind"
  /\ \/ hand' = "done" /\ Fault /\ UNCHANGED <<net, writer>>
     \/ /\ opening.mode = "connected" /\ Fault
        /\ IF TellFails THEN hand' = "done" /\ UNCHANGED <<net, writer>> ELSE hand' = "close" /\ Tell("SYNERR")
     \/ /\ IF TellFails THEN hand' = "done" /\ UNCHANGED <<net, writer>> ELSE hand' = "relay" /\ Tell("SYNACK")
        /\ UNCHANGED faults
  /\ UNCHANGED <<streamVars, run, holding, lost, st, denied, opening, assoc, partial, torn,
                 appSent, appGot, destSent, destGot>>

-----------------------------------------------------------------------------
(* The relay.                                                              *)

(* enable_check: it ends the stream of a user no longer approved. *)
SrvTick ==
  /\ hand = "relay" /\ denied
  /\ Overtake("server")
  /\ IF closed["server"]
     THEN hand' = "check" /\ UNCHANGED <<closed, mapped, spawned>>
     ELSE hand' = "fin" /\ CloseStream("server")
  /\ UNCHANGED <<pipe, fut, linkVars, denied, opening, assoc, appSent, appGot, destSent, destGot>>

(* It has nothing to do, except that a packet begun is dropped. *)
SrvTickApproved ==
  /\ hand = "relay" /\ ~denied /\ partial["server"] # <<>>
  /\ Overtake("server")
  /\ UNCHANGED <<streamVars, linkVars, handVars, opening, assoc, appSent, appGot, destSent, destGot>>

(* A packet goes to the destination, or the socket refuses it. *)
SrvRead ==
  /\ hand = "relay"
  /\ TakeAnswer("server", 1)
  /\ LET a == Answer("server", 1) IN
     \/ /\ a.kind # "data"
        /\ hand' = "check" /\ partial' = [partial EXCEPT !["server"] = <<>>]
        /\ UNCHANGED <<destGot, faults>>
     \/ /\ a.kind = "data" /\ Misplaced("server", a.units[1])
        /\ hand' = "done"
        /\ UNCHANGED <<partial, destGot, faults>>
     \/ /\ a.kind = "data"
        /\ TakePart("server", a.units[1])
        /\ destGot' = IF Completes("server")
                      THEN Append(destGot, Datagram(Append(partial["server"], a.units[1]))) ELSE destGot
        /\ UNCHANGED <<hand, faults>>
     \/ /\ a.kind = "data" /\ Completes("server") /\ Fault
        /\ hand' = "done"
        /\ UNCHANGED <<partial, destGot>>
  /\ UNCHANGED <<closed, mapped, spawned, linkVars, denied, opening, assoc, torn, appSent, appGot, destSent>>

(* A datagram for the client. *)
SrvDown ==
  /\ hand = "relay" /\ appSent + destSent < opening.packets
  /\ destSent' = destSent + 1
  /\ Overtake("server")
  /\ IF Usable("server")
     THEN Send("server", Psh(Packet(destSent'))) /\ UNCHANGED <<pipe, fut, hand>>
     ELSE hand' = "done" /\ Leave("server") /\ UNCHANGED <<net, writer>>
  /\ UNCHANGED <<closed, mapped, spawned, run, holding, lost, st, denied, opening, assoc,
                 appSent, appGot, destGot>>

(* The socket reports an error. *)
SrvError ==
  /\ hand = "relay" /\ Fault
  /\ hand' = "done"
  /\ Leave("server")
  /\ UNCHANGED <<closed, mapped, spawned, linkVars, denied, opening, assoc, partial, torn,
                 appSent, appGot, destSent, destGot>>

SrvTask ==
  \/ (HandCheck \/ HandClose \/ HandFin) /\ UNCHANGED udpVars
  \/ SrvWait \/ SrvOpen \/ SrvBind \/ SrvTick \/ SrvRead

-----------------------------------------------------------------------------
(* The environment, and the specification.                                 *)

Lose ==
  /\ LoseLink /\ Fault
  /\ UNCHANGED <<opening, assoc, partial, torn, appSent, appGot, destSent, destGot>>
Deny ==
  /\ DenyUser /\ Fault
  /\ UNCHANGED <<opening, assoc, partial, torn, appSent, appGot, destSent, destGot>>

(* The last handle of a server session that ended is dropped, and closes   *)
(* the connection behind what was written.                                 *)
HangUp ==
  /\ ~lost /\ run["server"] = "ended" /\ hand \in {"new", "done"}
  /\ lost' = TRUE
  /\ net' = [net EXCEPT !["server"] = <<>>]
  /\ UNCHANGED <<streamVars, writer, run, holding, st, handVars, udpVars>>

Receiver(s) == RunTask(s) /\ UNCHANGED udpVars
Spawned(s) == SpawnedTask(s) /\ UNCHANGED udpVars

Tasks == CliTask \/ SrvTask \/ HangUp \/ \E s \in Sides : Receiver(s) \/ Spawned(s)

Next ==
  \/ Tasks
  \/ CliUp \/ CliEnd \/ CliBreak \/ SrvTickApproved \/ SrvDown \/ SrvError
  \/ Lose \/ Deny

Spec == Init /\ [][Next]_vars

(* The two programs go on as long as any of their tasks can.  Nothing      *)
(* makes a datagram arrive, a socket fail, the application leave or the    *)
(* connection break.                                                       *)
FairSpec == Spec /\ WF_vars(Tasks)

-----------------------------------------------------------------------------
(* Properties.                                                             *)

PartsOf == (0 .. opening.packets) \X (1 .. 2)

(* Every variable keeps its type, and no packet grows beyond its parts     *)
(* (uot_get_packet_from_stream, handle_udp_associate, handle_uot_stream).  *)
TypeOK ==
  /\ \A s \in Sides : closed[s] \in BOOLEAN /\ fut[s] \in {0, 1} /\ pipe[s].buffer \in Seq(PartsOf)
  /\ run \in [Sides -> {"up", "failing", "ended"}] /\ writer \in [Sides -> {"up", "doomed", "down"}]
  /\ hand \in {"new", "check", "dest", "request", "bind", "relay", "close", "fin", "done"}
  /\ assoc \in {"dest", "request", "select", "close", "fin", "done", "dropped"}
  /\ torn \in [Sides -> BOOLEAN]
  /\ \A s \in Sides : partial[s] \in Seq(PartsOf) /\ Len(partial[s]) <= 1
  /\ appSent + destSent <= opening.packets /\ faults \in 0 .. MaxFaults
  /\ appGot \in Seq(0 .. opening.packets) /\ destGot \in Seq(0 .. opening.packets)

(* Unless a packet was dropped between two of its parts, a destination     *)
(* gets the application's datagrams whole, in order and without a gap, and *)
(* the application gets those of the destinations whole and in order, with *)
(* gaps only from before its address was known.                            *)
DatagramsIntact ==
  /\ torn["server"] \/ destGot = [i \in 1 .. Len(destGot) |-> i]
  /\ torn["client"] \/ \A i \in 1 .. Len(appGot) : appGot[i] = appGot[1] + i - 1 /\ appGot[i] > 0

(* By the time a datagram comes back, the settings are settled: the client *)
(* pads by the server's scheme, whatever version it declared, and both     *)
(* sides go by the same version, which is none if the server does not      *)
(* know the one declared (on_frame, SendFrameSync).                        *)
SettledByFirstDatagram ==
  appGot # <<>> =>
    /\ st["client"].padding = st["server"].padding
    /\ st["client"].peer = st["server"].peer
    /\ st["server"].peer \in {0, opening.v}

(* As long as both ends of the stream have their task, no payload ends the *)
(* session: a push that finds the stream closed is overlooked.             *)
SparedWhileRelayed ==
  /\ run["server"] # "up" => lost \/ ~opening.declares \/ hand = "done"
  /\ run["client"] # "up" => lost \/ ~opening.declares \/ assoc = "dropped"

(* A client that opens a stream without its settings is refused, and both  *)
(* sessions end (AlertAndFail).                                            *)
UndeclaredIsRefused == ~opening.declares ~> (run["client"] = "ended" /\ run["server"] = "ended")

(* When the application closes its control connection, the user is denied  *)
(* or the TLS connection is lost, the server's handler ends and gives up   *)
(* its UDP socket; a lost connection ends the association too.             *)
RelayReleased ==
  (assoc \in {"close", "fin", "done"} \/ denied \/ lost)
    ~> /\ hand = "done" \/ (hand = "new" /\ run["server"] = "ended")
       /\ lost => assoc \in {"done", "dropped"}

(* "After the proxy relay is completed, the server closes the Stream but   *)
(* does not close the Session."                                            *)
SessionOutlivesRelay == \A s \in Sides : run[s] # "up" => lost \/ ~opening.declares
=============================================================================
