# anytls-rs: TLA+ models, model checking and proofs

anytls-rs is a proxy. A client multiplexes logical streams over TLS sessions it
keeps in a pool; a server authenticates connections, relays each stream to its
destination and accounts the traffic, either for users that a management API
replaces in place or for clients it learns from a panel.

## The system and its models

| part | source | shared state | operations | module |
|---|---|---|---|---|
| session pool | `proxy/session/client.rs` | `active_sessions`, idle pool, `closed_flag` | `create_stream`, idle-return task, run task, cleanup task, `close` | `ClientPool` |
| session and streams | `proxy/session/inner.rs`, `stream.rs` | stream map, `closed`, `idle_state`, `close_notify`, identifier counter | `open_stream`, `Stream::close`, FIN, `recv_loop`, `terminate` | `SessionLife` |
| user registry | `node_api/users.rs`, `api.rs`, `bin/server.rs` | `Index` under a lock, atomics of `UserEntry`, `AuthedUser` | `replace`, `authenticate`, relays and their check, quota reset | `UserRegistry` |
| panel sync | `panel_sync/` | `TrafficAudit`, `reported_traffic` | `sync_once`, `report_traffic_once`, recording | `PanelSync` |
| stream pipe | `proxy/pipe/io_pipe.rs` | `PipeInner` under its lock | `read`, `write`, `finish_stream`, `close_with_error` | `StreamPipe` |
| both ends of a stream | `proxy/session`, `core/engine.rs`, `core/state.rs`, `runtime/mod.rs`, `bin/server.rs` | a stream and its pipe on each side, frames under way, `State` of each session | `recv_loop`, every frame of the engine, the loop of `handle_session` | `Streams` |
| a proxied TCP connection | `client_runner.rs`, `bin/server.rs` | the above, `relay_cancel` | `s5_connect`, `handle_tcp_stream` | `Tunnel` |
| a UDP association | `client_runner.rs`, `uot/mod.rs`, `bin/server.rs` | the above, the packet being read | `handle_udp_associate`, `handle_uot_stream` in both modes, settings | `UdpRelay` |
| frames on the wire | `runtime/mod.rs`, `core/frame.rs`, `core/padding.rs` | `WriterRuntimeState`, bytes under way, `pending` | writer task with padding, reassembly | `Wire` |
| ordered delivery | what the two above promise | pieces sent and received | | `Conduit` |

A call of the pool works on sessions; `ClientPool` takes `terminate` and the end
of a stream as single steps (the publication of `idle_state` stays separate),
and `SessionLife` opens one session up into its lock sections and atomic
accesses. On the server the registry or the audit decides whether a connection
may go on. `Tunnel` and `UdpRelay` take one stream that `create_stream` returned
and follow it through both sessions to its destinations. Both extend `Streams`,
which has everything that does not depend on what the stream carries; `Streams`
has no specification of its own. `Wire` is the TLS connection below, which
`Streams` takes to deliver frames whole and in order. `Wire` shows that it does,
by the same abstract module `Conduit` that `Tunnel` implements above it.

Each `MC*` module extends a model for TLC and adds only the symmetry set, the
padding schemes or the ways a client opens. A definition directly followed by
one that differs from it in one respect (such as `HasCapacityOffByOne` before
`HasCapacity`) is a mistake the code could have made. No specification uses it;
put in place of its successor it makes a property fail, which shows that the
property depends on that line.

### ClientPool

A session is its sequence number and a call is a model value. `pc` follows a
call through its attempts: `take_reusable` (pop, then check outside the lock),
the snapshot and scan of `active_sessions` (`is_terminated` and
`has_stream_capacity` are separate awaits), dialling, insertion, `open_stream`
and SYN. `waiter`, `run`, the cleanup and `close` are tasks of their own. Time is
a small counter.

### SessionLife

A handle is one stream and the task using it. `map` is the stream map by
identifier, `ended` the streams whose `closed` flag is set. `armed` says that the
receive loop holds a `Notified` future: `notify_waiters` reaches only futures
that exist. The width of the identifier is `SidSpace`. Only client sessions are
modelled.

### UserRegistry

An entry is a number, its atomics are functions on entries. `replace` holds the
lock over one step per user; `authenticate` is a lookup under the lock, a check
and a guard outside it, and rejects a password it does not know (`Reject`). An entry's two limits and its generation are updated in
one step. Each connection has the two loops of `handle_tcp_stream`; a loop is in
`select!` or inside a write. The UDP loops make the same check.
`StartRelay` joins the check of approval with the start of the loops: the first
tick of a loop checks again.
At most one quota reset is under way. `GET /stats` is left out.

### PanelSync

A round of the task, with every use of the audit's lock a step. `panel` is what
the panel added up (external); `recorded`, `forgotten` and `doubled` are history.
The `reset` operations of `TrafficAudit` have no caller and are left out.

### StreamPipe and Streams

A pipe is a record and each section under its lock is an operator: the first
section of a read answers from the buffer or finds the end, and otherwise the
reader waits for an event with the lock released. `close_with_error` is a spawned
task (`spawned`), so everything may happen before it runs. A read that waits in
`StreamReader` survives a lost `select!` race (`fut` is its size) and answers
whichever read comes next. A read that is dropped while it waits takes the pipe's
receiver along (`DropReader`), and every later push fails.

`Streams` has the stream of each side, the receive loops and the writer tasks.
A receive loop handles a frame in one step, except that a payload is looked up
and pushed in two (`holding`): between the two the stream may be closed, and
`push_stream_data` overlooks the failed push only then. `Receive*` are the
branches of the engine, for every frame at either end. `st` is the `State` of
each session. The end of a receive loop may leave any number of the frames under
way unread; this is where a lost TLS connection loses them. Frame queues do not
fill up.

### Tunnel

The application and the destination send numbered pieces, each of which is one
PSH frame. A task that reads and then writes does both in one step (`C2pRead`,
`O2sRead`), since nothing else looks at what it holds between. The settings have
been exchanged. An address is two units; a payload read in its place is an
address by accident or ends the handler. Faults are a lost TLS connection, a
destination that resets, and a user who is denied; `MaxFaults` bounds how many
kinds of them meet.

`Up` and `Down` instantiate `Conduit` with the pieces sent and received in each
direction; the refinement is checked as a property. With several dials the pieces
of the first destination count.

### UdpRelay

An association over a new session, so the settings are part of the opening. A
packet is one PSH frame and is read back in two parts: one is enough for the
other to be missing. `select!` drops the packet it was reading when another
branch is ready (`Overtake`); its parts so far are gone, the read that was
pending stays in `StreamReader`, and `torn` records that a packet was dropped
between its parts. `HangUp` is the end of the connection when the last handle
of an ended server session is dropped.
`Openings` are the clients a server meets: this program, with a padding scheme
other than the server's; one that declares a version the server does not know
and asks for connected mode; and one that leaves its settings out.

### Wire

A byte carries the frame it belongs to and, at the start of a header, the value
of the length field. `SizeLists` is the set of size lists from which a packet's
sizes are chosen, with check marks. Reads take any number of bytes.
`from_bytes` looks only at lengths, as in the code, and a frame made of bytes of
two frames shows up as -1. `Frames` instantiates `Conduit`.

## Runs

| run | checks |
|---|---|
| `PoolSafety` | a session's map holds only streams being opened or handed out, no session exceeds its limit, `close` can find every live session, cleanup respects `min_idle_sessions`, only sessions between dial and insertion outlive `close` |
| `PoolProgress` | `close` returns, and so does every call, unless the server keeps its dial or its SYN waiting for ever |
| `SessionLifecycle` | no live stream is out of reach, none appears behind `terminate`, an empty session is known to be idle, `terminate` ends every stream |
| `RegistryUsers` | maps agree, revocation follows the list, counts are exact, unchanged users are left alone, a superseded password is retired for good except inside `authenticate` |
| `RegistryCutOff` | relays of a denied user end, if their writes do; a reset never puts the quota window ahead of the totals |
| `TunnelRelay` | both directions deliver in order without gaps, a clean end means a complete download, late payload never ends a session |
| `TunnelEnds` | the application is told of the end |
| `UdpRelay` | datagrams stay whole and in order unless one is dropped half read, the settings are settled before the first datagram comes back, payload spares the session while both ends have their task, a client without settings is refused, the server gives up the relay of an association that is gone, denied or cut off |
| `WireFraming` | however frames are cut, padded and read, each arrives whole, once and in order |
| `PanelAccounting` | every unit of traffic is accounted for, outside the two loops that apply a list approval follows the fetch, traffic of a listed client reaches the panel |

Two runs are expected to fail; each states what a document or test says and TLC
shows that the code does otherwise:

- `SessionLostWake`: `terminate` can fall between the check of `closed` and the
  wait; the run task then stays until the peer sends something. The test at
  `inner.rs:449` says "terminating a session should stop its run task".
- `UdpEndsSession`: an error of the UDP socket makes the handler return by `?`
  (`server.rs:898`, where the trace goes, and `server.rs:836`) with its stream open and its read dropped, so the next payload for the stream
  fails the receive loop and with it every stream of the session.
  `docs/protocol.md:208` says "After the proxy relay is completed, the server
  closes the Stream but does not close the Session."

`CHECK_DEADLOCK FALSE` is set for `Tunnel`, `UdpRelay` and `Wire`, which come to
rest when the connection is over and when every frame has been handled. The type
invariants of `SessionLife` and `PanelSync` have no run: they are proved.

More differences are visible in the models and have no run:

- `client.rs:15` describes the idle pool as "sessions that have fully gone idle".
  Between the check at `client.rs:257` and the insertion another call may open a
  stream, so the pool can hold a session with an open stream, and cleanup may
  then terminate it. `LiveAccounted` and `NoOrphanStream` hold all the same.
- When the destination resets its connection (`server.rs:1032`), the relay ends
  and the stream stays open, against `docs/protocol.md:208`; `handle_session`
  goes on and reads the next payload as an address. An application that waits
  for data is not told; `AppReleased` is not about this case.
- A packet dropped half read puts the reader out of step: the next part is taken
  for the first of a packet (`torn`). `DatagramsIntact` is about associations in
  which this has not happened.
- `handle_udp_associate` returns by `?` on an error of its socket and leaves its
  stream open, as the server's handler does (`assoc = "dropped"`).
- A session whose last stream closes may miss its return to the pool: the
  publication of `idle_state` comes after the lock (`Publish`, `SynPublish`), so
  a late one lets the waiter run while a newer stream is open. The test at
  `client.rs:388` expects that the session becomes idle.
- `users.rs:74` says that sessions with a superseded password notice and drop. A
  connection inside `authenticate` during the change records the new generation
  and does not; `OnlyRacersOutliveRekey` is the exact statement.
- `docs/panel_node.md:78` says that totals count from the start of the process.
  A user who is removed and added again starts from zero (`ReplaceSpec`).
- A half-close of the application closes the server's stream, and the next
  piece of the destination then cancels the relay (`O2sRead`); what the client
  sent before its FIN and `s2o` has not read yet is dropped. `docs/code.md:127`
  and the test at `inner.rs:391` describe queued payload as readable after FIN.
- `docs/code.md:233` lets a client go on writing after the server's FIN;
  `Stream::write` refuses. Lines 239 to 247 let it free the stream only after
  the server's FIN; `Stream::close` removes it at once.
- `docs/protocol.md:154` gives the sizes of padding writes. A write of padding
  alone is longer by the header (the third case of `WriteSize`).
- `docs/protocol.md:130` expects a new padding scheme to be used by later
  sessions; the code keeps it with the session that received it.
- The length field has 16 bits. `write_conn` and `to_bytes` truncate larger
  lengths; TCP relays use buffers of 4096 bytes, but a padding scheme may name
  any size, and a UDP packet of full length exceeds the field together with its
  address (`WireAssumption` excludes both).
- `docs/protocol.md:170` asks for the idle session with the largest `Seq`;
  `TakePop` takes the one returned last.
- `docs/protocol.md:64` asks for increasing stream identifiers. In `OpenInsert`
  the call that wraps the counter fails, and the next ones start again from 1;
  a stream still open under that identifier is displaced from the map, and its
  close then removes the newer one. `StreamsTracked` is about sessions that have
  not wrapped (2^32 streams).
- `docs/panel_node.md:99` says that the connections of a re-keyed user are
  dropped, and line 83 that these are TLS connections. `Poll` ends the streams;
  only the client ends the connection (`Disconnect`).

### Bounds

Two sessions and two or three calls are enough for a call to lose a session to
another one and for a third to wait; three attempts are the code's own number,
and runs about other things use fewer. One tick separates fresh from expired.
Two streams show every order of opening, closing and terminating against the
other one, the receive loop and an outside caller. Two users with two passwords
can swap them; three replaces change a password and change it back. One lost
answer makes the panel count twice. Two pieces can be swapped, lost or doubled,
and one fault at a time meets every step of a relay; a second dial shows what a
payload read as an address leads to. `MaxPieces` counts both directions: with two
of them `TunnelRelay` has both in one direction or one in each (1.4 million
states), and `TunnelEnds` needs one, with two dials (0.3 million). `UdpRelay` has
two datagrams, three openings and one fault or dropped packet (0.3 million).
Three frames and three packets of padding
reach the end of a scheme (`Stop`), with a header of two bytes and sizes on
both sides of it. Bounds are constants and appear only as guards.

`PoolSafety` removes at most one session in a cleanup, since one of its two
sessions is protected by `min_idle_sessions`. That removals of several leave the
indices valid is proved, not model-checked.

### Fairness

tokio polls every runnable task, so each started task has weak fairness. A read
buffer holds finitely many frames (strong fairness of leaving the frame loop).
`select!` picks among ready branches at random, so a ready tick is taken in the
end (strong fairness of `Poll`). `TunnelEnds` and `UdpRelay` need less: weak
fairness of the tasks of both programs taken together, because with bounded
pieces and faults they cannot run on forever.

A wait for somebody else that has no timeout in the code has no fairness either:
the client's dial and a SYN or FIN waiting for room in the bounded frame queue
(`AwaitsServer`, `AwaitsWriter`), the server's dial (`AwaitsDial`), and the
padding of a client being authenticated (`Approve`). `CallsReturn` therefore says
that a call returns or waits for ever in one of the first two. Nothing obliges a
peer to send, a user to close a stream or a client to disconnect.

What is assumed of the outside: in `RegistryCutOff` a write ends; in
`PanelAccounting` every request ends, and the panel answers now and then; in
`Tunnel` and `UdpRelay` frame queues do not fill up, and the application and the
destination take what is written to them.

## Proofs

`ClientPoolProofs` proves, for all values of the constants that satisfy the
assumptions in `ClientPool`:

- `TypeCorrect`: the types, together with `CleanupLock`: the indices a cleanup
  has yet to remove exist, because it holds the pool's lock.
- `StreamsBoundedHolds`: only `open_stream` adds a stream, under its own test.
- `NoOrphanStreamHolds`: only `open_stream` puts a stream into the map, and a call
  that fails there or at SYN takes it out before it goes on.
- `CleanupIndicesValidHolds`, `CleanupKeepsMinIdleHolds`: by `CleanupInv`, which
  adds that the remaining indices are below those already removed; so
  `swap_remove` moves only entries outside them.
- `LiveAccountedHolds`, `CloseLeavesOnlyRacersHolds`: by `CloseInv`, which
  follows each live session through `active_sessions`, the list that `close`
  collected and the calls that have not inserted theirs.

`PanelSyncProofs` proves `TrafficConservedHolds` and `ReportedBehindUsedHolds`
for any set of clients and any number of lost answers. The inductive invariant
`AccountInv` adds `CurrentBetween`: what `report_traffic_once` read lies between
what was reported and what is used by now. Without it an answer could credit
more than was used. `EnabledAsFetchedHolds` follows the list from the fetch to
the last update of the audit: `EnabledInv` says which clients have been treated
so far.

`TunnelProofs` proves, for any number of pieces, dials and faults, that payload
never ends a session (`PayloadSafe`) and that the pipe of an open stream takes
what is pushed (`OpenStreamTakesData`), as long as the TLS connection is there.
The property alone is not inductive: a push that fails is overlooked because the
stream is closed, so the invariant says that a pipe refuses only behind
`mark_closed`. What closes a pipe, queues its end or drops its sender has marked
the stream before, every end in the queue is recorded in the pipe, and the
receiver is dropped only by a handler that found the stream closed or the writer
gone. Writers and receive loops fail only when the connection is lost.

It goes on to prove that the tunnel implements `Conduit` in both directions
(`UpRefinesConduit`, `DownRefinesConduit`), that a clean end means a complete
download (`DownloadIsComplete`), and the types (`TunnelTypes`), again for any
number of pieces, dials and faults. The inductive invariant `TunnelInv` adds to
`IInv`, the one above:

- `UpOrder` and `DownOrder`: what one side has sent and the other has not read is
  a run of consecutive chunks, from the queue of the pipe over the payload
  `push_stream_data` holds to the frames on the connection (`Flow`). Upwards the
  address is chunk 0. A chunk is dropped only when the pipe can take no more, so
  whatever is behind it is dropped as well. `Numbered` carries the number of each
  frame in a function, because a frame without payload has none of its own.
- `FrameOrder`: SYN is the first frame, no payload comes behind the server's FIN.
- `Stage`: where the handler is decides which chunk it expects, what is left in
  the buffer (the second part of the address, or nothing) and how large a read
  may still be pending. This is what a read retained by `StreamReader` could break.
- `Undisturbed`: as long as nothing failed and the application has not closed its
  side, only the end of the destination ends the download. An end in the client's
  queue is then behind the last piece.
- `Payloads` and `ControlTypes`: types.

`UdpRelayProofs` and `UdpOrderProofs` prove every safety property of a UDP
association, for any opening of the client, any number of packets and any faults.
They begin with what the operations of `StreamPipe` keep and return, for payloads
of any kind. `UdpRelayProofs` has:

- `SparedTheorem`: by `IInv`, which says as for the tunnel that a pipe refuses only
  behind `mark_closed` or when its task is gone, and ties the frames under way to
  the opening: the settings come first, SYN comes before every payload, and an
  ALERT is sent only to a client without settings.
- `SettledTheorem`: by `SettleInv`, which follows each setting the client is owed
  from the server's reply: it is in the client's hands or on the connection before
  the first payload (`Due`). A datagram can be read only behind it.
- `UdpTypes`: by `RelayTypes`.

`UdpOrderProofs` has the order of payloads, from a writer through the connection,
`push_stream_data` and the pipe to a reader:

- `IntactTheorem`: by `UpOrder` and `DownOrder`. A packet is one chunk of two parts;
  upwards the sentinel is chunk 0 and the request chunk 1. Each direction is a run
  of consecutive chunks (`SideFlow`), whatever its reader does with them, and
  `UpPhase` and `DownPhase` say how far the reader is: at the start of a chunk with
  an empty buffer, or between the parts of one with the second part in the buffer.
  Once a packet was dropped between its parts (`torn`) the second claim is given up,
  as in `DatagramsIntact` itself.

`WireProofs` proves for any number and sizes of frames, any padding scheme and any
way of reading that the framing implements `Conduit` (`WireRefinesConduit`), that
no byte is left over (`WireLeavesNothing`) and the types (`WireTypes`). The bytes
taken and not parsed yet, read, written or still in the writer's hands, divide
into whole frames at every moment (`Framed`), numbered from the last one handled
to the last one taken; `write_conn` only cuts them and puts whole frames of padding
between them, and the parser takes the first one. `WireAssumption` says that
lengths fit the field and that the check mark is no size.

`SessionLifeProofs` proves `SessionTypes` and `IdleNotLost` for any number of
streams, and `LiveTracked` and `TerminateFinal` under `FewStreams`: fewer streams
than identifiers, as the code has for its first 2^32 streams. `BaseInv` adds to
`NoLostIdle` that a closed session has no stream or a `terminate` that has yet to
clear the map; `TrackInv` adds that no two streams have the same identifier and
none is above the counter, and that what the receive loop or `terminate` took out
of the map stays in its hands until it is ended.

`UserRegistryInv` states the inductive invariant of the registry.
`UserRegistryProofs` proves it, first for the steps of `replace`, then for
connections, relays, resets and the clock, for any number of users, passwords,
connections and replaces:

- `IndexAgrees`, `RevokedExactly`: the properties speak of a finished `replace`,
  so the invariant follows one from its first spec to its commit. The maps being
  built are consistent at every step (`Consistent`), and an entry in them is the
  one the index has under the same email, or is new (`Built`); entries are
  numbered in turn, so a new one is in nobody's hands (`Allocated`). The commit
  then revokes exactly what the new maps lack.
- `RekeyRetires`, `RetiredStays`, `UntouchedStay`: by `GuardedInv`, which says of
  each connection that it is retired, revoked, a racer, or will find its user
  under its password in the new maps too.
- `CountsExact`: each guard is counted once, when it is made, and once when it
  is dropped.
- `WindowBehind`: the totals only grow between the two reads of a reset.
- `RegistryTypes`: the types.

In `TunnelProofs`, `UdpRelayProofs` and `UdpOrderProofs` a leaf that names no prover
is Zenon's (`USE Zenon`), which needs less preparation than SMT for states of some
thirty variables, and a lemma that only one proof uses is a step of that proof: both
keep the proofs quick to check. A few leaves name a longer limit.

Every safety property a passing run checks is proved. Liveness stays with TLC: the
provers have no rules for fairness.

## Not modelled

- The HTTP proxy of the client (`StreamRw`): it polls the same `Stream`
  operations as `s5_connect` from two futures of a library.
- `GET /stats`, HTTP routing and the token check of the management API, and the
  relaying of rejected connections to another host: sequential requests and I/O.
- TLS and certificates, URL parsing, address lookup, argument handling, the
  dialler and the examples: no shared state.
- The text formats of settings and padding schemes. `Wire` takes every choice of
  sizes instead, `UdpRelay` the version and the scheme.
- Deadlines of a pipe and the writer's buffer, which nothing sets or turns on.
- A wrapped stream identifier (2^32 streams) and a start of a session that fails
  and is tried again.
