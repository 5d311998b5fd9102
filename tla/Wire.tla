-------------------------------- MODULE Wire --------------------------------
(***************************************************************************)
(* One direction of a session on the TLS connection: the writer task with  *)
(* its padding (write_conn in src/src/runtime/mod.rs, the sizes from       *)
(* core/padding.rs), the frame format (core/frame.rs) and the receive loop *)
(* that takes frames out of whatever pieces it reads                       *)
(* (proxy/session/inner.rs).                                               *)
(*                                                                         *)
(* A byte is a record of the frame it belongs to and, in the first byte of *)
(* a header, the value of the length field; padding frames (Waste) are     *)
(* frame 0.  A padding scheme is any choice of sizes for each packet.  The *)
(* write buffer of WriterRuntimeState is left out: no code turns buffering *)
(* on.                                                                     *)
(*                                                                         *)
(* A definition that directly precedes another one and differs from it in  *)
(* one respect is a mistake the code could have made; no specification     *)
(* uses it.                                                                *)
(***************************************************************************)
EXTENDS Integers, Sequences

CONSTANTS
  NumFrames,    \* bound: frames 1 .. NumFrames are sent
  PayloadSizes, \* payload lengths of frames
  Header,       \* HEADER_OVERHEAD_SIZE, 7 in the code
  LenMod,       \* values of the length field, 2^16 in the code
  CheckMark,    \* the "c" of a padding scheme
  SizeLists,    \* what generate_record_payload_sizes may return
  Stop          \* PaddingFactory::stop

(* In the code PayloadSizes and the sizes of a scheme are not checked      *)
(* against the length field; see README.md.                                *)
ASSUME WireAssumption ==
  /\ NumFrames \in Nat /\ Header \in Nat \ {0} /\ LenMod \in Nat /\ Stop \in Nat
  /\ PayloadSizes \subseteq 0 .. LenMod - 1
  /\ CheckMark \notin 0 .. LenMod - 1
  /\ SizeLists \subseteq Seq(0 .. LenMod - 1 \cup {CheckMark})

VARIABLES
  taken,    \* frames the writer task has taken from its queue
  bytes,    \* what write_conn has left to write of the last one
  sizes,    \* the sizes it has left to use
  pc,       \* the writer: "idle", in the "loop" over sizes, or at the "rest"
  pkt,      \* pkt_counter
  padding,  \* send_padding
  wire,     \* bytes written and not read yet
  pending,  \* bytes recv_loop has read and not parsed yet
  got       \* frames it has handled, Waste left out

writerVars == <<taken, bytes, sizes, pc, pkt, padding>>
readerVars == <<pending, got>>
vars == <<writerVars, wire, readerVars>>

Init ==
  /\ taken = 0 /\ bytes = <<>> /\ sizes = <<>> /\ pc = "idle" /\ pkt = 0
  /\ padding \in BOOLEAN   \* on for a client, off for a server
  /\ wire = <<>> /\ pending = <<>> /\ got = <<>>

-----------------------------------------------------------------------------
(* Frames.                                                                 *)

(* Frame::to_bytes *)
Encoded(id, n, field) ==
  [j \in 1 .. Header + n |-> [id |-> id, len |-> IF j = 1 THEN field % LenMod ELSE 0]]
ToBytes(id, n) == Encoded(id, n, n)

(* The padding frame of write_conn. *)
WasteCountingHeader(n) == Encoded(0, n, Header + n)
Waste(n) == Encoded(0, n, n)

(* Frame::from_bytes finds a frame; what it takes to be one. *)
FrameLen(p) == Header + p[1].len
HasFrame(p) == Len(p) >= Header /\ Len(p) >= FrameLen(p)

(* The frame that pending starts with, or -1 if its bytes are of several. *)
Decoded(p) == IF \A j \in 1 .. FrameLen(p) : p[j].id = p[1].id THEN p[1].id ELSE -1

-----------------------------------------------------------------------------
(* The writer task.                                                        *)

NextPktSkipping == pkt + 2
NextPkt == pkt + 1

(* The next frame, and write_conn up to its loop. *)
Take ==
  /\ pc = "idle" /\ taken < NumFrames
  /\ taken' = taken + 1
  /\ \E n \in PayloadSizes : bytes' = ToBytes(taken + 1, n)
  /\ \/ /\ ~padding
        /\ pc' = "rest"
        /\ UNCHANGED <<sizes, pkt, padding>>
     \/ /\ padding /\ NextPkt < Stop
        /\ pkt' = NextPkt
        /\ sizes' \in SizeLists
        /\ pc' = "loop"
        /\ UNCHANGED padding
     \/ /\ padding /\ NextPkt >= Stop
        /\ pkt' = NextPkt
        /\ padding' = FALSE
        /\ pc' = "rest"
        /\ UNCHANGED sizes
  /\ UNCHANGED <<wire, readerVars>>

(* write_all *)
Put(b) == wire' = wire \o b

Drop(n, s) == SubSeq(s, n + 1, Len(s))

(* A check mark ends the loop if no payload is left. *)
AtMark ==
  /\ pc = "loop" /\ sizes # <<>> /\ Head(sizes) = CheckMark
  /\ sizes' = IF bytes = <<>> THEN <<>> ELSE Tail(sizes)
  /\ UNCHANGED <<taken, bytes, pc, pkt, padding, wire, readerVars>>

(* saturating_sub of what is left and of a header *)
PaddingLen(size) == IF size > Len(bytes) + Header THEN size - Len(bytes) - Header ELSE 0

(* One round of the loop with a size: a part of the payload, the rest of   *)
(* it with padding behind, or padding alone.                               *)
WriteSize ==
  /\ pc = "loop" /\ sizes # <<>> /\ Head(sizes) # CheckMark
  /\ sizes' = Tail(sizes)
  /\ LET size == Head(sizes) IN
     \/ /\ Len(bytes) > size
        /\ Put(SubSeq(bytes, 1, size))
        /\ bytes' = Drop(size, bytes)
     \/ /\ Len(bytes) \in 1 .. size
        /\ Put(bytes \o (IF PaddingLen(size) > 0 THEN Waste(PaddingLen(size)) ELSE <<>>))
        /\ bytes' = <<>>
     \/ /\ bytes = <<>>
        /\ Put(Waste(size))
        /\ UNCHANGED bytes
  /\ UNCHANGED <<taken, pc, pkt, padding, readerVars>>

(* The loop is over. *)
AfterLoopIdle == "idle"
AfterLoop == IF bytes = <<>> THEN "idle" ELSE "rest"
LoopEnd ==
  /\ pc = "loop" /\ sizes = <<>>
  /\ pc' = AfterLoop
  /\ UNCHANGED <<taken, bytes, sizes, pkt, padding, wire, readerVars>>

WriteRest ==
  /\ pc = "rest"
  /\ Put(bytes)
  /\ bytes' = <<>>
  /\ pc' = "idle"
  /\ UNCHANGED <<taken, sizes, pkt, padding, readerVars>>

-----------------------------------------------------------------------------
(* recv_loop.                                                              *)

(* One frame of pending is drained and handled; Waste is passed over. *)
Parse ==
  /\ HasFrame(pending)
  /\ pending' = Drop(FrameLen(pending), pending)
  /\ got' = IF Decoded(pending) = 0 THEN got ELSE Append(got, Decoded(pending))
  /\ UNCHANGED <<writerVars, wire>>

(* A read returns any part of what has arrived. *)
Read ==
  /\ ~HasFrame(pending)
  /\ \E n \in 1 .. Len(wire) :
       /\ pending' = pending \o SubSeq(wire, 1, n)
       /\ wire' = Drop(n, wire)
  /\ UNCHANGED <<writerVars, got>>

Next == Take \/ AtMark \/ WriteSize \/ LoopEnd \/ WriteRest \/ Parse \/ Read

Spec == Init /\ [][Next]_vars

-----------------------------------------------------------------------------
(* Properties.                                                             *)

Bytes == [id : 0 .. NumFrames, len : 0 .. LenMod - 1]

(* Every variable keeps its type, and a packet counts once (write_conn).   *)
TypeOK ==
  /\ taken \in 0 .. NumFrames /\ pkt \in 0 .. taken
  /\ bytes \in Seq(Bytes) /\ wire \in Seq(Bytes) /\ pending \in Seq(Bytes)
  /\ sizes \in Seq(0 .. LenMod - 1 \cup {CheckMark})
  /\ pc \in {"idle", "loop", "rest"} /\ padding \in BOOLEAN
  /\ got \in Seq(-1 .. NumFrames)

Frames == INSTANCE Conduit WITH sent <- taken

(* However write_conn cuts and pads the frames and the reads cut what      *)
(* arrives, recv_loop handles each frame whole, once and in order, and     *)
(* padding is never taken for a frame: the two implement Conduit.          *)
FramesInOrder == Frames!Spec

(* Once the writer rests and everything has been read, every frame was     *)
(* handled and no byte is left over to shift the frames that follow.       *)
NothingLeftOver ==
  pc = "idle" /\ wire = <<>> /\ ~HasFrame(pending) => pending = <<>> /\ Len(got) = taken
=============================================================================
