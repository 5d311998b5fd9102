--------------------------- MODULE UdpOrderProofs ---------------------------
(***************************************************************************)
(* Proofs that the datagrams of a UDP association stay whole and in order, *)
(* for any client, any number of datagrams and of faults.                  *)
(*                                                                         *)
(* UpOrder and DownOrder say of each direction which datagrams are still   *)
(* under way, where, and how much of the next one has been read.  They     *)
(* number the payloads of a direction: a pipe holds those from n on, the   *)
(* frames behind it the rest, up to the e that its sender has come to.     *)
(* That nothing overtakes anything comes from IInv: payloads reach a       *)
(* stream only behind the SYN that opens it.                               *)
(***************************************************************************)
EXTENDS UdpRelayProofs

(* Where a leaf names no prover it is for Zenon. *)
USE Zenon

(* A sequence over a set is one over any larger set. *)
LEMMA WiderSeq ==
  ASSUME NEW S, NEW T, S \subseteq T
  PROVE  \A q \in Seq(S) : q \in Seq(T)
BY SMT

-----------------------------------------------------------------------------
(* Payloads under way.                                                     *)

(* The payloads of the frames in q are the chunks a .. b - 1: f[i] of them *)
(* and of those before q are among the first i frames.                     *)
NumberedBy(chunk, q, a, b, f) ==
  /\ f[0] = a /\ f[Len(q)] = b
  /\ \A i \in 1 .. Len(q) :
       IF q[i].cmd = "PSH" THEN q[i].units = chunk[f[i - 1]] /\ f[i] = f[i - 1] + 1 ELSE f[i] = f[i - 1]
  /\ \A i \in 0 .. Len(q) : (\A j \in i + 1 .. Len(q) : q[j].cmd # "PSH") => f[i] = b
Numbered(chunk, q, a, b) == \E f \in [0 .. Len(q) -> 0 .. b] : NumberedBy(chunk, q, a, b, f)

(* A pipe p holds the chunks from n on; h is the next one, and those in    *)
(* frames q follow it up to e - 1, as far as they can still be written.    *)
Queued(chunk, p, n, e) ==
  \A i \in 1 .. Len(p.queue) :
    /\ p.queue[i].kind = "data" => p.queue[i].units = chunk[n + i - 1] /\ n + i <= e
    /\ p.queue[i].kind # "data" => i = Len(p.queue)
Behind(p, h, n) == n + Len(p.queue) + (IF h = <<>> THEN 0 ELSE 1)
Flow(chunk, p, h, q, live, n, e) ==
  /\ Queued(chunk, p, n, e)
  /\ CanWrite(p) /\ h # <<>> => h = chunk[n + Len(p.queue)] /\ n + Len(p.queue) < e
  /\ CanWrite(p) /\ live => Numbered(chunk, q, Behind(p, h, n), e)

-----------------------------------------------------------------------------
(* Frames.                                                                 *)

(* Frames without a payload are no chunks. *)
LEMMA NumberedNone ==
  ASSUME NEW chunk, NEW S, NEW q \in Seq(S), \A i \in 1 .. Len(q) : q[i].cmd # "PSH", NEW a \in Nat
  PROVE  Numbered(chunk, q, a, a)
<1> DEFINE l == Len(q)
           f == [i \in 0 .. l |-> a]
<1>1. l \in Nat /\ a \in 0 .. a
  BY SMT
<1> HIDE DEF l
<1>2. 0 \in 0 .. l /\ l \in 0 .. l /\ \A i \in 1 .. l : i \in 0 .. l /\ i - 1 \in 0 .. l
  BY SMT, <1>1
<1>3. f \in [0 .. l -> 0 .. a] /\ f[0] = a /\ f[l] = a /\ (\A i \in 0 .. l : f[i] = a)
      /\ \A i \in 1 .. l : f[i] = a /\ f[i - 1] = a
  BY <1>1, <1>2
<1> HIDE DEF f
<1>4. NumberedBy(chunk, q, a, a, f)
  BY <1>3 DEF NumberedBy, l
<1>5. QED
  BY <1>3, <1>4 DEF Numbered, l

(* A frame behind others: the next chunk, or no chunk. *)
LEMMA NumberedAppend ==
  ASSUME NEW chunk, NEW S, NEW q \in Seq(S), NEW a \in Nat, NEW b \in Nat, Numbered(chunk, q, a, b), NEW frame \in S
  PROVE  /\ frame.cmd = "PSH" /\ frame.units = chunk[b] => Numbered(chunk, Append(q, frame), a, b + 1)
         /\ frame.cmd # "PSH" => Numbered(chunk, Append(q, frame), a, b)
<1> DEFINE l == Len(q)
           r == Append(q, frame)
<1>1. PICK f \in [0 .. l -> 0 .. b] : NumberedBy(chunk, q, a, b, f)
  BY DEF Numbered
<1>2. l \in Nat /\ Len(r) = l + 1 /\ r[l + 1] = frame /\ \A i \in 1 .. l : r[i] = q[i]
  BY SMT
<1>3. /\ f[0] = a /\ f[l] = b
      /\ \A i \in 1 .. l :
           IF q[i].cmd = "PSH" THEN q[i].units = chunk[f[i - 1]] /\ f[i] = f[i - 1] + 1 ELSE f[i] = f[i - 1]
      /\ \A i \in 0 .. l : (\A j \in i + 1 .. l : q[j].cmd # "PSH") => f[i] = b
  BY <1>1 DEF NumberedBy
<1> HIDE DEF l, r
<1>4. ASSUME NEW c \in {b, b + 1}, frame.cmd = "PSH" => frame.units = chunk[b] /\ c = b + 1,
             frame.cmd # "PSH" => c = b
      PROVE  Numbered(chunk, r, a, c)
  <2> DEFINE g == [i \in 0 .. l + 1 |-> IF i = l + 1 THEN c ELSE f[i]]
  <2>0. c \in Nat
    BY SMT
  <2>1. g \in [0 .. l + 1 -> 0 .. c] /\ g[l + 1] = c /\ \A i \in 0 .. l : g[i] = f[i]
    BY SMT, <1>1, <1>2
  <2> HIDE DEF g
  <2>2. ASSUME NEW i \in 1 .. l + 1
        PROVE  IF r[i].cmd = "PSH" THEN r[i].units = chunk[g[i - 1]] /\ g[i] = g[i - 1] + 1 ELSE g[i] = g[i - 1]
    <3>1. CASE i = l + 1
      <4>1. i - 1 = l /\ l \in 0 .. l
        BY SMT, <1>2, <3>1
      <4>2. g[i - 1] = b /\ g[i] = c /\ r[i] = frame
        BY <1>2, <1>3, <2>1, <3>1, <4>1
      <4>3. QED
        BY <1>4, <4>2
    <3>2. CASE i # l + 1
      <4>1. i \in 1 .. l /\ i \in 0 .. l /\ i - 1 \in 0 .. l
        BY SMT, <1>2, <3>2
      <4>2. g[i - 1] = f[i - 1] /\ g[i] = f[i] /\ r[i] = q[i]
        BY <1>2, <2>1, <4>1
      <4>3. QED
        BY <1>3, <4>1, <4>2
    <3>3. QED
      BY <3>1, <3>2
  <2>3. ASSUME NEW i \in 0 .. l + 1, \A j \in i + 1 .. l + 1 : r[j].cmd # "PSH"
        PROVE  g[i] = c
    <3>1. CASE i = l + 1
      BY <2>1, <3>1
    <3>2. CASE i # l + 1
      <4>1. i \in 0 .. l /\ l + 1 \in i + 1 .. l + 1 /\ \A j \in i + 1 .. l : j \in 1 .. l /\ j \in i + 1 .. l + 1
        BY SMT, <1>2, <3>2
      <4>2. frame.cmd # "PSH" /\ \A j \in i + 1 .. l : q[j].cmd # "PSH"
        BY <1>2, <2>3, <4>1
      <4>3. QED
        BY <1>3, <1>4, <2>1, <4>1, <4>2
    <3>3. QED
      BY <3>1, <3>2
  <2>4. g[0] = a
    <3>1. 0 \in 0 .. l
      BY SMT, <1>2
    <3>2. QED
      BY <1>3, <2>1, <3>1
  <2>5. NumberedBy(chunk, r, a, c, g)
    BY <1>2, <2>1, <2>2, <2>3, <2>4 DEF NumberedBy
  <2>6. QED
    BY <1>2, <2>1, <2>5 DEF Numbered
<1>5. b \in {b, b + 1} /\ b + 1 \in {b, b + 1}
  BY SMT
<1>6. QED
  BY <1>4, <1>5 DEF r

-----------------------------------------------------------------------------
(* What the operations of a stream do to the chunks on their way.          *)

(* The queue stays, and the pipe or the stream may be closed. *)
LEMMA FlowSame ==
  ASSUME NEW chunk, NEW p, NEW h, NEW q, NEW live, NEW n, NEW e, Flow(chunk, p, h, q, live, n, e),
         NEW p2, p2.queue = p.queue, CanWrite(p2) => CanWrite(p),
         NEW live2, NEW q2, live2 => live /\ q2 = q
  PROVE  Flow(chunk, p2, h, q2, live2, n, e)
BY DEF Flow, Queued, Behind

(* The queue is given up. *)
LEMMA FlowGone ==
  ASSUME NEW chunk, NEW p, NEW h, NEW q, NEW live, NEW n, NEW e, p.queue = <<>>, ~CanWrite(p)
  PROVE  Flow(chunk, p, h, q, live, n, e)
<1>1. Len(<<>>) = 0
  BY SMT
<1>2. \A i \in 1 .. 0 : FALSE
  BY SMT
<1>3. Queued(chunk, p, n, e)
  BY <1>1, <1>2 DEF Queued
<1>4. QED
  BY <1>3 DEF Flow

(* A frame is sent. *)
LEMMA FlowSent ==
  ASSUME NEW chunk, NEW S, NEW U, NEW p \in Pipe(U), NEW h, NEW q \in Seq(S), NEW live, NEW n \in Nat, NEW e \in Nat,
         Flow(chunk, p, h, q, live, n, e), NEW live2, live2 => live, NEW frame \in S
  PROVE  /\ frame.cmd = "PSH" /\ frame.units = chunk[e] => Flow(chunk, p, h, Append(q, frame), live2, n, e + 1)
         /\ frame.cmd # "PSH" => Flow(chunk, p, h, Append(q, frame), live2, n, e)
<1>1. Len(p.queue) \in Nat /\ Behind(p, h, n) \in Nat
  BY SMT DEF Pipe, Behind
<1>2. /\ Queued(chunk, p, n, e)
      /\ CanWrite(p) /\ h # <<>> => h = chunk[n + Len(p.queue)] /\ n + Len(p.queue) < e
      /\ CanWrite(p) /\ live2 => Numbered(chunk, q, Behind(p, h, n), e)
  BY DEF Flow
<1>3. Queued(chunk, p, n, e + 1)
  <2> DEFINE l == Len(p.queue)
  <2>1. l \in Nat /\ \A i \in 1 .. l : n + i <= e => n + i <= e + 1
    BY SMT, <1>1
  <2>2. QED
    BY <1>2, <2>1 DEF Queued
<1>4. n + Len(p.queue) < e => n + Len(p.queue) < e + 1
  BY SMT, <1>1
<1>5. CanWrite(p) /\ live2 =>
        /\ frame.cmd = "PSH" /\ frame.units = chunk[e] => Numbered(chunk, Append(q, frame), Behind(p, h, n), e + 1)
        /\ frame.cmd # "PSH" => Numbered(chunk, Append(q, frame), Behind(p, h, n), e)
  BY <1>1, <1>2, NumberedAppend
<1>6. QED
  BY <1>2, <1>3, <1>4, <1>5 DEF Flow

-----------------------------------------------------------------------------
(* The payloads under way to a side.                                       *)

(* The variables they are in. *)
Carried(U, F) ==
  /\ StreamInv(U) /\ holding \in [Sides -> Seq(U)] /\ net \in [Sides -> Seq(F)]
  /\ \A s \in Sides : SynBehind(net[s])

(* Payloads that arrive for s reach its stream, or will once SYN has       *)
(* opened it.                                                              *)
Live(s) == ~closed[s] /\ (mapped[s] \/ Pending(net[s]))

SideFlow(chunk, s, n, e) == Flow(chunk, pipe[s], holding[s], net[s], Live(s), n, e)

(* Up to two frames are sent to s, neither a payload nor SYN. *)
Added(F, s) ==
  \E x, y \in F :
    /\ x.cmd \notin {"PSH", "SYN"} /\ y.cmd \notin {"PSH", "SYN"}
    /\ net'[s] \in {net[s], Append(net[s], x), Append(Append(net[s], x), y)}

(* Such frames come behind the payloads. *)
LEMMA SideAdded ==
  ASSUME NEW U, NEW F, Carried(U, F), NEW chunk, NEW s \in Sides, NEW n \in Nat, NEW e \in Nat,
         SideFlow(chunk, s, n, e), Added(F, s),
         pipe'[s] = pipe[s], holding'[s] = holding[s], closed'[s] = closed[s], mapped'[s] = mapped[s]
  PROVE  SideFlow(chunk, s, n, e)'
<1>0. pipe[s] \in Pipe(U) /\ net[s] \in Seq(F) /\ SynBehind(net[s])
  BY DEF Carried, StreamInv
<1>1. PICK x \in F, y \in F :
        /\ x.cmd \notin {"PSH", "SYN"} /\ y.cmd \notin {"PSH", "SYN"}
        /\ net'[s] \in {net[s], Append(net[s], x), Append(Append(net[s], x), y)}
  BY DEF Added
<1>2. Flow(chunk, pipe[s], holding[s], net[s], Live(s), n, e)
  BY DEF SideFlow
<1> DEFINE q1 == Append(net[s], x)
           q2 == Append(q1, y)
<1>3. /\ q1 \in Seq(F) /\ SynBehind(q1) /\ (Pending(q1) => Pending(net[s]))
      /\ Flow(chunk, pipe[s], holding[s], q1, Live(s), n, e)
  <2>1. q1 \in Seq(F)
    BY <1>0, AppendElements
  <2>2. SynBehind(q1) /\ (Pending(q1) => Pending(net[s]))
    BY <1>0, <1>1, SynAppend
  <2>3. Flow(chunk, pipe[s], holding[s], q1, Live(s), n, e)
    BY <1>0, <1>1, <1>2, FlowSent
  <2>4. QED
    BY <2>1, <2>2, <2>3
<1> HIDE DEF q1
<1>4. (Pending(q2) => Pending(q1)) /\ Flow(chunk, pipe[s], holding[s], q2, Live(s), n, e)
  BY <1>0, <1>1, <1>3, SynAppend, FlowSent
<1> HIDE DEF q2
<1>5. net'[s] \in {net[s], q1, q2}
  BY <1>1 DEF q1, q2
<1>6. Live(s)' => Live(s)
  BY <1>3, <1>4, <1>5 DEF Live
<1>7. Flow(chunk, pipe[s], holding[s], net'[s], Live(s), n, e)
  BY <1>2, <1>3, <1>4, <1>5
<1>8. Flow(chunk, pipe[s], holding[s], net'[s], Live(s)', n, e)
  BY <1>6, <1>7, FlowSame
<1>9. QED
  BY <1>8 DEF SideFlow

(* The next payload is sent. *)
LEMMA SideSent ==
  ASSUME NEW U, NEW F, Carried(U, F), NEW chunk, NEW s \in Sides, NEW n \in Nat, NEW e \in Nat,
         SideFlow(chunk, s, n, e), NEW x \in F, x.cmd = "PSH", x.units = chunk[e], net'[s] = Append(net[s], x),
         pipe'[s] = pipe[s], holding'[s] = holding[s], closed'[s] = closed[s], mapped'[s] = mapped[s]
  PROVE  SideFlow(chunk, s, n, e + 1)'
<1>0. pipe[s] \in Pipe(U) /\ net[s] \in Seq(F) /\ SynBehind(net[s])
  BY DEF Carried, StreamInv
<1>1. Flow(chunk, pipe[s], holding[s], net[s], Live(s), n, e)
  BY DEF SideFlow
<1>2. Pending(Append(net[s], x)) => Pending(net[s])
  BY <1>0, SynAppend
<1>3. Live(s)' => Live(s)
  BY <1>2 DEF Live
<1>4. Flow(chunk, pipe[s], holding[s], Append(net[s], x), Live(s)', n, e + 1)
  BY <1>0, <1>1, <1>3, FlowSent
<1>5. QED
  BY <1>4 DEF SideFlow

(* A side that a step does not touch. *)
LEMMA SideAlone ==
  ASSUME NEW chunk, NEW s \in Sides, NEW n, NEW e, SideFlow(chunk, s, n, e),
         pipe'[s] = pipe[s], holding'[s] = holding[s], net'[s] = net[s], closed'[s] = closed[s], mapped'[s] = mapped[s]
  PROVE  SideFlow(chunk, s, n, e)'
BY DEF SideFlow, Live

(* The stream or its pipe is closed on one side, or its reader dropped. *)
LEMMA SideClose ==
  ASSUME NEW U, NEW F, Carried(U, F), NEW chunk, NEW s \in Sides, NEW n \in Nat, NEW e \in Nat,
         SideFlow(chunk, s, n, e), net'[s] = net[s], holding'[s] = holding[s],
         \/ CloseStream(s) /\ UNCHANGED pipe
         \/ ClosePipe(s)
         \/ Leave(s) /\ UNCHANGED <<closed, mapped>>
  PROVE  SideFlow(chunk, s, n, e)'
<1>0. /\ pipe \in [Sides -> Pipe(U)] /\ closed \in [Sides -> BOOLEAN] /\ mapped \in [Sides -> BOOLEAN]
      /\ pipe[s] \in Pipe(U)
  BY DEF Carried, StreamInv
<1>1. Flow(chunk, pipe[s], holding[s], net[s], Live(s), n, e)
  BY DEF SideFlow
<1>2. Live(s)' => Live(s)
  BY <1>0 DEF Live, CloseStream, ClosePipe, Leave
<1>3. \/ pipe'[s] = pipe[s]
      \/ pipe'[s] = CloseWithError(pipe[s])
      \/ pipe'[s] = DropReader(pipe[s])
  BY <1>0 DEF CloseStream, ClosePipe, Leave
<1>4. CASE pipe'[s] = DropReader(pipe[s])
  <2>1. pipe'[s].queue = <<>> /\ ~CanWrite(pipe'[s])
    BY <1>0, <1>4 DEF DropReader, Pipe, CanWrite
  <2>2. QED
    BY <2>1, FlowGone DEF SideFlow
<1>5. CASE pipe'[s] # DropReader(pipe[s])
  <2>1. pipe'[s].queue = pipe[s].queue /\ (CanWrite(pipe'[s]) => CanWrite(pipe[s]))
    BY <1>0, <1>3, <1>5 DEF CloseWithError, Pipe, CanWrite
  <2>2. Flow(chunk, pipe'[s], holding[s], net[s], Live(s)', n, e)
    BY ZenonT(30), <1>1, <1>2, <2>1, FlowSame
  <2>3. QED
    BY <2>2 DEF SideFlow
<1>6. QED
  BY <1>4, <1>5

(* A read of one unit answers from the buffer, from the next payload, or   *)
(* with the end of a pipe that has ended.                                  *)
FromBuffer(s) ==
  /\ fut[s] = 0 /\ pipe[s].buffer # <<>> /\ pipe'[s].buffer = Tail(pipe[s].buffer)
  /\ Answer(s, 1).kind = "data" /\ Answer(s, 1).units = <<Head(pipe[s].buffer)>>
FromNext(chunk, s, n) ==
  /\ fut[s] # 0 /\ pipe[s].buffer = <<>> /\ pipe'[s].buffer = Tail(chunk[n])
  /\ Answer(s, 1).kind = "data" /\ Answer(s, 1).units = <<Head(chunk[n])>>
FromEnd(s) == Answer(s, 1).kind # "data" /\ ~Running(pipe[s]) /\ pipe'[s].buffer = <<>>

(* Such a read moves the place of the reader among the payloads by the    *)
(* payload it takes from the queue, if it takes one.                       *)
LEMMA SideRead ==
  \A U, F, chunk : Carried(U, F) =>
    \A s \in Sides, n, e \in Nat :
      SideFlow(chunk, s, n, e) /\ fut[s] \in {0, 1} /\ TakeAnswer(s, 1) /\ UNCHANGED <<closed, mapped, net, holding>> =>
        \/ FromBuffer(s) /\ SideFlow(chunk, s, n, e)'
        \/ FromNext(chunk, s, n) /\ SideFlow(chunk, s, n + 1, e)'
        \/ FromEnd(s) /\ SideFlow(chunk, s, n, e)'
(* A read takes the first event off the queue: the next chunk, or the end. *)
<1>1. ASSUME NEW chunk, NEW U, NEW p \in Pipe(U), p.queue # <<>>, NEW h, NEW q, NEW live, NEW n \in Nat, NEW e \in Nat,
             Flow(chunk, p, h, q, live, n, e), NEW r, r.queue = Tail(p.queue), CanWrite(r) => CanWrite(p)
      PROVE  /\ Head(p.queue).kind = "data" =>
                  Head(p.queue).units = chunk[n] /\ n < e /\ Flow(chunk, r, h, q, live, n + 1, e)
             /\ Head(p.queue).kind # "data" =>
                  Len(p.queue) = 1 /\ r.queue = <<>> /\ (~CanWrite(r) => Flow(chunk, r, h, q, live, n, e))
  <2> USE <1>1
  <2> DEFINE l == Len(p.queue)
  <2>1. /\ p.queue \in Seq(Event(U)) /\ l \in Nat \ {0} /\ Head(p.queue) = p.queue[1]
        /\ Len(r.queue) = l - 1 /\ \A i \in 1 .. l - 1 : r.queue[i] = p.queue[i + 1]
    BY SMT DEF Pipe
  <2>2. Queued(chunk, p, n, e)
    BY DEF Flow
  <2>3. 1 \in 1 .. l /\ n + 1 - 1 = n /\ (n + 1 <= e => n < e)
    BY SMT, <2>1
  <2>4. ASSUME Head(p.queue).kind = "data"
        PROVE  Head(p.queue).units = chunk[n] /\ n < e /\ Flow(chunk, r, h, q, live, n + 1, e)
    <3>1. p.queue[1].units = chunk[n + 1 - 1] /\ n + 1 <= e
      BY <2>1, <2>2, <2>3, <2>4 DEF Queued
    <3>2. Queued(chunk, r, n + 1, e)
      <4>1. ASSUME NEW i \in 1 .. l - 1
            PROVE  /\ r.queue[i].kind = "data" => r.queue[i].units = chunk[(n + 1) + i - 1] /\ (n + 1) + i <= e
                   /\ r.queue[i].kind # "data" => i = l - 1
        <5>1. /\ i + 1 \in 1 .. l /\ n + (i + 1) - 1 = (n + 1) + i - 1 /\ n + (i + 1) = (n + 1) + i
              /\ (i + 1 = l => i = l - 1)
          BY SMT, <2>1
        <5>2. /\ p.queue[i + 1].kind = "data" => p.queue[i + 1].units = chunk[n + (i + 1) - 1] /\ n + (i + 1) <= e
              /\ p.queue[i + 1].kind # "data" => i + 1 = l
          BY <2>2, <5>1 DEF Queued
        <5>3. QED
          BY <2>1, <5>1, <5>2
      <4>2. QED
        BY <2>1, <4>1 DEF Queued
    <3>3. (n + 1) + Len(r.queue) = n + l
      <4> DEFINE m == Len(r.queue)
      <4>1. m = l - 1 /\ l \in Nat \ {0}
        BY <2>1
      <4> HIDE DEF m, l
      <4>2. (n + 1) + m = n + l
        BY SMT, <4>1
      <4>3. QED
        BY <4>2 DEF m, l
    <3>4. Behind(r, h, n + 1) = Behind(p, h, n)
      BY <3>3 DEF Behind
    <3>5. Head(p.queue).units = chunk[n] /\ n < e
      <4>1. n + 1 - 1 = n
        BY SMT
      <4>2. p.queue[1].units = chunk[n]
        BY SMT, <3>1, <4>1
      <4>3. QED
        BY <2>1, <2>3, <3>1, <4>2
    <3>6. CanWrite(r) /\ h # <<>> => h = chunk[(n + 1) + Len(r.queue)] /\ (n + 1) + Len(r.queue) < e
      <4>1. CanWrite(r) /\ h # <<>> => h = chunk[n + l] /\ n + l < e
        BY DEF Flow
      <4>2. QED
        BY <3>3, <4>1
    <3>7. CanWrite(r) /\ live => Numbered(chunk, q, Behind(r, h, n + 1), e)
      BY <3>4 DEF Flow
    <3>8. QED
      BY <3>2, <3>5, <3>6, <3>7 DEF Flow
  <2>5. ASSUME Head(p.queue).kind # "data"
        PROVE  l = 1 /\ r.queue = <<>>
    <3>1. 1 = l
      BY <2>1, <2>2, <2>3, <2>5 DEF Queued
    <3>2. r.queue = <<>>
      <4>1. r.queue \in Seq(Event(U))
        BY SMT, <2>1
      <4>2. Len(r.queue) = 0
        BY SMT, <2>1, <3>1
      <4>3. QED
        BY <4>1, <4>2, NoElement
    <3>3. QED
      BY <3>1, <3>2
  <2>6. QED
    BY <2>4, <2>5, FlowGone

<1>2. ASSUME NEW U, NEW F, Carried(U, F), NEW chunk, NEW s \in Sides, NEW n \in Nat, NEW e \in Nat,
             SideFlow(chunk, s, n, e), fut[s] \in {0, 1}, TakeAnswer(s, 1), UNCHANGED <<closed, mapped, net, holding>>
      PROVE  \/ FromBuffer(s) /\ SideFlow(chunk, s, n, e)'
             \/ FromNext(chunk, s, n) /\ SideFlow(chunk, s, n + 1, e)'
             \/ FromEnd(s) /\ SideFlow(chunk, s, n, e)'
  <2> USE <1>2
  <2> DEFINE p == pipe[s]
  <2>0. p \in Pipe(U) /\ Proper(p) /\ (fut[s] # 0 => p.buffer = <<>>) /\ pipe \in [Sides -> Pipe(U)]
    BY DEF Carried, StreamInv
  <2>1. Flow(chunk, p, holding[s], net[s], Live(s), n, e) /\ Live(s)' = Live(s)
    BY DEF SideFlow, Live
  <2>2. pipe'[s] = Answer(s, 1).pipe
    BY <2>0 DEF TakeAnswer
  <2>a. /\ fut[s] = 0 => Answer(s, 1) = ReadNow(p, 1) /\ ReadsNow(p)
        /\ fut[s] # 0 => Answer(s, 1) = ReadEvent(p, fut[s]) /\ ReadReady(p)
    BY DEF Answer, TakeAnswer, Answers
  <2>b. /\ FromBuffer(s) <=> /\ fut[s] = 0 /\ p.buffer # <<>> /\ pipe'[s].buffer = Tail(p.buffer)
                            /\ Answer(s, 1).kind = "data" /\ Answer(s, 1).units = <<Head(p.buffer)>>
        /\ FromNext(chunk, s, n) <=> /\ fut[s] # 0 /\ p.buffer = <<>> /\ pipe'[s].buffer = Tail(chunk[n])
                                   /\ Answer(s, 1).kind = "data" /\ Answer(s, 1).units = <<Head(chunk[n])>>
        /\ FromEnd(s) <=> Answer(s, 1).kind # "data" /\ ~Running(p) /\ pipe'[s].buffer = <<>>
    BY DEF FromBuffer, FromNext, FromEnd
  <2>c. /\ \A m \in Nat : SideFlow(chunk, s, m, e)' <=> Flow(chunk, pipe'[s], holding[s], net[s], Live(s)', m, e)
    BY DEF SideFlow
  <2> HIDE DEF p
  <2>d. ASSUME p.queue # <<>>, NEW live, Flow(chunk, p, holding[s], net[s], live, n, e),
               NEW q, q.queue = Tail(p.queue), CanWrite(q) => CanWrite(p)
        PROVE  /\ Head(p.queue).kind = "data" =>
                     Head(p.queue).units = chunk[n] /\ n < e /\ Flow(chunk, q, holding[s], net[s], live, n + 1, e)
               /\ Head(p.queue).kind # "data" =>
                     Len(p.queue) = 1 /\ q.queue = <<>> /\ (~CanWrite(q) => Flow(chunk, q, holding[s], net[s], live, n, e))
    <3>1. p \in Pipe(U)
      BY <2>0
    <3>2. QED
      BY <2>d, <3>1, <1>1
  <2>3. CASE fut[s] = 0
    <3>1. Answer(s, 1) = ReadNow(p, 1) /\ ReadsNow(p)
      BY <2>3, <2>a
    <3>a. pipe'[s] = ReadNow(p, 1).pipe
      BY <2>2, <3>1
    <3>2. /\ pipe'[s].queue = p.queue /\ (CanWrite(pipe'[s]) => CanWrite(p))
          /\ p.buffer = <<>> => ReadNow(p, 1).kind = "eof" /\ pipe'[s] = p
          /\ p.buffer # <<>> => /\ ReadNow(p, 1).kind = "data" /\ ReadNow(p, 1).units = <<Head(p.buffer)>>
                                /\ pipe'[s].buffer = Tail(p.buffer)
      BY <2>0, <3>a, ReadNowOne
    <3>3. Flow(chunk, pipe'[s], holding[s], net[s], Live(s)', n, e)
      BY <2>1, <3>2, FlowSame
    <3>4. SideFlow(chunk, s, n, e)'
      BY <2>c, <3>3
    <3>5. p.buffer = <<>> => FromEnd(s)
      BY <2>b, <3>1, <3>2 DEF ReadsNow, AtEnd, Running
    <3>6. p.buffer # <<>> => FromBuffer(s)
      BY <2>3, <2>b, <3>1, <3>2
    <3>7. QED
      BY <3>4, <3>5, <3>6
  <2>4. CASE fut[s] # 0
    <3>0. fut[s] = 1
      BY <2>4
    <3>1. Answer(s, 1) = ReadEvent(p, 1) /\ ReadReady(p)
      BY <2>4, <2>a, <3>0
    <3>a. pipe'[s] = ReadEvent(p, 1).pipe /\ p.buffer = <<>>
      BY <2>0, <2>2, <2>4, <3>1
    <3>2. TakesNothing(p, Answer(s, 1)) \/ TakesEnd(p, Answer(s, 1)) \/ TakesUnit(U, p, Answer(s, 1))
      BY <2>0, <3>1, <3>a, ReadEventOne
    <3>3. CASE TakesNothing(p, Answer(s, 1))
      <4>1. Answer(s, 1).kind = "eof" /\ pipe'[s] = p /\ p.queue = <<>>
        BY <2>2, <3>3 DEF TakesNothing
      <4>2. SideFlow(chunk, s, n, e)'
        BY <4>1, SideAlone DEF p
      <4>3. FromEnd(s)
        BY <2>b, <3>1, <3>a, <4>1 DEF ReadReady, Running
      <4>4. QED
        BY <4>2, <4>3
    <3>4. CASE TakesEnd(p, Answer(s, 1))
      <4>1. /\ p.queue # <<>> /\ pipe'[s].queue = Tail(p.queue) /\ (CanWrite(pipe'[s]) => CanWrite(p))
            /\ Head(p.queue).kind # "data" /\ Answer(s, 1).kind # "data"
            /\ ~CanWrite(pipe'[s]) /\ pipe'[s].buffer = <<>> /\ p.endQueued
        BY <2>2, <3>4 DEF TakesEnd, TakesEvent
      <4>2. Flow(chunk, pipe'[s], holding[s], net[s], Live(s), n, e)
        BY <2>1, <2>d, <4>1
      <4>3. SideFlow(chunk, s, n, e)'
        BY <2>1, <2>c, <4>2
      <4>4. FromEnd(s)
        BY <2>b, <4>1 DEF Running
      <4>5. QED
        BY <4>3, <4>4
    <3>5. CASE TakesUnit(U, p, Answer(s, 1))
      <4>1. /\ p.queue # <<>> /\ pipe'[s].queue = Tail(p.queue) /\ (CanWrite(pipe'[s]) => CanWrite(p))
            /\ Head(p.queue).kind = "data" /\ Answer(s, 1).kind = "data"
            /\ Answer(s, 1).units = <<Head(Head(p.queue).units)>> /\ pipe'[s].buffer = Tail(Head(p.queue).units)
        BY <2>2, <3>5 DEF TakesUnit, TakesEvent
      <4>2. Head(p.queue).units = chunk[n] /\ Flow(chunk, pipe'[s], holding[s], net[s], Live(s), n + 1, e) /\ n + 1 \in Nat
        <5>1. n + 1 \in Nat
          BY SMT
        <5>2. QED
          BY <2>1, <2>d, <4>1, <5>1
      <4>3. SideFlow(chunk, s, n + 1, e)'
        BY <2>1, <2>c, <4>2
      <4>4. FromNext(chunk, s, n)
        BY <2>4, <2>b, <3>a, <4>1, <4>2
      <4>5. QED
        BY <4>3, <4>4
    <3>6. QED
      BY <3>2, <3>3, <3>4, <3>5
  <2>5. QED
    BY <2>3, <2>4
<1>3. QED
  BY SMT, <1>2

-----------------------------------------------------------------------------
(* The payloads of the two directions.                                     *)

(* The payloads of one direction, in their order. *)
Chunks == [k \in Nat |-> IF k = 0 THEN Sentinel ELSE IF k = 1 THEN Request ELSE Packet(k - 1)]

(* Their parts. *)
LEMMA ChunkFacts ==
  /\ Chunks[0] = Sentinel /\ Chunks[1] = Request /\ Tail(Chunks[0]) = <<>> /\ Tail(Chunks[1]) = <<>>
  /\ \A k \in Nat : Chunks[k] # <<>>
  /\ \A i \in Nat : /\ i + 2 \in Nat /\ Chunks[i + 2] = Packet(i + 1)
                    /\ Head(Chunks[i + 2]) = <<i + 1, 1>> /\ Tail(Chunks[i + 2]) = <<<<i + 1, 2>>>>
<1>1. Chunks[0] = Sentinel /\ Chunks[1] = Request
  BY SMT DEF Chunks
<1>2. Tail(Sentinel) = <<>> /\ Tail(Request) = <<>> /\ Sentinel # <<>> /\ Request # <<>>
  BY SMT DEF Sentinel, Request
<1>3. \A i \in Nat : i + 2 \in Nat /\ Chunks[i + 2] = Packet(i + 1)
  <2> SUFFICES ASSUME NEW i \in Nat
               PROVE  i + 2 \in Nat /\ Chunks[i + 2] = Packet(i + 1)
    BY SMT
  <2>1. i + 2 \in Nat /\ i + 2 # 0 /\ i + 2 # 1 /\ (i + 2) - 1 = i + 1
    BY SMT
  <2>2. QED
    BY <2>1 DEF Chunks
<1>4. \A j : Packet(j) # <<>> /\ Head(Packet(j)) = <<j, 1>> /\ Tail(Packet(j)) = <<<<j, 2>>>>
  BY SMT DEF Packet
<1>5. \A k \in Nat : Chunks[k] # <<>>
  BY <1>2, <1>4 DEF Chunks
<1>6. QED
  BY <1>1, <1>2, <1>3, <1>4, <1>5

(* The frames under way are such as the lemmas on streams ask for. *)
LEMMA CarriedHolds ==
  ASSUME NEW o, IInv(o)
  PROVE  Carried(Parts(o), Frames(o))
<1>1. \A s \in Sides : SynBehind(net[s])
  <2>1. net["client"] \in Seq(DownFrames(o))
    BY DEF IInv, LinkTypes
  <2>2. \A j \in 1 .. Len(net["client"]) : net["client"][j] \in DownFrames(o)
    BY SMT, <2>1
  <2>3. \A j \in 1 .. Len(net["client"]) : net["client"][j].cmd # "SYN"
    BY <2>2, FrameTypes
  <2>4. \A i \in 1 .. Len(net["client"]) : \A j \in i + 1 .. Len(net["client"]) : j \in 1 .. Len(net["client"])
    BY SMT, <2>1
  <2>5. SynBehind(net["client"])
    BY <2>3, <2>4 DEF SynBehind
  <2>6. QED
    BY <2>5 DEF IInv, OpeningOrder, Sides
<1>2. QED
  BY <1>1 DEF Carried, IInv, LinkTypes

(* A step changes nothing about the payloads to s and what is read of them. *)
FlowKept(s, n, e) ==
  SideFlow(Chunks, s, n, e)' /\ pipe'[s].buffer = pipe[s].buffer /\ (closed[s] => closed'[s])

(* So do the steps besides those of the tasks. *)
LEMMA AroundFlow ==
  \A o : IInv(o) /\ Around => \A t \in Sides : \A n, e \in Nat : SideFlow(Chunks, t, n, e) => FlowKept(t, n, e)
(* The first frame: the first chunk, or no chunk. *)
<1>1. ASSUME NEW chunk, NEW S, NEW q \in Seq(S), q # <<>>, NEW a \in Nat, NEW b \in Nat, Numbered(chunk, q, a, b)
      PROVE  /\ Head(q).cmd = "PSH" => Head(q).units = chunk[a] /\ a < b /\ Numbered(chunk, Tail(q), a + 1, b)
             /\ Head(q).cmd # "PSH" => Numbered(chunk, Tail(q), a, b)
             /\ (\A j \in 1 .. Len(q) : q[j].cmd # "PSH") => a = b
  <2> USE <1>1
  <2> DEFINE l == Len(q)
             r == Tail(q)
  <2>1. PICK f \in [0 .. l -> 0 .. b] : NumberedBy(chunk, q, a, b, f)
    BY DEF Numbered
  <2>2. l \in Nat \ {0} /\ Len(r) = l - 1 /\ Head(q) = q[1] /\ \A i \in 1 .. l - 1 : r[i] = q[i + 1]
    BY SMT
  <2>3. /\ f[0] = a /\ f[l] = b
        /\ \A i \in 1 .. l :
             IF q[i].cmd = "PSH" THEN q[i].units = chunk[f[i - 1]] /\ f[i] = f[i - 1] + 1 ELSE f[i] = f[i - 1]
        /\ \A i \in 0 .. l : (\A j \in i + 1 .. l : q[j].cmd # "PSH") => f[i] = b
    BY <2>1 DEF NumberedBy
  <2> HIDE DEF l, r
  <2>4. Numbered(chunk, r, f[1], b)
    <3> DEFINE g == [i \in 0 .. l - 1 |-> f[i + 1]]
    <3>1. g \in [0 .. l - 1 -> 0 .. b] /\ \A i \in 0 .. l - 1 : g[i] = f[i + 1]
      BY SMT, <2>1, <2>2
    <3> HIDE DEF g
    <3>2. ASSUME NEW i \in 1 .. l - 1
          PROVE  IF r[i].cmd = "PSH" THEN r[i].units = chunk[g[i - 1]] /\ g[i] = g[i - 1] + 1 ELSE g[i] = g[i - 1]
      <4>1. i + 1 \in 1 .. l /\ (i + 1) - 1 = i /\ i - 1 \in 0 .. l - 1 /\ i \in 0 .. l - 1 /\ (i - 1) + 1 = i
        BY SMT, <2>2
      <4>2. g[i - 1] = f[i] /\ g[i] = f[i + 1] /\ r[i] = q[i + 1]
        BY <2>2, <3>1, <4>1
      <4>3. QED
        BY <2>3, <4>1, <4>2
    <3>3. ASSUME NEW i \in 0 .. l - 1, \A j \in i + 1 .. l - 1 : r[j].cmd # "PSH"
          PROVE  g[i] = b
      <4>1. i + 1 \in 0 .. l
        BY SMT, <2>2
      <4>2. ASSUME NEW j \in (i + 1) + 1 .. l
            PROVE  q[j].cmd # "PSH"
        <5>1. j - 1 \in i + 1 .. l - 1 /\ j - 1 \in 1 .. l - 1 /\ (j - 1) + 1 = j
          BY SMT, <2>2
        <5>2. r[j - 1] = q[j]
          BY <2>2, <5>1
        <5>3. QED
          BY <3>3, <5>1, <5>2
      <4>3. QED
        BY <2>3, <3>1, <4>1, <4>2
    <3>4. g[0] = f[1] /\ g[l - 1] = b
      <4>1. 0 \in 0 .. l - 1 /\ l - 1 \in 0 .. l - 1 /\ 0 + 1 = 1 /\ (l - 1) + 1 = l
        BY SMT, <2>2
      <4>2. QED
        BY <2>3, <3>1, <4>1
    <3>5. NumberedBy(chunk, r, f[1], b, g)
      BY <2>2, <3>2, <3>3, <3>4 DEF NumberedBy
    <3>6. QED
      BY <2>2, <3>1, <3>5 DEF Numbered
  <2>5. 1 \in 1 .. l /\ 1 - 1 = 0 /\ 1 \in 0 .. l /\ 0 \in 0 .. l /\ 0 + 1 = 1
    BY SMT, <2>2
  <2>6. IF q[1].cmd = "PSH" THEN q[1].units = chunk[a] /\ f[1] = a + 1 ELSE f[1] = a
    <3>1. IF q[1].cmd = "PSH" THEN q[1].units = chunk[f[1 - 1]] /\ f[1] = f[1 - 1] + 1 ELSE f[1] = f[1 - 1]
      BY <2>3, <2>5
    <3>2. QED
      BY <2>3, <2>5, <3>1
  <2>7. f[1] = a + 1 => a < b
    <3>1. f[1] \in 0 .. b
      BY <2>1, <2>5
    <3>2. QED
      BY SMT, <3>1
  <2>8. (\A j \in 1 .. l : q[j].cmd # "PSH") => a = b
    <3>1. (\A j \in 0 + 1 .. l : q[j].cmd # "PSH") => f[0] = b
      BY <2>3, <2>5
    <3>2. QED
      BY <2>3, <2>5, <3>1
  <2>9. QED
    BY <2>2, <2>4, <2>6, <2>7, <2>8 DEF l, r

(* A frame without a payload is received. *)
<1>2. \A U, F, chunk : Carried(U, F) =>
        \A s \in Sides, n, e \in Nat :
          /\ SideFlow(chunk, s, n, e) /\ net[s] # <<>> /\ net'[s] = Tail(net[s]) /\ Head(net[s]).cmd # "PSH"
          /\ pipe'[s] = pipe[s] /\ holding'[s] = holding[s] /\ closed'[s] = closed[s]
          /\ mapped'[s] => mapped[s] \/ Head(net[s]).cmd = "SYN"
          => SideFlow(chunk, s, n, e)'
  (* A frame without a payload is received. *)
  <2>1. ASSUME NEW chunk, NEW S, NEW U, NEW p \in Pipe(U), NEW h, NEW q \in Seq(S), q # <<>>, NEW live, NEW n \in Nat, NEW e \in Nat,
               Flow(chunk, p, h, q, live, n, e), NEW live2, live2 => live, Head(q).cmd # "PSH"
        PROVE  Flow(chunk, p, h, Tail(q), live2, n, e)
    <3> USE <2>1
    <3>1. Behind(p, h, n) \in Nat
      BY SMT DEF Pipe, Behind
    <3>2. CanWrite(p) /\ live2 => Numbered(chunk, Tail(q), Behind(p, h, n), e)
      BY <3>1, <1>1 DEF Flow
    <3>3. QED
      BY <3>2 DEF Flow

  <2>2. ASSUME NEW U, NEW F, Carried(U, F), NEW chunk, NEW s \in Sides, NEW n \in Nat, NEW e \in Nat,
               SideFlow(chunk, s, n, e), net[s] # <<>>, net'[s] = Tail(net[s]), Head(net[s]).cmd # "PSH",
               pipe'[s] = pipe[s], holding'[s] = holding[s], closed'[s] = closed[s],
               mapped'[s] => mapped[s] \/ Head(net[s]).cmd = "SYN"
        PROVE  SideFlow(chunk, s, n, e)'
    <3> USE <2>2
    <3>0. pipe[s] \in Pipe(U) /\ net[s] \in Seq(F) /\ SynBehind(net[s])
      BY DEF Carried, StreamInv
    <3>1. Flow(chunk, pipe[s], holding[s], net[s], Live(s), n, e)
      BY DEF SideFlow
    <3>2. (Pending(Tail(net[s])) => Pending(net[s])) /\ (Head(net[s]).cmd = "SYN" => Pending(net[s]))
      <4>1. Pending(Tail(net[s])) => Pending(net[s])
        BY <3>0, SynTail
      <4>2. Head(net[s]) = net[s][1] /\ 1 \in 1 .. Len(net[s])
        BY <3>0, TailElements
      <4>3. QED
        BY <4>1, <4>2 DEF Pending
    <3>3. Live(s)' => Live(s)
      BY <3>2 DEF Live
    <3>4. Flow(chunk, pipe[s], holding[s], Tail(net[s]), Live(s)', n, e)
      BY <3>0, <3>1, <3>3, <2>1
    <3>5. QED
      BY <3>4 DEF SideFlow
  <2>3. QED
    BY SMT, <2>2

(* A payload is received. *)
<1>3. \A U, F, chunk : Carried(U, F) /\ (\A k \in Nat : chunk[k] # <<>>) =>
        \A s \in Sides, n, e \in Nat : SideFlow(chunk, s, n, e) /\ ReceivePsh(s) => SideFlow(chunk, s, n, e)'
  (* A frame with a payload is received for a stream, or dropped. *)
  <2>1. ASSUME NEW chunk, NEW S, NEW U, NEW p \in Pipe(U), NEW q \in Seq(S), q # <<>>, NEW live, NEW n \in Nat, NEW e \in Nat,
               Flow(chunk, p, <<>>, q, live, n, e), Head(q).cmd = "PSH",
               \A k \in Nat : chunk[k] # <<>>
        PROVE  /\ live => Flow(chunk, p, Head(q).units, Tail(q), live, n, e)
               /\ Flow(chunk, p, <<>>, Tail(q), FALSE, n, e)
    <3> USE <2>1
    <3> DEFINE l == Len(p.queue)
    <3>1. l \in Nat /\ Behind(p, <<>>, n) = n + l /\ n + l \in Nat
      BY SMT DEF Pipe, Behind
    <3>2. Queued(chunk, p, n, e)
      BY DEF Flow
    <3>3. ASSUME live, CanWrite(p)
          PROVE  Head(q).units = chunk[n + l] /\ n + l < e /\ Numbered(chunk, Tail(q), (n + l) + 1, e)
      <4>1. Numbered(chunk, q, n + l, e)
        BY <3>1, <3>3 DEF Flow
      <4>2. QED
        BY <3>1, <4>1, <1>1
    <3>4. CanWrite(p) /\ live => Behind(p, Head(q).units, n) = (n + l) + 1
      <4>1. CanWrite(p) /\ live => Head(q).units # <<>>
        BY <3>1, <3>3
      <4>2. QED
        BY <4>1 DEF Behind
    <3>5. QED
      BY <3>2, <3>3, <3>4 DEF Flow

  <2>2. ASSUME NEW U, NEW F, Carried(U, F), NEW chunk, \A k \in Nat : chunk[k] # <<>>,
               NEW s \in Sides, NEW n \in Nat, NEW e \in Nat, SideFlow(chunk, s, n, e), ReceivePsh(s)
        PROVE  SideFlow(chunk, s, n, e)'
    <3> USE <2>2
    <3> DEFINE q == net[s]
    <3>0. pipe[s] \in Pipe(U) /\ q \in Seq(F) /\ SynBehind(q)
      BY DEF Carried, StreamInv
    <3>1. /\ q # <<>> /\ net'[s] = Tail(q) /\ Head(q).cmd = "PSH" /\ UNCHANGED <<pipe, closed, mapped>> /\ holding[s] = <<>>
          /\ holding'[s] = IF mapped[s] /\ ~closed[s] THEN Head(q).units ELSE <<>>
      BY DEF ReceivePsh, Arrived, Consumed, streamVars, Carried
    <3>2. ~Pending(Tail(q))
      BY <3>0, <3>1, SynTail DEF Before
    <3>3. (mapped[s] /\ ~closed[s] => Live(s)) /\ (Live(s)' <=> mapped[s] /\ ~closed[s])
      BY <3>1, <3>2 DEF Live
    <3>4. Flow(chunk, pipe[s], <<>>, q, Live(s), n, e)
      BY <3>1 DEF SideFlow
    <3>5. /\ Live(s) => Flow(chunk, pipe[s], Head(q).units, Tail(q), Live(s), n, e)
          /\ Flow(chunk, pipe[s], <<>>, Tail(q), FALSE, n, e)
      BY <3>0, <3>1, <3>4, <2>1
    <3>6. CASE mapped[s] /\ ~closed[s]
      <4>1. Flow(chunk, pipe[s], Head(q).units, Tail(q), Live(s)', n, e)
        BY <3>3, <3>5, <3>6 DEF Flow
      <4>2. QED
        BY <3>1, <3>6, <4>1 DEF SideFlow
    <3>7. CASE ~(mapped[s] /\ ~closed[s])
      <4>1. Flow(chunk, pipe[s], <<>>, Tail(q), Live(s)', n, e)
        BY <3>3, <3>5, <3>7 DEF Flow
      <4>2. QED
        BY <3>1, <3>7, <4>1 DEF SideFlow
    <3>8. QED
      BY <3>6, <3>7
  <2>3. QED
    BY <2>2

(* The stream ends, and what is left of the frames does not open it. *)
<1>4. \A U, F, chunk : Carried(U, F) =>
        \A s \in Sides, n, e \in Nat, kind \in {"eof", "error"} :
          SideFlow(chunk, s, n, e) /\ EndStream(s, kind) /\ holding' = holding /\ ~Pending(net'[s]) =>
            SideFlow(chunk, s, n, e)'
  (* finish_stream puts the end behind what is queued. *)
  <2>1. ASSUME NEW chunk, NEW U, NEW p \in Pipe(U), Proper(p), NEW kind \in {"eof", "error"}, NEW h, NEW q, NEW q2, NEW live,
               NEW n \in Nat, NEW e \in Nat, Flow(chunk, p, h, q, live, n, e)
        PROVE  Flow(chunk, FinishStream(p, kind), h, q2, FALSE, n, e)
    <3> USE <2>1
    <3> DEFINE l == Len(p.queue)
               r == FinishStream(p, kind)
    <3>1. CASE r = p
      BY <3>1, FlowSame
    <3>2. CASE r.queue = p.queue /\ r.endQueued
      BY <3>2, FlowSame DEF CanWrite
    <3>3. CASE ~p.endQueued /\ r.queue = Append(p.queue, StreamEnd(kind)) /\ r.endQueued
      <4>1. p.queue \in Seq(Event(U)) /\ StreamEnd(kind) \in Event(U) /\ StreamEnd(kind).kind = kind /\ kind # "data"
        BY SMT DEF Pipe, StreamEnd, Event
      <4> HIDE DEF r
      <4>2. /\ l \in Nat /\ Len(r.queue) = l + 1 /\ r.queue[l + 1] = StreamEnd(kind)
            /\ \A i \in 1 .. l : r.queue[i] = p.queue[i]
        BY SMT, <3>3, <4>1, AppendLast
      <4>3. \A i \in 1 .. l : p.queue[i].kind = "data"
        BY <3>3 DEF Proper
      <4>4. Queued(chunk, p, n, e)
        BY DEF Flow
      <4>5. Queued(chunk, r, n, e)
        <5>1. ASSUME NEW i \in 1 .. l + 1
              PROVE  /\ r.queue[i].kind = "data" => r.queue[i].units = chunk[n + i - 1] /\ n + i <= e
                     /\ r.queue[i].kind # "data" => i = l + 1
          <6>1. CASE i = l + 1
            BY <4>1, <4>2, <6>1
          <6>2. CASE i # l + 1
            <7>1. i \in 1 .. l
              BY SMT, <4>2, <6>2
            <7>2. QED
              BY <4>2, <4>3, <4>4, <7>1 DEF Queued
          <6>3. QED
            BY <6>1, <6>2
        <5>2. QED
          BY <4>2, <5>1 DEF Queued
      <4>6. QED
        BY <3>3, <4>5 DEF Flow, CanWrite, r
    <3>4. QED
      BY <3>1, <3>2, <3>3 DEF FinishStream, Pipe

  <2>2. ASSUME NEW U, NEW F, Carried(U, F), NEW chunk, NEW s \in Sides, NEW n \in Nat, NEW e \in Nat,
               SideFlow(chunk, s, n, e), NEW kind \in {"eof", "error"}, EndStream(s, kind), holding' = holding,
               ~Pending(net'[s])
        PROVE  SideFlow(chunk, s, n, e)'
    <3> USE <2>2
    <3>0. pipe[s] \in Pipe(U) /\ Proper(pipe[s])
      BY DEF Carried, StreamInv
    <3>1. ~mapped'[s] /\ pipe'[s] = IF mapped[s] THEN FinishStream(pipe[s], kind) ELSE pipe[s]
      BY DEF EndStream, Carried, StreamInv
    <3>2. ~Live(s)' /\ Flow(chunk, pipe[s], holding[s], net[s], Live(s), n, e)
      BY <3>1 DEF Live, SideFlow
    <3>3. Flow(chunk, FinishStream(pipe[s], kind), holding[s], net'[s], FALSE, n, e)
      BY <3>0, <3>2, <2>1
    <3>4. Flow(chunk, pipe[s], holding[s], net'[s], FALSE, n, e)
      BY <3>2, FlowSame
    <3>5. Flow(chunk, pipe'[s], holding[s], net'[s], FALSE, n, e)
      BY <3>1, <3>3, <3>4
    <3>6. Flow(chunk, pipe'[s], holding[s], net'[s], Live(s)', n, e)
      BY <3>2, <3>5 DEF Flow
    <3>7. QED
      BY <3>6 DEF SideFlow
  <2>3. QED
    BY <2>2

(* The payload received is pushed, or dropped. *)
<1>5. \A U, F, chunk : Carried(U, F) =>
        \A s \in Sides, n, e \in Nat : SideFlow(chunk, s, n, e) /\ Push(s) => SideFlow(chunk, s, n, e)'
  (* The payload received is written to the pipe, or dropped because the     *)
  (* pipe takes none or the stream is closed.                                *)
  <2>1. ASSUME NEW chunk, NEW U, NEW p \in Pipe(U), Proper(p), NEW h \in Seq(U), h # <<>>, NEW q, NEW live, NEW n \in Nat, NEW e \in Nat,
               Flow(chunk, p, h, q, live, n, e)
        PROVE  /\ CanWrite(p) => Flow(chunk, Write(p, h), <<>>, q, live, n, e)
               /\ ~CanWrite(p) => Flow(chunk, p, <<>>, q, live, n, e)
               /\ Flow(chunk, p, <<>>, q, FALSE, n, e)
    <3> USE <2>1
    <3> DEFINE l == Len(p.queue)
               r == Write(p, h)
    <3>1. p.queue \in Seq(Event(U)) /\ Data(h) \in Event(U) /\ Data(h).kind = "data" /\ Data(h).units = h
      BY DEF Pipe, Data, Event
    <3>2. r.queue = Append(p.queue, Data(h)) /\ (CanWrite(r) => CanWrite(p))
      BY DEF Write, Pipe, CanWrite
    <3> HIDE DEF r
    <3>3. /\ l \in Nat /\ Len(r.queue) = l + 1 /\ r.queue[l + 1] = Data(h)
          /\ \A i \in 1 .. l : r.queue[i] = p.queue[i]
      BY SMT, <3>1, <3>2, AppendLast
    <3>4. Queued(chunk, p, n, e)
      BY DEF Flow
    <3>5. ASSUME CanWrite(p)
          PROVE  Flow(chunk, r, <<>>, q, live, n, e)
      <4>1. h = chunk[n + l] /\ n + l < e /\ (live => Numbered(chunk, q, (n + l) + 1, e))
        <5>1. Behind(p, h, n) = (n + l) + 1
          BY DEF Behind
        <5>2. QED
          BY <3>5, <5>1 DEF Flow
      <4>2. \A i \in 1 .. l : p.queue[i].kind = "data"
        BY <3>5 DEF Proper, CanWrite
      <4> HIDE DEF l
      <4>3. Queued(chunk, r, n, e)
        <5>1. ASSUME NEW i \in 1 .. l + 1
              PROVE  /\ r.queue[i].kind = "data"
                     /\ r.queue[i].units = chunk[n + i - 1] /\ n + i <= e
          <6>1. CASE i = l + 1
            <7>1. l \in Nat /\ n + l < e
              BY <3>3, <4>1
            <7>2. n + i - 1 = n + l /\ n + i <= e
              BY SMT, <6>1, <7>1
            <7>3. QED
              BY <3>1, <3>3, <4>1, <6>1, <7>2
          <6>2. CASE i # l + 1
            <7>1. i \in 1 .. l
              BY SMT, <3>3, <6>2
            <7>2. QED
              BY <3>3, <3>4, <4>2, <7>1 DEF Queued, l
          <6>3. QED
            BY <6>1, <6>2
        <5>2. QED
          BY <3>3, <5>1 DEF Queued
      <4>4. Behind(r, <<>>, n) = (n + l) + 1
        BY SMT, <3>3 DEF Behind
      <4>5. QED
        BY <4>1, <4>3, <4>4 DEF Flow
    <3>6. QED
      BY <3>4, <3>5 DEF Flow, r

  <2>2. ASSUME NEW U, NEW F, Carried(U, F), NEW chunk, NEW s \in Sides, NEW n \in Nat, NEW e \in Nat,
               SideFlow(chunk, s, n, e), Push(s)
        PROVE  SideFlow(chunk, s, n, e)'
    <3> USE <2>2
    <3>0. /\ pipe[s] \in Pipe(U) /\ Proper(pipe[s]) /\ holding[s] \in Seq(U) /\ holding[s] # <<>>
          /\ UNCHANGED <<closed, mapped, net>> /\ holding'[s] = <<>>
      BY DEF Carried, StreamInv, Push
    <3>1. Flow(chunk, pipe[s], holding[s], net[s], Live(s), n, e) /\ Live(s)' = Live(s)
      BY <3>0 DEF SideFlow, Live
    <3>2. /\ CanWrite(pipe[s]) => Flow(chunk, Write(pipe[s], holding[s]), <<>>, net[s], Live(s), n, e)
          /\ ~CanWrite(pipe[s]) => Flow(chunk, pipe[s], <<>>, net[s], Live(s), n, e)
          /\ Flow(chunk, pipe[s], <<>>, net[s], FALSE, n, e)
      BY <3>0, <3>1, <2>1
    <3>3. CASE pipe' = [pipe EXCEPT ![s] = IF CanWrite(@) THEN Write(@, holding[s]) ELSE @]
      <4>1. pipe'[s] = IF CanWrite(pipe[s]) THEN Write(pipe[s], holding[s]) ELSE pipe[s]
        BY <3>3 DEF Carried, StreamInv
      <4>2. QED
        BY <3>0, <3>1, <3>2, <4>1 DEF SideFlow
    <3>4. CASE closed[s] /\ UNCHANGED pipe
      <4>1. ~Live(s)'
        BY <3>0, <3>4 DEF Live
      <4>2. Flow(chunk, pipe[s], <<>>, net[s], Live(s)', n, e)
        BY <3>2, <4>1 DEF Flow
      <4>3. QED
        BY <3>0, <3>4, <4>2 DEF SideFlow
    <3>5. QED
      BY <3>3, <3>4 DEF Push
  <2>3. QED
    BY <2>2

(* The receive loop sends its peer neither payloads nor SYN, and leaves    *)
(* the peer's stream alone.                                                *)
<1>6. ASSUME NEW o, IInv(o), NEW s \in Sides, RunTask(s)
      PROVE  LET t == Peer(s) IN
             /\ t \in Sides \ {s} /\ Added(Frames(o), t)
             /\ pipe'[t] = pipe[t] /\ holding'[t] = holding[t] /\ closed'[t] = closed[t] /\ mapped'[t] = mapped[t]
  <2> USE <1>6
  <2> DEFINE t == Peer(s)
  <2>1. t \in Sides \ {s} /\ s \in {"client", "server"} /\ (s = "server" => t = "client")
    BY DEF Peer, Sides
  <2> HIDE DEF t
  <2>2. LinkTypes(o) /\ StreamInv(Parts(o)) /\ holding \in [Sides -> Seq(Parts(o))] /\ net \in [Sides -> Seq(Frames(o))]
        /\ net["client"] \in Seq(DownFrames(o))
    BY DEF IInv, LinkTypes
  <2>3. /\ pipe'[t] = pipe[t] /\ holding'[t] = holding[t] /\ closed'[t] = closed[t] /\ mapped'[t] = mapped[t]
    <3>1. CASE StreamFrames(s)
      BY <2>1, <2>2, <3>1 DEF StreamFrames, ReceiveSyn, ReceivePsh, ReceiveEnd, ReceiveOther, EndStream, streamVars, StreamInv
    <3>2. CASE ControlFrames(s)
      BY <3>2 DEF ControlFrames, ReceiveSettings, ReceiveServerSettings, ReceiveUpdate, ReceiveHeart, ReceiveAlert, streamVars
    <3>3. CASE Push(s) \/ RunEnd(s)
      BY <2>1, <2>2, <3>3 DEF Push, RunEnd, EndStream, StreamInv
    <3>4. QED
      BY <3>1, <3>2, <3>3 DEF RunTask
  <2> SUFFICES Added(Frames(o), t)
    BY <2>1, <2>3 DEF t
  <2>4. /\ Frame("HEARTRESPONSE") \in DownFrames(o) /\ (~o.declares => Frame("ALERT") \in DownFrames(o))
        /\ UpdatePadding(ServerPadding) \in DownFrames(o) /\ ServerSettings(o.v) \in DownFrames(o)
        /\ \A x \in DownFrames(o) : x \in Frames(o)
    BY FrameTypes
  <2>5. /\ Frame("HEARTRESPONSE").cmd = "HEARTRESPONSE" /\ Frame("ALERT").cmd = "ALERT"
        /\ UpdatePadding(ServerPadding).cmd = "UPDATEPADDING" /\ ServerSettings(o.v).cmd = "SERVERSETTINGS"
    BY SMT DEF Frame, UpdatePadding, ServerSettings
  <2>6. CASE net'[t] = net[t]
    BY <2>4, <2>5, <2>6 DEF Added
  <2>7. CASE \E x \in DownFrames(o) : x.cmd \notin {"PSH", "SYN"} /\ net'[t] = Append(net[t], x)
    BY <2>4, <2>7 DEF Added
  <2>8. CASE StreamFrames(s) \/ ControlFrames(s)
    <3>1. net[s] # <<>> /\ Consumed(s) \in [Sides -> Seq(Frames(o))]
      BY <2>2, <2>8, FrameTaken, HeadFacts
    <3>2. Consumed(s)[t] = net[t]
      BY <2>1, <2>2, <3>1 DEF Consumed
    <3>3. CASE net' = Consumed(s)
      BY <2>6, <3>2, <3>3
    <3>4. CASE ReceiveSyn(s) /\ net' # Consumed(s)
      <4>1. s = "server" /\ (o.declares => st["server"].settings)
        <5>1. net[s] # <<>> /\ Head(net[s]).cmd = "SYN"
          BY <3>4 DEF ReceiveSyn, Arrived
        <5>2. s = "server"
          BY <2>2, <5>1, HeadFacts
        <5>3. QED
          BY <5>1, <5>2, SynFacts
      <4>2. ~st["server"].settings /\ net' = [Consumed(s) EXCEPT ![t] = Append(@, Frame("ALERT"))]
        BY <3>4, <4>1 DEF ReceiveSyn, t
      <4>3. net'[t] = Append(net[t], Frame("ALERT"))
        BY <2>1, <3>1, <3>2, <4>2
      <4>4. QED
        BY <2>4, <2>5, <2>7, <4>1, <4>2, <4>3
    <3>5. CASE ReceiveHeart(s) /\ net' # Consumed(s)
      <4>1. Head(net[s]).cmd = "HEARTREQUEST" /\ net' = [Consumed(s) EXCEPT ![t] = @ \o <<Frame("HEARTRESPONSE")>>]
        BY <3>5 DEF ReceiveHeart, Arrived, Reply, t
      <4>2. t = "client"
        BY <2>1, <2>2, <3>1, <4>1, HeadFacts
      <4>3. net'[t] = net[t] \o <<Frame("HEARTRESPONSE")>>
        BY <2>1, <3>1, <3>2, <4>1
      <4>4. net[t] \o <<Frame("HEARTRESPONSE")>> = Append(net[t], Frame("HEARTRESPONSE"))
        BY ZenonT(30), <2>2, <2>4, <4>2, ConcatAppend
      <4>5. QED
        BY <2>4, <2>5, <2>7, <4>3, <4>4
    <3>6. CASE ReceiveSettings(s) /\ net' # Consumed(s)
      <4>1. Head(net[s]).cmd = "SETTINGS"
        BY <3>6 DEF ReceiveSettings, Arrived
      <4>2. s = "server" /\ t = "client" /\ Head(net[s]).v = o.v /\ Head(net[s]).padding = o.padding
            /\ st["server"].padding = ServerPadding
        BY <2>1, <2>2, <3>1, <4>1, HeadFacts DEF LinkTypes
      <4>3. net' = [Consumed(s) EXCEPT ![t] = @ \o SettingsReply(ServerPadding, o.v, o.padding)]
        BY <3>6, <4>2 DEF ReceiveSettings, Reply, t
      <4>4. net'[t] = net[t] \o SettingsReply(ServerPadding, o.v, o.padding) /\ net[t] \in Seq(DownFrames(o))
        BY <2>1, <2>2, <3>1, <3>2, <4>2, <4>3
      <4>5. Replied(o, net[t], net'[t])
        BY <4>4, ReplyCases
      <4>6. CASE net'[t] = Append(Append(net[t], UpdatePadding(ServerPadding)), ServerSettings(o.v))
        BY <2>4, <2>5, <4>6 DEF Added
      <4>7. CASE net'[t] = Append(net[t], ServerSettings(o.v)) \/ net'[t] = Append(net[t], UpdatePadding(ServerPadding))
        BY <2>4, <2>5, <2>7, <4>7
      <4>8. QED
        BY <2>6, <4>5, <4>6, <4>7 DEF Replied
    <3>7. QED
      BY <2>8, <3>3, <3>4, <3>5, <3>6 DEF StreamFrames, ControlFrames, ReceivePsh, ReceiveEnd, ReceiveOther,
         ReceiveServerSettings, ReceiveUpdate, ReceiveAlert
  <2>9. CASE Push(s) \/ RunEnd(s)
    <3>1. net'[t] = net[t]
      BY <2>1, <2>2, <2>9 DEF Push, RunEnd
    <3>2. QED
      BY <2>6, <3>1
  <2>10. QED
    BY <2>8, <2>9 DEF RunTask

(* The receive loop of s moves payloads on. *)
<1>7. ASSUME NEW o, IInv(o), NEW s \in Sides, RunTask(s), NEW n \in Nat, NEW e \in Nat, SideFlow(Chunks, s, n, e)
      PROVE  FlowKept(s, n, e)
  <2> USE <1>7
  <2> DEFINE U == Parts(o)
             F == Frames(o)
             q == net[s]
  <2>1. Carried(U, F)
    BY CarriedHolds
  <2>2. /\ net \in [Sides -> Seq(F)] /\ StreamInv(U) /\ SynBehind(q) /\ q \in Seq(F) /\ holding \in [Sides -> Seq(U)]
        /\ pipe[s] \in Pipe(U) /\ Proper(pipe[s])
    BY <2>1 DEF Carried, StreamInv
  <2>3. \A k \in Nat : Chunks[k] # <<>>
    BY ChunkFacts
  <2> HIDE DEF U, F
  <2>4. CASE ReceivePsh(s)
    <3>1. SideFlow(Chunks, s, n, e)'
      BY <2>1, <2>3, <2>4, <1>3
    <3>2. QED
      BY <2>4, <3>1 DEF ReceivePsh, streamVars, FlowKept
  <2>5. CASE ReceiveEnd(s) \/ RunEnd(s)
    <3>1. PICK kind \in {"eof", "error"} : EndStream(s, kind) /\ holding' = holding
      BY <2>5 DEF ReceiveEnd, RunEnd
    <3>2. ~Pending(net'[s])
      <4>1. CASE ReceiveEnd(s)
        <5>1. q # <<>> /\ net'[s] = Tail(q) /\ Head(q).cmd \notin Before
          BY <2>2, <4>1 DEF ReceiveEnd, Arrived, Consumed, Before
        <5>2. QED
          BY <2>2, <5>1, SynTail
      <4>2. CASE RunEnd(s)
        <5>1. net'[s] = <<>>
          BY <2>2, <4>2 DEF RunEnd
        <5>2. ~Pending(<<>>)
          BY SMT DEF Pending
        <5>3. QED
          BY <5>1, <5>2
      <4>3. QED
        BY <2>5, <4>1, <4>2
    <3>3. SideFlow(Chunks, s, n, e)'
      BY <2>1, <3>1, <3>2, <1>4
    <3>4. FinishStream(pipe[s], kind).buffer = pipe[s].buffer
      BY <2>2, FinishFacts
    <3>5. pipe'[s].buffer = pipe[s].buffer /\ (closed[s] => closed'[s])
      BY <2>2, <3>1, <3>4 DEF EndStream, StreamInv
    <3>6. QED
      BY <3>3, <3>5 DEF FlowKept
  <2>6. CASE Push(s)
    <3>1. SideFlow(Chunks, s, n, e)'
      BY <2>1, <2>6, <1>5
    <3>2. Write(pipe[s], holding[s]).buffer = pipe[s].buffer
      <4>1. holding[s] \in Seq(U) /\ holding[s] # <<>>
        BY <2>2, <2>6 DEF Push
      <4>2. QED
        BY <2>2, <4>1, WriteFacts
    <3>3. pipe'[s].buffer = pipe[s].buffer /\ closed' = closed
      BY <2>2, <2>6, <3>2 DEF Push, StreamInv
    <3>4. QED
      BY <3>1, <3>3 DEF FlowKept
  <2>7. CASE ReceiveSyn(s) \/ ReceiveOther(s) \/ ControlFrames(s)
    <3>1. q # <<>> /\ net'[s] = Tail(q)
      BY <2>2, <2>7, FrameTaken DEF StreamFrames
    <3>2. Head(q).cmd # "PSH"
      BY <2>7 DEF ReceiveSyn, ReceiveOther, ControlFrames, ReceiveSettings, ReceiveServerSettings, ReceiveUpdate,
         ReceiveHeart, ReceiveAlert, Arrived
    <3>3. UNCHANGED <<pipe, holding, closed>>
      BY <2>7 DEF ReceiveSyn, ReceiveOther, ControlFrames, ReceiveSettings, ReceiveServerSettings, ReceiveUpdate,
         ReceiveHeart, ReceiveAlert, streamVars
    <3>4. mapped'[s] => mapped[s] \/ Head(q).cmd = "SYN"
      <4>1. CASE ReceiveSyn(s)
        BY <4>1 DEF ReceiveSyn, Arrived
      <4>2. CASE ReceiveOther(s) \/ ControlFrames(s)
        BY <4>2 DEF ReceiveOther, ControlFrames, ReceiveSettings, ReceiveServerSettings, ReceiveUpdate,
         ReceiveHeart, ReceiveAlert, streamVars
      <4>3. QED
        BY <2>7, <4>1, <4>2
    <3>5. SideFlow(Chunks, s, n, e)'
      BY <2>1, <3>1, <3>2, <3>3, <3>4, <1>2
    <3>6. QED
      BY <3>3, <3>5 DEF FlowKept
  <2>8. QED
    BY <2>4, <2>5, <2>6, <2>7 DEF RunTask, StreamFrames

<1>8. ASSUME NEW o, IInv(o), Around, NEW t \in Sides, NEW n \in Nat, NEW e \in Nat, SideFlow(Chunks, t, n, e)
      PROVE  FlowKept(t, n, e)
  <2> USE <1>8
  <2> DEFINE U == Parts(o)
             F == Frames(o)
  <2>1. Carried(U, F)
    BY CarriedHolds
  <2>2. /\ net \in [Sides -> Seq(F)] /\ StreamInv(U) /\ holding \in [Sides -> Seq(U)] /\ pipe[t] \in Pipe(U) /\ Proper(pipe[t])
        /\ "client" \in Sides /\ "server" \in Sides /\ "client" # "server" /\ t \in {"client", "server"}
    BY <2>1 DEF Carried, StreamInv, Sides
  <2>3. ASSUME NEW s \in Sides, Receiver(s)
        PROVE  FlowKept(t, n, e)
    <3>1. RunTask(s)
      BY <2>3 DEF Receiver
    <3>2. CASE t = s
      BY <3>1, <3>2, <1>7
    <3>3. CASE t # s
      <4>1. t = Peer(s)
        BY SMT, <3>3 DEF Peer, Sides
      <4>2. /\ Added(F, t) /\ pipe'[t] = pipe[t] /\ holding'[t] = holding[t] /\ closed'[t] = closed[t] /\ mapped'[t] = mapped[t]
        BY <3>1, <4>1, <1>6
      <4>3. SideFlow(Chunks, t, n, e)'
        BY <2>1, <4>2, SideAdded
      <4>4. QED
        BY <4>2, <4>3 DEF FlowKept
    <3>4. QED
      BY <3>2, <3>3
  <2>4. ASSUME NEW s \in Sides, Spawned(s)
        PROVE  FlowKept(t, n, e)
    <3>1. UNCHANGED <<net, holding, closed, mapped>> /\ (pipe' = pipe \/ ClosePipe(s))
      BY <2>4 DEF Spawned, SpawnedTask, WriterEnd, ClosePipe, linkVars, streamVars
    <3>2. CASE pipe'[t] = pipe[t]
      BY <3>1, <3>2, SideAlone DEF FlowKept
    <3>3. CASE ClosePipe(s) /\ t # s
      BY <2>2, <3>2, <3>3 DEF ClosePipe, StreamInv
    <3>4. CASE ClosePipe(s) /\ t = s
      <4>1. SideFlow(Chunks, t, n, e)'
        BY <2>1, <3>1, <3>4, SideClose
      <4>2. pipe'[t] = CloseWithError(pipe[t]) /\ CloseWithError(pipe[t]).buffer = pipe[t].buffer
        BY <2>2, <3>4, CloseFacts DEF ClosePipe, StreamInv
      <4>3. QED
        BY <3>1, <4>1, <4>2 DEF FlowKept
    <3>5. QED
      BY <3>1, <3>2, <3>3, <3>4
  <2>5. CASE Lose \/ Deny \/ UNCHANGED vars
    <3>1. UNCHANGED <<net, holding, pipe, closed, mapped>>
      BY <2>5 DEF Lose, LoseLink, Deny, DenyUser, vars, streamVars, linkVars
    <3>2. QED
      BY <3>1, SideAlone DEF FlowKept
  <2>6. CASE HangUp
    <3>1. /\ UNCHANGED <<holding, pipe, closed, mapped>> /\ net' = [net EXCEPT !["server"] = <<>>] /\ run["server"] = "ended"
      BY <2>6 DEF HangUp, streamVars
    <3>2. CASE t = "client"
      BY <2>2, <3>1, <3>2, SideAlone DEF FlowKept
    <3>3. CASE t = "server"
      <4>1. ~mapped["server"] /\ net'["server"] = <<>>
        BY <2>2, <3>1 DEF IInv, SideInv
      <4>2. ~Pending(<<>>)
        BY SMT DEF Pending
      <4>3. ~Live(t)'
        BY <3>1, <3>3, <4>1, <4>2 DEF Live
      <4>4. Flow(Chunks, pipe[t], holding[t], net[t], Live(t), n, e)
        BY DEF SideFlow
      <4>5. Flow(Chunks, pipe'[t], holding'[t], net'[t], Live(t)', n, e)
        BY <3>1, <4>3, <4>4 DEF Flow
      <4>6. QED
        BY <3>1, <4>5 DEF FlowKept, SideFlow
    <3>4. QED
      BY <2>2, <3>2, <3>3
  <2>7. QED
    BY <2>3, <2>4, <2>5, <2>6 DEF Around
<1>9. QED
  BY <1>8

(* A task leaves what its stream has as it is, unless it reads. *)
Keeps(s) ==
  \/ UNCHANGED <<closed, mapped, pipe>>
  \/ CloseStream(s) /\ UNCHANGED pipe
  \/ Leave(s) /\ UNCHANGED <<closed, mapped>>

(* Then the payloads to it stay as they are. *)
LEMMA TaskFlow ==
  ASSUME NEW o, IInv(o), NEW s \in Sides, TaskStep(o, s), Keeps(s), NEW n \in Nat, NEW e \in Nat, SideFlow(Chunks, s, n, e)
  PROVE  SideFlow(Chunks, s, n, e)'
<1>1. Carried(Parts(o), Frames(o)) /\ net'[s] = net[s] /\ holding' = holding
  BY CarriedHolds, TaskSides DEF TaskStep
<1>2. CASE UNCHANGED <<closed, mapped, pipe>>
  BY <1>1, <1>2, SideAlone
<1>3. CASE (CloseStream(s) /\ UNCHANGED pipe) \/ (Leave(s) /\ UNCHANGED <<closed, mapped>>)
  BY <1>1, <1>3, SideClose
<1>4. QED
  BY <1>2, <1>3 DEF Keeps

(* What a task sends to its peer: the next payload, or another frame. *)
LEMMA SendFlow ==
  ASSUME NEW o, IInv(o), NEW s \in Sides, TaskStep(o, s), NEW n \in Nat, NEW e \in Nat, SideFlow(Chunks, Peer(s), n, e)
  PROVE  /\ net'[Peer(s)] = net[Peer(s)] => SideFlow(Chunks, Peer(s), n, e)'
         /\ \A x \in Sent(o) : x.cmd # "PSH" /\ net'[Peer(s)] = Append(net[Peer(s)], x) => SideFlow(Chunks, Peer(s), n, e)'
         /\ \A units \in Seq(Parts(o)) : units = Chunks[e] /\ net'[Peer(s)] = Append(net[Peer(s)], Psh(units)) =>
              SideFlow(Chunks, Peer(s), n, e + 1)'
         /\ pipe'[Peer(s)] = pipe[Peer(s)] /\ closed'[Peer(s)] = closed[Peer(s)]
<1> DEFINE t == Peer(s)
<1>1. t \in Sides /\ pipe'[t] = pipe[t] /\ closed'[t] = closed[t] /\ mapped'[t] = mapped[t] /\ holding' = holding
  BY TaskSides DEF TaskStep
<1>2. Carried(Parts(o), Frames(o)) /\ SideFlow(Chunks, t, n, e)
  BY CarriedHolds
<1> HIDE DEF t
<1>3. net'[t] = net[t] => SideFlow(Chunks, t, n, e)'
  BY <1>1, <1>2, SideAlone
<1>4. ASSUME NEW x \in Sent(o), x.cmd # "PSH", net'[t] = Append(net[t], x)
      PROVE  SideFlow(Chunks, t, n, e)'
  <2>1. x \in Frames(o) /\ x.cmd \notin {"PSH", "SYN"}
    BY <1>4, FrameTypes
  <2>2. Added(Frames(o), t)
    BY <1>4, <2>1 DEF Added
  <2>3. QED
    BY <1>1, <1>2, <2>2, SideAdded
<1>5. ASSUME NEW units \in Seq(Parts(o)), units = Chunks[e], net'[t] = Append(net[t], Psh(units))
      PROVE  SideFlow(Chunks, t, n, e + 1)'
  <2>1. Psh(units) \in Frames(o)
    BY FrameTypes
  <2>2. Psh(units).cmd = "PSH" /\ Psh(units).units = units
    BY SMT DEF Psh
  <2>3. QED
    BY <1>1, <1>2, <1>5, <2>1, <2>2, SideSent
<1>6. QED
  BY <1>1, <1>3, <1>4, <1>5 DEF t

-----------------------------------------------------------------------------
(* What goes up.                                                           *)

(* What the application has sent is what comes next on the stream: the     *)
(* sentinel, the request, then the packets.                                *)
UpEnd(e) ==
  /\ assoc \in {"dest", "request"} => appSent = 0
  /\ ~lost /\ ~closed["client"] =>
       (assoc = "dest" => e = 0) /\ (assoc = "request" => e = 1) /\ (assoc = "select" => e = appSent + 2)

(* The server takes the payloads in this order, and nothing of one is left *)
(* when it begins the next.                                                *)
Clear(s) == partial[s] = <<>> /\ pipe[s].buffer = <<>>
Half(s, i) == partial[s] = <<<<i, 1>>>> /\ pipe[s].buffer = <<<<i, 2>>>>
Opens == hand \in {"new", "dest"} \/ (hand = "check" /\ ~closed["server"])
UpPhase(n) ==
  /\ \A i \in 1 .. Len(destGot) : destGot[i] = i
  /\ (Opens => n = 0) /\ (hand = "request" => n = 1) /\ (hand = "bind" => n = 2)
  /\ Opens \/ hand \in {"request", "bind"} => destGot = <<>> /\ Clear("server")
  /\ hand = "relay" =>
       \/ Clear("server") /\ n = Len(destGot) + 2
       \/ Half("server", Len(destGot) + 1) /\ n = Len(destGot) + 3
UpAt(n, e) == SideFlow(Chunks, "server", n, e) /\ UpEnd(e) /\ (torn["server"] \/ UpPhase(n))
UpOrder == \E n, e \in Nat : UpAt(n, e)

(* The steps besides those of the tasks leave the packets alone. *)
LEMMA AroundTasks ==
  ASSUME NEW o, IInv(o), Around
  PROVE  /\ UNCHANGED <<assoc, partial, torn, appSent, appGot, destSent, destGot>> /\ (lost => lost')
         /\ \A t \in Sides : closed[t] => closed'[t]
         /\ hand' = hand \/ (hand = "new" /\ hand' = "check")
<1>1. LinkTypes(o) /\ StreamInv(Parts(o)) /\ closed \in [Sides -> BOOLEAN]
  BY DEF IInv, StreamInv
<1>2. CASE Lose \/ Deny \/ HangUp \/ UNCHANGED vars
  <2>1. UNCHANGED <<assoc, partial, torn, appSent, appGot, destSent, destGot, closed, hand>>
    BY <1>2 DEF Lose, LoseLink, Deny, DenyUser, HangUp, vars, streamVars, handVars, udpVars
  <2>2. lost => lost'
    BY <1>2 DEF Lose, LoseLink, Deny, DenyUser, HangUp, vars, linkVars
  <2>3. QED
    BY <2>1, <2>2
<1>3. ASSUME NEW s \in Sides, Spawned(s)
      PROVE  UNCHANGED <<lost, closed, hand>> /\ UNCHANGED udpVars
  BY <1>3 DEF Spawned, SpawnedTask, WriterEnd, ClosePipe, linkVars, handVars, streamVars
<1>4. ASSUME NEW s \in Sides, Receiver(s)
      PROVE  /\ UNCHANGED udpVars /\ lost' = lost /\ (\A t \in Sides : closed[t] => closed'[t])
             /\ hand' = hand \/ (hand = "new" /\ hand' = "check")
  <2>1. UNCHANGED udpVars /\ (StreamFrames(s) \/ ControlFrames(s) \/ Push(s) \/ RunEnd(s))
    BY <1>4 DEF Receiver, RunTask
  <2>2. CASE ReceiveSyn(s)
    <3>1. net[s] # <<>> /\ Head(net[s]).cmd = "SYN" /\ (hand' = "check" \/ hand' = hand) /\ UNCHANGED <<closed, lost>>
      BY <2>2 DEF ReceiveSyn, Arrived
    <3>2. s = "server"
      BY <1>1, <3>1, HeadFacts
    <3>3. hand = "new"
      BY <3>1, <3>2, SynFacts
    <3>4. QED
      BY <2>1, <3>1, <3>3
  <2>3. CASE ReceivePsh(s) \/ ReceiveOther(s) \/ ControlFrames(s) \/ Push(s)
    BY <2>1, <2>3 DEF ReceivePsh, ReceiveOther, ControlFrames, ReceiveSettings, ReceiveServerSettings, ReceiveUpdate,
       ReceiveHeart, ReceiveAlert, Push, streamVars, handVars
  <2>4. CASE ReceiveEnd(s) \/ RunEnd(s)
    <3>1. closed' = [closed EXCEPT ![s] = @ \/ mapped[s]] /\ UNCHANGED <<lost, hand>>
      BY <2>4 DEF ReceiveEnd, RunEnd, EndStream, handVars
    <3>2. QED
      BY <1>1, <2>1, <3>1
  <2>5. QED
    BY <2>1, <2>2, <2>3, <2>4 DEF StreamFrames
<1>5. QED
  BY <1>2, <1>3, <1>4 DEF Around, udpVars

(* What the client's task leaves alone. *)
LEMMA ClientLeaves ==
  ASSUME NEW o, IInv(o), RelayTypes(o), CliTask \/ CliUp \/ CliEnd \/ CliBreak
  PROVE  UNCHANGED <<hand, destGot, destSent, lost>> /\ torn'["server"] = torn["server"] /\ partial'["server"] = partial["server"]
<1>1. torn \in [Sides -> BOOLEAN] /\ partial \in [Sides -> Seq(Parts(o))] /\ "server" \in Sides /\ "server" # "client"
  BY DEF RelayTypes, Sides
<1>2. CASE CliRequest \/ CliClose \/ CliFin \/ CliWait \/ CliEnd \/ CliBreak
  BY <1>2 DEF CliRequest, CliClose, CliFin, CliWait, CliEnd, CliBreak, handVars, udpVars, linkVars
<1>3. CASE CliRead
  <2>1. UNCHANGED <<hand, destGot, destSent, lost, torn>>
        /\ (partial' = partial \/ \E x : partial' = [partial EXCEPT !["client"] = x])
    BY <1>3 DEF CliRead, TakePart, handVars, linkVars
  <2>2. QED
    BY <1>1, <2>1
<1>4. CASE CliUp
  <2>1. UNCHANGED <<hand, destGot, destSent, lost>> /\ Overtake("client")
    BY <1>4 DEF CliUp, handVars
  <2>2. QED
    BY <1>1, <2>1 DEF Overtake
<1>5. QED
  BY <1>2, <1>3, <1>4 DEF CliTask

(* The two parts of a packet make up its datagram. *)
LEMMA DatagramWhole ==
  ASSUME NEW i
  PROVE  /\ Append(<<<<i, 1>>>>, <<i, 2>>) = Packet(i) /\ Datagram(Packet(i)) = i
         /\ Append(<<>>, <<i, 1>>) = <<<<i, 1>>>> /\ <<<<i, 1>>>> # <<>> /\ Head(<<<<i, 2>>>>) = <<i, 2>> /\ Tail(<<<<i, 2>>>>) = <<>>
<1>1. Append(<<<<i, 1>>>>, <<i, 2>>) = Packet(i)
  <2>1. ASSUME NEW x, NEW y
        PROVE  Append(<<x>>, y) = <<x, y>>
    <3>1. Append(<<x>>, y) \in Seq({x, y}) /\ <<x, y>> \in Seq({x, y}) /\ Len(Append(<<x>>, y)) = 2 /\ Len(<<x, y>>) = 2
      BY SMT
    <3>2. Append(<<x>>, y)[1] = x /\ Append(<<x>>, y)[2] = y /\ <<x, y>>[1] = x /\ <<x, y>>[2] = y
      BY SMT
    <3>3. \A j \in 1 .. 2 : j = 1 \/ j = 2
      BY SMT
    <3>4. \A j \in 1 .. Len(Append(<<x>>, y)) : Append(<<x>>, y)[j] = <<x, y>>[j]
      BY <3>1, <3>2, <3>3
    <3>5. QED
      BY <3>1, <3>4, SameElements
  <2>2. QED
    BY <2>1 DEF Packet
<1>2. Packet(i)[1][1] = i
  BY SMT DEF Packet
<1>3. Datagram(Packet(i)) = i
  BY <1>2 DEF Datagram
<1>4. /\ Append(<<>>, <<i, 1>>) = <<<<i, 1>>>> /\ <<<<i, 1>>>> # <<>>
      /\ Head(<<<<i, 2>>>>) = <<i, 2>> /\ Tail(<<<<i, 2>>>>) = <<>>
  BY SMT
<1>5. QED
  BY <1>1, <1>3, <1>4

(* What the server's task leaves alone. *)
LEMMA ServerLeaves ==
  ASSUME NEW o, IInv(o), RelayTypes(o), SrvTask \/ SrvTickApproved \/ SrvDown \/ SrvError
  PROVE  /\ UNCHANGED <<assoc, appSent, appGot, lost>> /\ torn'["client"] = torn["client"]
         /\ partial'["client"] = partial["client"] /\ (torn["server"] => torn'["server"])
<1>1. /\ torn \in [Sides -> BOOLEAN] /\ partial \in [Sides -> Seq(Parts(o))]
      /\ "server" \in Sides /\ "client" \in Sides /\ "server" # "client"
  BY DEF RelayTypes, Sides
<1>2. CASE ((HandCheck \/ HandClose \/ HandFin) /\ UNCHANGED udpVars) \/ SrvWait \/ SrvOpen
  BY <1>2 DEF HandCheck, HandClose, HandFin, SrvWait, SrvOpen, udpVars, linkVars
<1>3. CASE SrvBind \/ SrvError
  BY <1>3 DEF SrvBind, SrvError, linkVars
<1>4. CASE SrvTick \/ SrvTickApproved \/ SrvDown
  <2>1. UNCHANGED <<assoc, appSent, appGot, lost>> /\ Overtake("server")
    BY <1>4 DEF SrvTick, SrvTickApproved, SrvDown, linkVars
  <2>2. QED
    BY <1>1, <2>1 DEF Overtake
<1>5. CASE SrvRead
  <2>1. /\ UNCHANGED <<assoc, appSent, appGot, lost, torn>>
        /\ partial' = partial \/ \E x : partial' = [partial EXCEPT !["server"] = x]
    BY <1>5 DEF SrvRead, TakePart, linkVars
  <2>2. QED
    BY <1>1, <2>1
<1>6. QED
  BY <1>2, <1>3, <1>4, <1>5 DEF SrvTask

(* The steps of the server's task that read nothing. *)
SrvKeeps ==
  \/ (HandCheck \/ HandClose \/ HandFin) /\ UNCHANGED udpVars
  \/ SrvWait \/ SrvBind \/ SrvTick \/ SrvTickApproved \/ SrvDown \/ SrvError

(* Every step keeps the order of what goes up. *)
LEMMA UpNext ==
  \A o : IInv(o) /\ RelayTypes(o) /\ UpOrder /\ [Next]_vars => UpOrder'
(* They keep the order of what goes up. *)
<1>1. ASSUME NEW o, IInv(o), Around, NEW n \in Nat, NEW e \in Nat, UpAt(n, e)
      PROVE  UpAt(n, e)'
  <2> USE <1>1
  <2>1. /\ UNCHANGED <<assoc, partial, torn, appSent, appGot, destSent, destGot>> /\ (lost => lost')
        /\ \A t \in Sides : closed[t] => closed'[t]
        /\ hand' = hand \/ (hand = "new" /\ hand' = "check")
    BY AroundTasks
  <2>2. "client" \in Sides /\ "server" \in Sides
    BY SMT DEF Sides
  <2>3. SideFlow(Chunks, "server", n, e)' /\ pipe'["server"].buffer = pipe["server"].buffer
    BY <2>2, AroundFlow DEF UpAt, FlowKept
  <2>4. UpEnd(e)'
    BY <2>1, <2>2 DEF UpAt, UpEnd
  <2>5. UpPhase(n) => UpPhase(n)'
    <3>1. /\ Opens' => Opens
          /\ hand' = "request" => hand = "request"
          /\ hand' = "bind" => hand = "bind"
          /\ hand' = "relay" => hand = "relay"
      BY <2>1, <2>2 DEF Opens
    <3>2. /\ Clear("server") => Clear("server")'
          /\ \A i : Half("server", i) => Half("server", i)'
      BY <2>1, <2>3 DEF Clear, Half
    <3>3. QED
      BY <2>1, <3>1, <3>2 DEF UpPhase
  <2>6. QED
    BY <2>1, <2>3, <2>4, <2>5 DEF UpAt

(* The client's task sends the payloads in their order. *)
<1>2. ASSUME NEW o, IInv(o), CliTask \/ CliUp \/ CliEnd \/ CliBreak,
             NEW n \in Nat, NEW e \in Nat, SideFlow(Chunks, "server", n, e), UpEnd(e)
      PROVE  \E e2 \in Nat : SideFlow(Chunks, "server", n, e2)' /\ UpEnd(e2)'
  <2> USE <1>2
  <2>1. TaskStep(o, "client") /\ "client" \in Sides /\ Peer("client") = "server" /\ lost' = lost
    BY CliSteps DEF Sides, Peer, TaskStep
  <2>2. /\ net'["server"] = net["server"] => SideFlow(Chunks, "server", n, e)'
        /\ \A x \in Sent(o) : x.cmd # "PSH" /\ net'["server"] = Append(net["server"], x) => SideFlow(Chunks, "server", n, e)'
        /\ \A units \in Seq(Parts(o)) : units = Chunks[e] /\ net'["server"] = Append(net["server"], Psh(units)) =>
             SideFlow(Chunks, "server", n, e + 1)'
    BY <2>1, SendFlow
  <2>3. \A x : Send("client", x) => (lost /\ net'["server"] = net["server"]) \/ (~lost /\ net'["server"] = Append(net["server"], x))
    <3>1. net \in [Sides -> Seq(Frames(o))] /\ "server" \in Sides
      BY DEF IInv, LinkTypes, Sides
    <3>2. QED
      BY <2>1, <3>1 DEF Send
  <2>4. CASE net'["server"] = net["server"] /\ UpEnd(e)'
    BY <2>2, <2>4
  <2>5. CASE CliRequest
    <3>1. appSent' = appSent /\ appSent = 0 /\ closed' = closed /\ assoc \in {"dest", "request"}
      BY <2>5 DEF CliRequest, UpEnd, streamVars
    <3>2. CASE ~Usable("client")
      <4>1. assoc' = "close" /\ net' = net
        BY <2>5, <3>2 DEF CliRequest
      <4>2. QED
        BY <2>4, <4>1 DEF UpEnd
    <3>3. CASE Usable("client")
      <4> DEFINE units == IF assoc = "dest" THEN Sentinel ELSE Request
      <4>1. Send("client", Psh(units)) /\ assoc' = IF assoc = "dest" THEN "request" ELSE "select"
        BY <2>5, <3>3 DEF CliRequest
      <4>2. units \in Seq(Parts(o))
        <5>1. o \in Openings
          BY DEF IInv
        <5>2. QED
          BY <5>1, PacketTypes
      <4>3. CASE lost
        <5>1. UpEnd(e)'
          BY <2>1, <3>1, <4>3 DEF UpEnd
        <5>2. QED
          BY <2>3, <2>4, <4>1, <4>3, <5>1
      <4>4. CASE ~lost
        <5>1. ~closed["client"] /\ (assoc = "dest" => e = 0) /\ (assoc = "request" => e = 1)
          BY <3>3, <4>4 DEF Usable, UpEnd
        <5>2. units = Chunks[e]
          BY <3>1, <5>1, ChunkFacts
        <5> HIDE DEF units
        <5>3. SideFlow(Chunks, "server", n, e + 1)'
          BY <2>2, <2>3, <4>1, <4>2, <4>4, <5>2
        <5>4. e + 1 \in Nat /\ (assoc = "dest" => e + 1 = 1) /\ (assoc = "request" => e + 1 = 0 + 2)
          BY SMT, <5>1
        <5>5. UpEnd(e + 1)'
          <6>1. (assoc = "dest" /\ assoc' = "request" /\ e + 1 = 1)
                \/ (assoc = "request" /\ assoc' = "select" /\ e + 1 = appSent' + 2)
            BY <3>1, <4>1, <5>4
          <6>2. QED
            BY <3>1, <6>1 DEF UpEnd
        <5>6. QED
          BY <5>3, <5>4, <5>5
      <4>5. QED
        BY <4>3, <4>4
    <3>4. QED
      BY <3>2, <3>3
  <2>6. CASE CliUp
    <3>1. appSent' = appSent + 1 /\ closed' = closed /\ assoc = "select"
      BY <2>6 DEF CliUp
    <3>2. CASE ~Usable("client")
      <4>1. assoc' = "dropped" /\ net' = net
        BY <2>6, <3>2 DEF CliUp
      <4>2. QED
        BY <2>4, <4>1 DEF UpEnd
    <3>3. CASE Usable("client")
      <4>1. Send("client", Psh(Packet(appSent + 1))) /\ assoc' = "select"
        BY <2>6, <3>1, <3>3 DEF CliUp
      <4>2. Packet(appSent + 1) \in Seq(Parts(o))
        <5>1. o \in Openings /\ Counts(o) /\ Counts(o)'
          BY CliSteps DEF IInv, TasksMove
        <5>2. appSent + 1 \in 0 .. o.packets
          <6>1. o.packets \in Nat
            BY <5>1, PacketTypes
          <6>2. QED
            BY SMTT(30), <3>1, <5>1, <6>1 DEF Counts
        <5>3. QED
          BY <5>1, <5>2, PacketTypes
      <4>3. CASE lost
        <5>1. UpEnd(e)'
          BY <2>1, <4>1, <4>3 DEF UpEnd
        <5>2. QED
          BY <2>3, <2>4, <4>1, <4>3, <5>1
      <4>4. CASE ~lost
        <5>1. e = appSent + 2 /\ appSent \in Nat
          BY <3>1, <3>3, <4>4 DEF Usable, UpEnd, IInv, Counts
        <5>2. Packet(appSent + 1) = Chunks[e]
          BY <5>1, ChunkFacts
        <5>3. SideFlow(Chunks, "server", n, e + 1)'
          BY <2>2, <2>3, <4>1, <4>2, <4>4, <5>2
        <5>4. e + 1 \in Nat /\ e + 1 = (appSent + 1) + 2
          BY SMT, <5>1
        <5>5. UpEnd(e + 1)'
          BY <3>1, <4>1, <5>4 DEF UpEnd
        <5>6. QED
          BY <5>3, <5>4, <5>5
      <4>5. QED
        BY <4>3, <4>4
    <3>4. QED
      BY <3>2, <3>3
  <2>7. CASE CliFin
    <3>1. UpEnd(e)'
      BY <2>7 DEF CliFin, UpEnd
    <3>2. net' = net \/ Send("client", Frame("FIN"))
      BY <2>7 DEF CliFin, SendFin
    <3>3. Frame("FIN") \in Sent(o)
      BY FrameTypes
    <3>4. Frame("FIN").cmd # "PSH"
      BY SMT DEF Frame
    <3>5. QED
      BY <2>2, <2>3, <2>4, <3>1, <3>2, <3>3, <3>4
  <2>8. CASE CliClose \/ CliEnd \/ CliBreak
    <3>1. net' = net /\ assoc' \in {"done", "fin", "close", "dropped"}
      BY <2>8 DEF CliClose, CliEnd, CliBreak, linkVars
    <3>2. QED
      BY <2>4, <3>1 DEF UpEnd
  <2>9. CASE CliWait \/ CliRead
    <3>1. net' = net /\ closed' = closed /\ appSent' = appSent /\ assoc = "select" /\ (assoc' = assoc \/ assoc' = "dropped")
      BY <2>9 DEF CliWait, CliRead, linkVars, udpVars
    <3>2. QED
      BY <2>1, <2>4, <3>1 DEF UpEnd
  <2>10. QED
    BY <2>5, <2>6, <2>7, <2>8, <2>9 DEF CliTask

(* The server's task takes what goes up in its order. *)
<1>3. \A o : IInv(o) /\ RelayTypes(o) /\ (SrvTask \/ SrvTickApproved \/ SrvDown \/ SrvError) =>
        \A n, e \in Nat : UpAt(n, e) => UpOrder'
    (* Once the handler has left its relay, the order is what it was. *)
  <2>1. ASSUME NEW n, UpPhase(n), destGot' = destGot, hand' \in {"fin", "done", "close"} \/ (hand' = "check" /\ closed'["server"])
        PROVE  UpPhase(n)'
    <3> USE <2>1
    <3>1. ~Opens' /\ hand' \notin {"request", "bind", "relay"}
      BY DEF Opens
    <3>2. QED
      BY <3>1 DEF UpPhase

  (* The handler reads the sentinel and the request. *)
  <2>2. ASSUME NEW o, IInv(o), SrvOpen, NEW n \in Nat, NEW e \in Nat, SideFlow(Chunks, "server", n, e),
               torn["server"] \/ UpPhase(n)
        PROVE  \E m \in Nat : SideFlow(Chunks, "server", m, e)' /\ (torn["server"] \/ UpPhase(m))'
    <3> USE <2>2
    <3>1. /\ hand \in {"dest", "request"} /\ TakeAnswer("server", 1)
          /\ UNCHANGED <<closed, mapped, net, holding, torn, destGot, partial>>
          /\ hand' = IF Answer("server", 1).kind # "data" THEN "done" ELSE IF hand = "dest" THEN "request" ELSE "bind"
      BY DEF SrvOpen, linkVars, udpVars
    <3>2. Carried(Parts(o), Frames(o)) /\ fut["server"] \in {0, 1} /\ "server" \in Sides
      BY CarriedHolds DEF IInv, Sides
    <3>3. \/ FromBuffer("server") /\ SideFlow(Chunks, "server", n, e)'
          \/ FromNext(Chunks, "server", n) /\ SideFlow(Chunks, "server", n + 1, e)'
          \/ FromEnd("server") /\ SideFlow(Chunks, "server", n, e)'
      BY <3>1, <3>2, SideRead
    <3>4. n + 1 \in Nat
      BY SMT
    <3>5. CASE torn["server"]
      BY <3>1, <3>3, <3>4, <3>5
    <3>6. CASE UpPhase(n)
      <4>1. Clear("server") /\ (hand = "dest" => n = 0) /\ (hand = "request" => n = 1) /\ destGot = <<>>
        BY <3>1, <3>6 DEF UpPhase, Opens
      <4>2. ~FromBuffer("server")
        BY <4>1 DEF FromBuffer, Clear
      <4>3. CASE FromEnd("server") /\ SideFlow(Chunks, "server", n, e)'
        <5>1. hand' = "done"
          BY <3>1, <4>3 DEF FromEnd
        <5>2. QED
          BY <3>1, <3>6, <4>3, <5>1, <2>1
      <4>4. CASE FromNext(Chunks, "server", n) /\ SideFlow(Chunks, "server", n + 1, e)'
        <5>1. pipe'["server"].buffer = Tail(Chunks[n]) /\ Answer("server", 1).kind = "data"
          BY <4>4 DEF FromNext
        <5>2. Tail(Chunks[n]) = <<>>
          BY <3>1, <4>1, ChunkFacts
        <5>3. Clear("server")'
          BY <3>1, <4>1, <5>1, <5>2 DEF Clear
        <5>4. (hand' = "request" /\ n + 1 = 1) \/ (hand' = "bind" /\ n + 1 = 2)
          BY SMTT(30), <3>1, <4>1, <5>1
        <5>5. ~Opens' /\ \A i \in 1 .. Len(destGot) : destGot[i] = i
          BY <3>6, <5>4 DEF Opens, UpPhase
        <5>6. UpPhase(n + 1)'
          BY <3>1, <4>1, <5>3, <5>4, <5>5 DEF UpPhase
        <5>7. QED
          BY <3>4, <4>4, <5>6
      <4>5. QED
        BY <3>3, <4>2, <4>3, <4>4
    <3>7. QED
      BY <3>5, <3>6

  (* The relay reads the two parts of each packet. *)
  <2>3. ASSUME NEW o, IInv(o), RelayTypes(o), SrvRead, NEW n \in Nat, NEW e \in Nat, SideFlow(Chunks, "server", n, e),
               torn["server"] \/ UpPhase(n)
        PROVE  \E m \in Nat : SideFlow(Chunks, "server", m, e)' /\ (torn["server"] \/ UpPhase(m))'
    <3> USE <2>3
    <3> DEFINE a == Answer("server", 1)
               d == Len(destGot)
    <3>1. /\ hand = "relay" /\ TakeAnswer("server", 1) /\ UNCHANGED <<closed, mapped, net, holding, torn>>
          /\ \/ a.kind # "data" /\ hand' = "check" /\ destGot' = destGot
             \/ a.kind = "data" /\ hand' = "done" /\ destGot' = destGot
             \/ /\ a.kind = "data" /\ TakePart("server", a.units[1]) /\ hand' = hand
                /\ destGot' = IF Completes("server")
                              THEN Append(destGot, Datagram(Append(partial["server"], a.units[1]))) ELSE destGot
      BY DEF SrvRead, linkVars
    <3>2. /\ Carried(Parts(o), Frames(o)) /\ fut["server"] \in {0, 1} /\ "server" \in Sides /\ destGot \in Seq(0 .. o.packets)
          /\ partial \in [Sides -> Seq(Parts(o))]
      BY CarriedHolds DEF IInv, Sides, RelayTypes
    <3>3. \/ FromBuffer("server") /\ SideFlow(Chunks, "server", n, e)'
          \/ FromNext(Chunks, "server", n) /\ SideFlow(Chunks, "server", n + 1, e)'
          \/ FromEnd("server") /\ SideFlow(Chunks, "server", n, e)'
      BY <3>1, <3>2, SideRead
    <3>4. n + 1 \in Nat /\ d \in Nat /\ d + 1 \in Nat /\ (d + 1) + 2 = d + 3
      BY SMT, <3>2
    <3>5. CASE torn["server"]
      BY <3>1, <3>3, <3>4, <3>5
    <3>6. CASE UpPhase(n) /\ a.kind = "data" /\ hand' = "done" /\ destGot' = destGot
      <4>1. UpPhase(n)'
        BY <3>6, <2>1
      <4>2. UpPhase(n + 1)'
        BY <4>1, <3>6 DEF UpPhase, Opens
      <4>3. QED
        BY <3>3, <3>4, <4>1, <4>2
    <3>7. CASE UpPhase(n) /\ a.kind # "data" /\ hand' = "check" /\ destGot' = destGot
      <4>1. FromEnd("server") /\ SideFlow(Chunks, "server", n, e)'
        BY <3>3, <3>7 DEF FromBuffer, FromNext
      <4>2. closed["server"]
        BY <3>2, <4>1 DEF FromEnd, IInv, SideInv
      <4>3. UpPhase(n)'
        BY <3>1, <3>7, <4>2, <2>1
      <4>4. QED
        BY <4>1, <4>3
    <3> DEFINE g == IF Completes("server") THEN Append(destGot, Datagram(Append(partial["server"], a.units[1]))) ELSE destGot
    <3>8. CASE UpPhase(n) /\ a.kind = "data" /\ TakePart("server", a.units[1]) /\ hand' = hand /\ destGot' = g
      <4>1. /\ partial'["server"] = IF Completes("server") THEN <<>> ELSE Append(partial["server"], a.units[1])
        BY <3>2, <3>8 DEF TakePart
      <4>2. \/ Clear("server") /\ n = d + 2
            \/ Half("server", d + 1) /\ n = d + 3
        BY <3>1, <3>8 DEF UpPhase
      <4>3. ~FromEnd("server")
        BY <3>8 DEF FromEnd
      <4>4. CASE FromBuffer("server") /\ SideFlow(Chunks, "server", n, e)'
        <5>1. /\ pipe["server"].buffer # <<>> /\ pipe'["server"].buffer = Tail(pipe["server"].buffer)
              /\ a.units = <<Head(pipe["server"].buffer)>>
          BY <4>4 DEF FromBuffer
        <5>2. Half("server", d + 1) /\ n = d + 3
          BY <4>2, <5>1 DEF Clear
        <5>3. /\ partial["server"] = <<<<d + 1, 1>>>> /\ pipe'["server"].buffer = <<>> /\ a.units = <<<<d + 1, 2>>>>
          BY <5>1, <5>2, DatagramWhole DEF Half
        <5> HIDE DEF a, d
        <5>4. a.units[1] = <<d + 1, 2>>
          BY SMT, <5>3
        <5>5. Completes("server") /\ Datagram(Append(partial["server"], a.units[1])) = d + 1
          BY <5>3, <5>4, DatagramWhole DEF Completes
        <5>6. destGot' = Append(destGot, d + 1) /\ Clear("server")'
          BY <3>8, <4>1, <5>3, <5>5 DEF Clear
        <5>7. /\ Len(Append(destGot, d + 1)) = d + 1
              /\ (\A i \in 1 .. Len(destGot) : destGot[i] = i) =>
                    \A i \in 1 .. Len(Append(destGot, d + 1)) : Append(destGot, d + 1)[i] = i
          <6> DEFINE x == d + 1
                     r == Append(destGot, x)
          <6>1. x \in Nat /\ x = Len(destGot) + 1
            BY <3>4 DEF d
          <6> HIDE DEF x
          <6>2. destGot \in Seq(Nat)
            <7>1. 0 .. o.packets \subseteq Nat
              BY SMT
            <7>2. QED
              BY <3>2, <7>1, WiderSeq
          <6>3. /\ Len(r) = Len(destGot) + 1
                /\ \A i \in 1 .. Len(r) : (i \in 1 .. Len(destGot) /\ r[i] = destGot[i]) \/ (i = Len(destGot) + 1 /\ r[i] = x)
            BY SMTT(30), <6>1, <6>2
          <6>4. QED
            BY <6>1, <6>3 DEF x
        <5>8. /\ Len(destGot') = d + 1 /\ \A i \in 1 .. Len(destGot') : destGot'[i] = i
          BY <3>8, <5>6, <5>7 DEF UpPhase
        <5>9. hand' = "relay" /\ ~Opens' /\ n = Len(destGot') + 2
          BY <3>1, <3>4, <3>8, <5>2, <5>8 DEF Opens
        <5>10. UpPhase(n)'
          BY <5>6, <5>8, <5>9 DEF UpPhase
        <5>11. QED
          BY <4>4, <5>10
      <4>5. CASE FromNext(Chunks, "server", n) /\ SideFlow(Chunks, "server", n + 1, e)'
        <5>1. /\ pipe["server"].buffer = <<>> /\ pipe'["server"].buffer = Tail(Chunks[n]) /\ a.units = <<Head(Chunks[n])>>
          BY <4>5 DEF FromNext
        <5>2. Clear("server") /\ n = d + 2
          <6>1. <<<<d + 1, 2>>>> # <<>>
            BY SMT
          <6>2. QED
            BY <4>2, <5>1, <6>1 DEF Half
        <5>3. partial["server"] = <<>> /\ pipe'["server"].buffer = <<<<d + 1, 2>>>> /\ a.units = <<<<d + 1, 1>>>>
          BY <3>4, <5>1, <5>2, ChunkFacts DEF Clear
        <5> HIDE DEF a, d
        <5>4. a.units[1] = <<d + 1, 1>> /\ n + 1 = d + 3
          BY SMTT(30), <3>4, <5>2, <5>3
        <5>5. ~Completes("server") /\ destGot' = destGot /\ partial'["server"] = <<<<d + 1, 1>>>>
          BY <3>8, <4>1, <5>3, <5>4, DatagramWhole DEF Completes
        <5>6. hand' = "relay" /\ ~Opens'
          BY <3>1, <3>8 DEF Opens
        <5>7. Half("server", Len(destGot) + 1)' /\ n + 1 = Len(destGot') + 3
          BY <5>3, <5>4, <5>5 DEF Half, d
        <5>8. UpPhase(n + 1)'
          BY <3>8, <5>5, <5>6, <5>7 DEF UpPhase
        <5>9. QED
          BY <3>4, <4>5, <5>8
      <4>6. QED
        BY <3>3, <4>3, <4>4, <4>5
    <3>9. QED
      BY <3>1, <3>5, <3>6, <3>7, <3>8

  (* They leave its stream as it is. *)
  <2>4. ASSUME SrvKeeps
        PROVE  Keeps("server")
    <3> USE <2>4
    <3>1. CASE HandCheck
      BY <3>1 DEF HandCheck, streamVars, Keeps
    <3>2. CASE HandClose
      BY <3>2 DEF HandClose, Keeps
    <3>3. CASE HandFin
      BY <3>3 DEF HandFin, Keeps
    <3>4. CASE SrvWait \/ SrvBind \/ SrvTickApproved
      BY <3>4 DEF SrvWait, SrvBind, SrvTickApproved, streamVars, Keeps
    <3>5. CASE SrvTick
      BY <3>5 DEF SrvTick, Keeps
    <3>6. CASE SrvDown
      BY <3>6 DEF SrvDown, Keeps
    <3>7. CASE SrvError
      BY <3>7 DEF SrvError, Keeps
    <3>8. QED
      BY <3>1, <3>2, <3>3, <3>4, <3>5, <3>6, <3>7 DEF SrvKeeps

  (* They keep the phase. *)
  <2>5. ASSUME NEW o, RelayTypes(o), SrvKeeps, NEW n \in Nat, UpPhase(n)
        PROVE  torn'["server"] \/ UpPhase(n)'
    <3> USE <2>5
    <3>1. /\ torn \in [Sides -> BOOLEAN] /\ partial \in [Sides -> Seq(Parts(o))] /\ "server" \in Sides
      BY DEF RelayTypes, Sides
    <3>2. CASE (HandCheck \/ HandClose \/ HandFin) /\ UNCHANGED udpVars
      <4>1. destGot' = destGot /\ partial' = partial
        BY <3>2 DEF udpVars
      <4>2. CASE hand' \in {"fin", "done"}
        BY <4>1, <4>2, <2>1
      <4>3. CASE hand' \notin {"fin", "done"}
        <5>1. hand = "check" /\ hand' = "dest" /\ ~closed["server"] /\ pipe' = pipe
          BY <3>2, <4>3 DEF HandCheck, HandClose, HandFin, Usable, streamVars
        <5>2. Opens
          BY <5>1 DEF Opens
        <5>3. n = 0 /\ destGot = <<>> /\ Clear("server") /\ \A i \in 1 .. Len(destGot) : destGot[i] = i
          BY <5>2 DEF UpPhase
        <5>4. Clear("server")'
          BY <4>1, <5>1, <5>3 DEF Clear
        <5>5. QED
          BY <4>1, <5>1, <5>3, <5>4 DEF UpPhase
      <4>4. QED
        BY <4>2, <4>3
    <3>3. CASE SrvWait
      <4>1. UNCHANGED <<hand, closed, pipe, destGot, partial>>
        BY <3>3 DEF SrvWait, handVars, udpVars
      <4>2. QED
        BY <4>1 DEF UpPhase, Opens, Clear, Half
    <3>4. CASE SrvBind
      <4>1. UNCHANGED <<pipe, destGot, partial>> /\ hand = "bind" /\ hand' \in {"done", "close", "relay"}
        BY <3>4 DEF SrvBind, streamVars
      <4>2. CASE hand' # "relay"
        BY <4>1, <4>2, <2>1
      <4>3. CASE hand' = "relay"
        <5>1. n = 2 /\ destGot = <<>> /\ Clear("server") /\ \A i \in 1 .. Len(destGot) : destGot[i] = i
          BY <4>1 DEF UpPhase
        <5>2. Len(destGot) + 2 = 2
          BY SMT, <5>1
        <5>3. Clear("server")' /\ n = Len(destGot') + 2 /\ ~Opens'
          BY <4>1, <4>3, <5>1, <5>2 DEF Clear, Opens
        <5>4. QED
          BY <4>1, <4>3, <5>1, <5>3 DEF UpPhase
      <4>4. QED
        BY <4>2, <4>3
    <3>5. CASE SrvTick
      <4>1. destGot' = destGot /\ (hand' = "fin" \/ (hand' = "check" /\ closed["server"] /\ closed' = closed))
        BY <3>5 DEF SrvTick
      <4>2. QED
        BY <4>1, <2>1
    <3>6. CASE SrvTickApproved \/ SrvDown
      <4>1. destGot' = destGot /\ Overtake("server") /\ hand = "relay"
        BY <3>6 DEF SrvTickApproved, SrvDown
      <4>2. CASE hand' = "done"
        BY <4>1, <4>2, <2>1
      <4>3. CASE hand' # "done"
        <5>1. hand' = hand /\ pipe' = pipe /\ closed' = closed
          BY <3>6, <4>3 DEF SrvTickApproved, SrvDown, streamVars, handVars
        <5>2. torn'["server"] \/ partial'["server"] = partial["server"]
          BY <3>1, <4>1 DEF Overtake
        <5>3. QED
          BY <4>1, <5>1, <5>2 DEF UpPhase, Opens, Clear, Half
      <4>4. QED
        BY <4>2, <4>3
    <3>7. CASE SrvError
      <4>1. destGot' = destGot /\ hand' = "done"
        BY <3>7 DEF SrvError
      <4>2. QED
        BY <4>1, <2>1
    <3>8. QED
      BY <3>2, <3>3, <3>4, <3>5, <3>6, <3>7 DEF SrvKeeps

  <2>6. ASSUME NEW o, IInv(o), RelayTypes(o), SrvTask \/ SrvTickApproved \/ SrvDown \/ SrvError,
               NEW n \in Nat, NEW e \in Nat, UpAt(n, e)
        PROVE  UpOrder'
    <3> USE <2>6
    <3>1. /\ TaskStep(o, "server") /\ UNCHANGED <<assoc, appSent, lost>> /\ (torn["server"] => torn'["server"])
          /\ "client" \in Sides \ {"server"} /\ "server" \in Sides
      BY SrvSteps, ServerLeaves DEF Sides
    <3>2. closed'["client"] = closed["client"]
      BY <3>1, TaskSides
    <3>3. UpEnd(e)'
      BY <3>1, <3>2 DEF UpAt, UpEnd
    <3>4. CASE SrvOpen \/ SrvRead
      <4>1. \E m \in Nat : SideFlow(Chunks, "server", m, e)' /\ (torn["server"] \/ UpPhase(m))'
        BY <3>4, <2>2, <2>3 DEF UpAt
      <4>2. QED
        BY <3>3, <4>1 DEF UpAt, UpOrder
    <3>5. CASE SrvKeeps
      <4>1. SideFlow(Chunks, "server", n, e)'
        BY <3>1, <3>5, <2>4, TaskFlow DEF UpAt
      <4>2. torn'["server"] \/ UpPhase(n)'
        BY <3>1, <3>5, <2>5 DEF UpAt
      <4>3. QED
        BY <3>3, <4>1, <4>2 DEF UpAt, UpOrder
    <3>6. QED
      BY <3>4, <3>5 DEF SrvTask, SrvKeeps
  <2>7. QED
    BY <2>6

<1>4. ASSUME NEW o, IInv(o), RelayTypes(o), UpOrder, [Next]_vars
      PROVE  UpOrder'
  <2> USE <1>4
  <2>1. PICK n \in Nat, e \in Nat : UpAt(n, e)
    BY DEF UpOrder
  <2>2. CASE Around
    BY <2>1, <2>2, <1>1 DEF UpOrder
  <2>3. CASE SrvTask \/ SrvTickApproved \/ SrvDown \/ SrvError
    BY <2>1, <2>3, <1>3
  <2>4. CASE CliTask \/ CliUp \/ CliEnd \/ CliBreak
    <3>1. PICK e2 \in Nat : SideFlow(Chunks, "server", n, e2)' /\ UpEnd(e2)'
      BY <2>1, <2>4, <1>2 DEF UpAt
    <3>2. UNCHANGED <<hand, destGot>> /\ torn'["server"] = torn["server"] /\ partial'["server"] = partial["server"]
      BY <2>4, ClientLeaves
    <3>3. pipe'["server"] = pipe["server"] /\ closed'["server"] = closed["server"]
      <4>1. TaskStep(o, "client") /\ "client" \in Sides /\ "server" \in Sides \ {"client"}
        BY <2>4, CliSteps DEF Sides
      <4>2. QED
        BY <4>1, TaskSides
    <3>4. UpPhase(n) => UpPhase(n)'
      BY <3>2, <3>3 DEF UpPhase, Opens, Clear, Half
    <3>5. QED
      BY <2>1, <3>1, <3>2, <3>4 DEF UpAt, UpOrder
  <2>5. QED
    BY <2>2, <2>3, <2>4, NextCases DEF QuietClient, QuietServer, CliTask, SrvTask
<1>5. QED
  BY <1>4

-----------------------------------------------------------------------------
(* What goes down.                                                         *)

(* What the destinations have sent is what comes next on the stream.  The  *)
(* client has begun m packets of it; those it took before the              *)
(* application's address was known are left out, no other.                 *)
DownEnd(e) == ~lost /\ ~closed["server"] => e = destSent + 2
Reading == assoc \in {"dest", "request", "select"}
DownPhase(m) ==
  /\ \A i \in 1 .. Len(appGot) : appGot[i] = appGot[1] + i - 1 /\ appGot[i] > 0
  /\ Reading =>
       \/ Clear("client") /\ (appGot # <<>> => m = appGot[Len(appGot)])
       \/ Half("client", m) /\ m > 0 /\ (appGot # <<>> => m = appGot[Len(appGot)] + 1)
DownAt(m, e) ==
  /\ SideFlow(Chunks, "client", m + 2, e) /\ DownEnd(e) /\ (appGot # <<>> => appSent > 0)
  /\ torn["client"] \/ DownPhase(m)
DownOrder == \E m, e \in Nat : DownAt(m, e)

(* The steps of the client's task that read nothing. *)
CliKeeps == CliRequest \/ CliUp \/ CliEnd \/ CliBreak \/ CliClose \/ CliFin \/ CliWait

(* Every step keeps the order of what goes down. *)
LEMMA DownNext ==
  \A o : IInv(o) /\ RelayTypes(o) /\ DownOrder /\ [Next]_vars => DownOrder'
(* The steps besides those of the tasks keep the order of what goes down. *)
<1>1. ASSUME NEW o, IInv(o), Around, NEW m \in Nat, NEW e \in Nat, DownAt(m, e)
      PROVE  DownAt(m, e)'
  <2> USE <1>1
  <2>1. /\ UNCHANGED <<assoc, partial, torn, appSent, appGot, destSent, destGot>> /\ (lost => lost')
        /\ \A t \in Sides : closed[t] => closed'[t]
    BY AroundTasks
  <2>2. "client" \in Sides /\ "server" \in Sides /\ m + 2 \in Nat
    BY SMT DEF Sides
  <2>3. SideFlow(Chunks, "client", m + 2, e)' /\ pipe'["client"].buffer = pipe["client"].buffer
    BY <2>2, AroundFlow DEF DownAt, FlowKept
  <2>4. DownEnd(e)'
    BY <2>1, <2>2 DEF DownAt, DownEnd
  <2>5. DownPhase(m) => DownPhase(m)'
    BY <2>1, <2>3 DEF DownPhase, Reading, Clear, Half
  <2>6. QED
    BY <2>1, <2>3, <2>4, <2>5 DEF DownAt

(* The server's task sends the payloads in their order. *)
<1>2. ASSUME NEW o, IInv(o), SrvTask \/ SrvTickApproved \/ SrvDown \/ SrvError,
             NEW n \in Nat, NEW e \in Nat, SideFlow(Chunks, "client", n, e), DownEnd(e)
      PROVE  \E e2 \in Nat : SideFlow(Chunks, "client", n, e2)' /\ DownEnd(e2)'
  <2> USE <1>2
  <2>1. TaskStep(o, "server") /\ "server" \in Sides /\ Peer("server") = "client" /\ lost' = lost
    BY SrvSteps DEF Sides, Peer, TaskStep
  <2>2. /\ net'["client"] = net["client"] => SideFlow(Chunks, "client", n, e)'
        /\ \A x \in Sent(o) : x.cmd # "PSH" /\ net'["client"] = Append(net["client"], x) => SideFlow(Chunks, "client", n, e)'
        /\ \A units \in Seq(Parts(o)) : units = Chunks[e] /\ net'["client"] = Append(net["client"], Psh(units)) =>
             SideFlow(Chunks, "client", n, e + 1)'
    BY <2>1, SendFlow
  <2>3. \A x : Send("server", x) => (lost /\ net'["client"] = net["client"]) \/ (~lost /\ net'["client"] = Append(net["client"], x))
    <3>1. net \in [Sides -> Seq(Frames(o))] /\ "client" \in Sides
      BY DEF IInv, LinkTypes, Sides
    <3>2. QED
      BY <2>1, <3>1 DEF Send
  <2>4. closed["server"] => closed'["server"]
    <3>1. closed' = closed \/ CloseStream("server")
      BY <2>1 DEF TaskStep, streamVars
    <3>2. QED
      BY <2>1, <3>1 DEF CloseStream, IInv, StreamInv
  <2>5. /\ \A cmd \in {"FIN", "SYNACK", "SYNERR"} : Frame(cmd) \in Sent(o)
        /\ \A cmd \in {"FIN", "SYNACK", "SYNERR"} : Frame(cmd).cmd # "PSH"
    <3>1. \A cmd \in {"FIN", "SYNACK", "SYNERR"} : Frame(cmd).cmd # "PSH"
      BY SMT DEF Frame
    <3>2. QED
      BY <3>1, FrameTypes
  <2>6. CASE SrvDown
    <3>1. destSent' = destSent + 1 /\ closed' = closed
      BY <2>6 DEF SrvDown
    <3>2. CASE lost \/ closed["server"]
      <4>1. DownEnd(e)'
        BY <2>1, <2>4, <3>2 DEF DownEnd
      <4>2. net'["client"] = net["client"]
        BY <2>3, <2>6, <3>2 DEF SrvDown, Usable
      <4>3. QED
        BY <2>2, <4>1, <4>2
    <3>3. CASE ~lost /\ ~closed["server"]
      <4>1. Usable("server")
        BY <2>1, <3>3 DEF Usable, Open, IInv, SideInv
      <4>2. Send("server", Psh(Packet(destSent + 1)))
        BY <2>6, <3>1, <4>1 DEF SrvDown
      <4>3. Packet(destSent + 1) \in Seq(Parts(o))
        <5>1. o \in Openings /\ Counts(o) /\ Counts(o)'
          BY SrvSteps DEF IInv, TasksMove
        <5>2. destSent + 1 \in 0 .. o.packets
          <6>1. o.packets \in Nat
            BY <5>1, PacketTypes
          <6>2. QED
            BY SMTT(30), <3>1, <5>1, <6>1 DEF Counts
        <5>3. QED
          BY <5>1, <5>2, PacketTypes
      <4>4. e = destSent + 2 /\ destSent \in Nat
        BY <3>3 DEF DownEnd, IInv, Counts
      <4>5. Packet(destSent + 1) = Chunks[e]
        BY <4>4, ChunkFacts
      <4>6. SideFlow(Chunks, "client", n, e + 1)'
        BY ZenonT(30), <2>2, <2>3, <3>3, <4>2, <4>3, <4>5
      <4>7. e + 1 \in Nat /\ e + 1 = (destSent + 1) + 2
        BY SMT, <4>4
      <4>8. DownEnd(e + 1)'
        BY <3>1, <4>7 DEF DownEnd
      <4>9. QED
        BY <4>6, <4>7, <4>8
    <3>4. QED
      BY <3>2, <3>3
  <2>7. CASE ~SrvDown
    <3>1. destSent' = destSent
      BY <2>7 DEF SrvTask, HandCheck, HandClose, HandFin, SrvWait, SrvOpen, SrvBind, SrvTick, SrvRead, SrvTickApproved,
         SrvError, udpVars
    <3>2. DownEnd(e)'
      BY <2>1, <2>4, <3>1 DEF DownEnd
    <3>3. net' = net \/ \E cmd \in {"FIN", "SYNACK", "SYNERR"} : Send("server", Frame(cmd))
      BY <2>7 DEF SrvTask, HandCheck, HandClose, HandFin, SrvWait, SrvOpen, SrvBind, SrvTick, SrvRead, SrvTickApproved,
         SrvError, SendFin, Tell, linkVars
    <3>4. SideFlow(Chunks, "client", n, e)'
      BY <2>2, <2>3, <2>5, <3>3
    <3>5. QED
      BY <3>2, <3>4
  <2>8. QED
    BY <2>6, <2>7

(* They leave its stream as it is. *)
<1>3. ASSUME CliKeeps
      PROVE  Keeps("client")
  <2> USE <1>3
  <2>1. CASE CliRequest \/ CliEnd \/ CliWait
    BY <2>1 DEF CliRequest, CliEnd, CliWait, streamVars, Keeps
  <2>2. CASE CliUp
    BY <2>2 DEF CliUp, Keeps
  <2>3. CASE CliBreak
    BY <2>3 DEF CliBreak, Keeps
  <2>4. CASE CliClose
    BY <2>4 DEF CliClose, Keeps
  <2>5. CASE CliFin
    BY <2>5 DEF CliFin, Keeps
  <2>6. QED
    BY <2>1, <2>2, <2>3, <2>4, <2>5 DEF CliKeeps

(* They keep the phase. *)
<1>4. ASSUME NEW o, RelayTypes(o), CliKeeps, NEW m \in Nat, DownPhase(m)
      PROVE  torn'["client"] \/ DownPhase(m)'
  <2> USE <1>4
  <2>1. torn \in [Sides -> BOOLEAN] /\ partial \in [Sides -> Seq(Parts(o))] /\ "client" \in Sides
    BY DEF RelayTypes, Sides
  <2>2. appGot' = appGot
    BY DEF CliKeeps, CliRequest, CliUp, CliEnd, CliBreak, CliClose, CliFin, CliWait, udpVars
  <2>3. CASE ~Reading'
    BY <2>2, <2>3 DEF DownPhase
  <2>4. CASE Reading'
    <3>1. Reading /\ pipe' = pipe /\ (torn'["client"] \/ partial'["client"] = partial["client"])
      <4>1. CASE CliRequest \/ CliWait
        BY <4>1 DEF CliRequest, CliWait, Reading, streamVars, udpVars
      <4>2. CASE CliUp
        BY <2>1, <2>4, <4>2 DEF CliUp, Reading, Overtake
      <4>3. CASE CliEnd \/ CliBreak \/ CliClose \/ CliFin
        BY <2>4, <4>3 DEF CliEnd, CliBreak, CliClose, CliFin, Reading
      <4>4. QED
        BY <4>1, <4>2, <4>3 DEF CliKeeps
    <3>2. QED
      BY <2>2, <3>1 DEF DownPhase, Clear, Half
  <2>5. QED
    BY <2>3, <2>4

(* A run of numbers goes on with the next one. *)
<1>5. ASSUME NEW g \in Seq(Nat), NEW m \in Nat, m > 0, g # <<>> => m = g[Len(g)] + 1,
             \A i \in 1 .. Len(g) : g[i] = g[1] + i - 1 /\ g[i] > 0
      PROVE  /\ \A i \in 1 .. Len(Append(g, m)) : Append(g, m)[i] = Append(g, m)[1] + i - 1 /\ Append(g, m)[i] > 0
             /\ Append(g, m)[Len(Append(g, m))] = m
  <2> USE <1>5
  <2> DEFINE r == Append(g, m)
             l == Len(g)
  <2>1. /\ Len(r) = l + 1 /\ l \in Nat /\ r[l + 1] = m
        /\ \A i \in 1 .. Len(r) : (i \in 1 .. l /\ r[i] = g[i]) \/ (i = l + 1 /\ r[i] = m)
    BY SMT
  <2>2. \A i \in 1 .. l : g[i] \in Nat
    BY SMTT(30)
  <2>3. CASE g = <<>>
    <3>1. l = 0
      BY SMTT(30), <2>3
    <3> HIDE DEF r, l
    <3>2. \A i \in 1 .. Len(r) : i = 1 /\ r[i] = m
      BY SMTT(30), <2>1, <3>1
    <3>3. r[1] = m /\ m = m + 1 - 1
      BY SMT, <2>1, <3>1
    <3>4. \A i \in 1 .. Len(r) : r[i] = r[1] + i - 1 /\ r[i] > 0
      BY <3>2, <3>3
    <3>5. QED
      BY <2>1, <3>4 DEF r
  <2>4. CASE g # <<>>
    <3>1. l # 0
      BY SMT, <2>4
    <3>2. l \in 1 .. l /\ 1 \in 1 .. l /\ 1 \in 1 .. Len(r) /\ 1 # l + 1
      BY SMT, <2>1, <3>1
    <3>3. m = g[l] + 1 /\ g[l] = g[1] + l - 1 /\ g[1] \in Nat /\ r[1] = g[1]
      BY <2>1, <2>2, <2>4, <3>2
    <3>4. \A i \in 1 .. l : g[i] = g[1] + i - 1 /\ g[i] > 0
      BY SMT
    <3> HIDE DEF r, l
    <3>5. m = g[1] + (l + 1) - 1
      BY SMTT(30), <2>1, <3>3
    <3>6. \A i \in 1 .. Len(r) : r[i] = r[1] + i - 1 /\ r[i] > 0
      BY <2>1, <3>3, <3>4, <3>5
    <3>7. QED
      BY <2>1, <3>6 DEF r
  <2>5. QED
    BY <2>3, <2>4

(* The client reads the two parts of each packet. *)
<1>6. ASSUME NEW o, IInv(o), RelayTypes(o), CliRead, NEW m \in Nat, NEW e \in Nat, SideFlow(Chunks, "client", m + 2, e),
             torn["client"] \/ DownPhase(m), appGot # <<>> => appSent > 0
      PROVE  /\ \E k \in Nat : SideFlow(Chunks, "client", k + 2, e)' /\ (torn["client"] \/ DownPhase(k))'
             /\ (appGot # <<>> => appSent > 0)'
  <2> USE <1>6
  <2> DEFINE a == Answer("client", 1)
             n == m + 2
             known == appSent > 0
             g == IF Completes("client") /\ known THEN Append(appGot, Datagram(Append(partial["client"], a.units[1]))) ELSE appGot
  <2>1. /\ assoc = "select" /\ TakeAnswer("client", 1) /\ UNCHANGED <<closed, mapped, net, holding, torn, appSent>>
        /\ \/ assoc' = "dropped" /\ appGot' = appGot
           \/ a.kind = "data" /\ TakePart("client", a.units[1]) /\ assoc' = assoc /\ appGot' = g
    BY DEF CliRead, linkVars
  <2>2. /\ Carried(Parts(o), Frames(o)) /\ fut["client"] \in {0, 1} /\ "client" \in Sides /\ appGot \in Seq(0 .. o.packets)
        /\ partial \in [Sides -> Seq(Parts(o))]
    BY CarriedHolds DEF IInv, Sides, RelayTypes
  <2>3. n \in Nat /\ m + 1 \in Nat /\ n + 1 = (m + 1) + 2 /\ m + 1 > 0
    BY SMT
  <2>4. \/ FromBuffer("client") /\ SideFlow(Chunks, "client", n, e)'
        \/ FromNext(Chunks, "client", n) /\ SideFlow(Chunks, "client", n + 1, e)'
        \/ FromEnd("client") /\ SideFlow(Chunks, "client", n, e)'
    BY <2>1, <2>2, <2>3, SideRead
  <2>5. \/ FromBuffer("client") /\ SideFlow(Chunks, "client", m + 2, e)'
        \/ FromNext(Chunks, "client", n) /\ SideFlow(Chunks, "client", (m + 1) + 2, e)'
        \/ FromEnd("client") /\ SideFlow(Chunks, "client", m + 2, e)'
    BY <2>3, <2>4
  <2>6. (appGot # <<>> => appSent > 0)'
    BY <2>1
  <2>7. CASE torn["client"]
    BY <2>1, <2>3, <2>5, <2>6, <2>7
  <2>8. CASE DownPhase(m) /\ assoc' = "dropped" /\ appGot' = appGot
    <3>1. DownPhase(m)' /\ DownPhase(m + 1)'
      BY <2>8 DEF DownPhase, Reading
    <3>2. QED
      BY <2>3, <2>5, <2>6, <3>1
  <2> HIDE DEF n
  <2>9. CASE DownPhase(m) /\ a.kind = "data" /\ TakePart("client", a.units[1]) /\ assoc' = assoc /\ appGot' = g
    <3>1. partial'["client"] = IF Completes("client") THEN <<>> ELSE Append(partial["client"], a.units[1])
      BY <2>2, <2>9 DEF TakePart
    <3>2. /\ \/ Clear("client") /\ (appGot # <<>> => m = appGot[Len(appGot)])
             \/ Half("client", m) /\ m > 0 /\ (appGot # <<>> => m = appGot[Len(appGot)] + 1)
          /\ \A i \in 1 .. Len(appGot) : appGot[i] = appGot[1] + i - 1 /\ appGot[i] > 0
      BY <2>1, <2>9 DEF DownPhase, Reading
    <3>3. ~FromEnd("client")
      BY <2>9 DEF FromEnd
    <3>4. CASE FromBuffer("client") /\ SideFlow(Chunks, "client", m + 2, e)'
      <4>1. /\ pipe["client"].buffer # <<>> /\ pipe'["client"].buffer = Tail(pipe["client"].buffer)
            /\ a.units = <<Head(pipe["client"].buffer)>>
        BY <3>4 DEF FromBuffer
      <4>2. Half("client", m) /\ m > 0 /\ (appGot # <<>> => m = appGot[Len(appGot)] + 1)
        BY <3>2, <4>1 DEF Clear
      <4>3. /\ partial["client"] = <<<<m, 1>>>> /\ pipe'["client"].buffer = <<>> /\ a.units = <<<<m, 2>>>>
        BY <4>1, <4>2, DatagramWhole DEF Half
      <4> HIDE DEF a
      <4>4. a.units[1] = <<m, 2>>
        BY SMT, <4>3
      <4>5. Completes("client") /\ Datagram(Append(partial["client"], a.units[1])) = m
        BY <4>3, <4>4, DatagramWhole DEF Completes
      <4>6. (known => appGot' = Append(appGot, m)) /\ (~known => appGot' = appGot /\ appGot = <<>>) /\ Clear("client")'
        BY <2>9, <3>1, <4>3, <4>5 DEF Clear
      <4>7. /\ \A i \in 1 .. Len(Append(appGot, m)) :
                 Append(appGot, m)[i] = Append(appGot, m)[1] + i - 1 /\ Append(appGot, m)[i] > 0
            /\ Append(appGot, m)[Len(Append(appGot, m))] = m
        <5>1. 0 .. o.packets \subseteq Nat
          BY SMT
        <5>2. appGot \in Seq(Nat)
          BY <2>2, <5>1, WiderSeq
        <5>3. QED
          BY <3>2, <4>2, <5>2, <1>5
      <4> HIDE DEF known
      <4>8. /\ \A i \in 1 .. Len(appGot') : appGot'[i] = appGot'[1] + i - 1 /\ appGot'[i] > 0
            /\ appGot' # <<>> => m = appGot'[Len(appGot')]
        BY <3>2, <4>6, <4>7
      <4>9. DownPhase(m)'
        BY <4>6, <4>8 DEF DownPhase
      <4>10. QED
        BY <2>6, <3>4, <4>9
    <3>5. CASE FromNext(Chunks, "client", n) /\ SideFlow(Chunks, "client", (m + 1) + 2, e)'
      <4>1. /\ pipe["client"].buffer = <<>> /\ pipe'["client"].buffer = Tail(Chunks[n]) /\ a.units = <<Head(Chunks[n])>>
        BY <3>5 DEF FromNext
      <4>2. Clear("client") /\ (appGot # <<>> => m = appGot[Len(appGot)])
        <5>1. <<<<m, 2>>>> # <<>>
          BY SMT
        <5>2. QED
          BY <3>2, <4>1, <5>1 DEF Half
      <4>3. Head(Chunks[n]) = <<m + 1, 1>> /\ Tail(Chunks[n]) = <<<<m + 1, 2>>>>
        BY ChunkFacts DEF n
      <4>4. partial["client"] = <<>> /\ pipe'["client"].buffer = <<<<m + 1, 2>>>> /\ a.units = <<<<m + 1, 1>>>>
        BY <4>1, <4>2, <4>3 DEF Clear
      <4> HIDE DEF a
      <4>5. a.units[1] = <<m + 1, 1>>
        BY SMTT(30), <4>4
      <4>6. ~Completes("client") /\ appGot' = appGot /\ partial'["client"] = <<<<m + 1, 1>>>>
        BY <2>9, <3>1, <4>4, <4>5, DatagramWhole DEF Completes
      <4>7. Half("client", m + 1)' /\ (appGot' # <<>> => m + 1 = appGot'[Len(appGot')] + 1)
        BY <4>2, <4>4, <4>6 DEF Half
      <4>8. DownPhase(m + 1)'
        BY <2>3, <3>2, <4>6, <4>7 DEF DownPhase
      <4>9. QED
        BY <2>3, <2>6, <3>5, <4>8
    <3>6. QED
      BY <2>5, <3>3, <3>4, <3>5
  <2>10. QED
    BY <2>1, <2>7, <2>8, <2>9

<1>7. ASSUME NEW o, IInv(o), RelayTypes(o), DownOrder, [Next]_vars
      PROVE  DownOrder'
  <2> USE <1>7
  <2>1. PICK m \in Nat, e \in Nat : DownAt(m, e)
    BY DEF DownOrder
  <2>2. m + 2 \in Nat
    BY SMTT(30)
  <2>3. CASE Around
    BY <2>1, <2>3, <1>1 DEF DownOrder
  <2>4. CASE SrvTask \/ SrvTickApproved \/ SrvDown \/ SrvError
    <3>1. PICK e2 \in Nat : SideFlow(Chunks, "client", m + 2, e2)' /\ DownEnd(e2)'
      BY <2>1, <2>2, <2>4, <1>2 DEF DownAt
    <3>2. UNCHANGED <<assoc, appSent, appGot>> /\ torn'["client"] = torn["client"] /\ partial'["client"] = partial["client"]
      BY <2>4, ServerLeaves
    <3>3. pipe'["client"] = pipe["client"]
      <4>1. TaskStep(o, "server") /\ "server" \in Sides /\ "client" \in Sides \ {"server"}
        BY <2>4, SrvSteps DEF Sides
      <4>2. QED
        BY <4>1, TaskSides
    <3>4. DownPhase(m) => DownPhase(m)'
      BY <3>2, <3>3 DEF DownPhase, Reading, Clear, Half
    <3>5. QED
      BY <2>1, <3>1, <3>2, <3>4 DEF DownAt, DownOrder
  <2>5. CASE CliTask \/ CliUp \/ CliEnd \/ CliBreak
    <3>1. TaskStep(o, "client") /\ "client" \in Sides /\ "server" \in Sides \ {"client"} /\ UNCHANGED <<destSent, lost>>
      BY <2>5, CliSteps, ClientLeaves DEF Sides
    <3>2. closed'["server"] = closed["server"]
      BY <3>1, TaskSides
    <3>3. DownEnd(e)'
      BY <2>1, <3>1, <3>2 DEF DownAt, DownEnd
    <3>4. CASE CliRead
      <4>1. /\ \E k \in Nat : SideFlow(Chunks, "client", k + 2, e)' /\ (torn["client"] \/ DownPhase(k))'
            /\ (appGot # <<>> => appSent > 0)'
        BY <2>1, <3>4, <1>6 DEF DownAt
      <4>2. QED
        BY <3>3, <4>1 DEF DownAt, DownOrder
    <3>5. CASE CliKeeps
      <4>1. SideFlow(Chunks, "client", m + 2, e)'
        BY <2>1, <2>2, <3>1, <3>5, <1>3, TaskFlow DEF DownAt
      <4>2. torn["client"] => torn'["client"]
        <5>1. torn \in [Sides -> BOOLEAN]
          BY DEF RelayTypes
        <5>2. torn' = torn \/ Overtake("client")
          BY <3>5 DEF CliKeeps, CliRequest, CliUp, CliEnd, CliBreak, CliClose, CliFin, CliWait, udpVars
        <5>3. QED
          BY <3>1, <5>1, <5>2 DEF Overtake
      <4>3. torn'["client"] \/ DownPhase(m)'
        BY <2>1, <3>5, <4>2, <1>4 DEF DownAt
      <4>4. (appGot # <<>> => appSent > 0)'
        <5>1. appGot' = appGot /\ (appSent' = appSent \/ appSent' = appSent + 1)
          BY <3>5 DEF CliKeeps, CliRequest, CliUp, CliEnd, CliBreak, CliClose, CliFin, CliWait, udpVars
        <5>2. appSent \in Nat /\ (appGot # <<>> => appSent > 0)
          BY <2>1 DEF DownAt, IInv, Counts
        <5>3. appSent > 0 => appSent' > 0
          BY SMTT(30), <5>1, <5>2
        <5>4. QED
          BY <5>1, <5>2, <5>3
      <4>5. QED
        BY <3>3, <4>1, <4>3, <4>4 DEF DownAt, DownOrder
    <3>6. QED
      BY <2>5, <3>4, <3>5 DEF CliTask, CliKeeps
  <2>6. QED
    BY <2>3, <2>4, <2>5, NextCases DEF QuietClient, QuietServer, CliTask, SrvTask
<1>8. QED
  BY <1>7

(* At the start, nothing is under way. *)
LEMMA InitOrders == Init => UpOrder /\ DownOrder
<1> SUFFICES ASSUME Init
             PROVE  UpOrder /\ DownOrder
  BY SMT
<1>1. "client" \in Sides /\ "server" \in Sides /\ IInv(opening) /\ opening \in Openings
  BY InitHolds DEF Init, Sides
<1>2. /\ pipe = [s \in Sides |-> NewPipe] /\ holding = [s \in Sides |-> <<>>] /\ closed = [s \in Sides |-> FALSE]
      /\ net["client"] = <<>> /\ net["server"] = Opening(opening)
      /\ hand = "new" /\ assoc = "dest" /\ partial = [s \in Sides |-> <<>>]
      /\ appSent = 0 /\ appGot = <<>> /\ destSent = 0 /\ destGot = <<>>
  BY <1>1 DEF Init, StreamsInit
<1>3. NewPipe.queue = <<>> /\ NewPipe.buffer = <<>> /\ Len(<<>>) = 0 /\ 0 \in Nat /\ 2 \in Nat /\ 0 + 2 = 2
  BY SMT DEF NewPipe
<1>4. \A i \in 1 .. 0 : FALSE
  BY SMT
<1>5. ASSUME NEW n \in Nat, NEW e \in Nat
      PROVE  Queued(Chunks, NewPipe, n, e) /\ Behind(NewPipe, <<>>, n) = n
  BY SMT, <1>3 DEF Queued, Behind
<1>6. SideFlow(Chunks, "server", 0, 0)
  <2>1. net["server"] \in Seq(UpFrames(opening)) /\ \A i \in 1 .. Len(net["server"]) : net["server"][i].cmd # "PSH"
    BY <1>1, <1>2, OpeningFrames
  <2>2. Numbered(Chunks, net["server"], 0, 0)
    BY <1>3, <2>1, NumberedNone
  <2>3. QED
    BY <1>1, <1>2, <1>3, <1>5, <2>2 DEF SideFlow, Flow
<1>7. SideFlow(Chunks, "client", 0 + 2, 2)
  <2>1. <<>> \in Seq(Parts(opening)) /\ \A i \in 1 .. Len(<<>>) : <<>>[i].cmd # "PSH"
    BY SMT
  <2>2. Numbered(Chunks, <<>>, 2, 2)
    BY <1>3, <2>1, NumberedNone
  <2>3. QED
    BY <1>1, <1>2, <1>3, <1>5, <2>2 DEF SideFlow, Flow
<1>8. \A s \in Sides : Clear(s)
  BY <1>2, <1>3 DEF Clear
<1>9. \A i \in 1 .. Len(<<>>) : FALSE
  BY <1>3, <1>4
<1>10. UpEnd(0) /\ UpPhase(0)
  BY <1>1, <1>2, <1>3, <1>8, <1>9 DEF UpEnd, UpPhase
<1>11. DownEnd(2) /\ DownPhase(0)
  BY <1>1, <1>2, <1>3, <1>8, <1>9 DEF DownEnd, DownPhase
<1>12. UpAt(0, 0) /\ DownAt(0, 2)
  BY <1>2, <1>6, <1>7, <1>10, <1>11 DEF UpAt, DownAt
<1>13. QED
  BY <1>3, <1>12 DEF UpOrder, DownOrder

(* As long as no packet was dropped between two of its parts, datagrams    *)
(* are whole and in order on both sides (uot_get_packet_from_stream,       *)
(* handle_udp_associate, handle_uot_datagram_stream).                      *)
THEOREM IntactTheorem == Spec => []DatagramsIntact
<1> DEFINE Ordered == RelayInv /\ UpOrder /\ DownOrder
<1>1. Init => Ordered
  BY InitHolds, InitSettles, InitOrders DEF RelayInv, Init
<1>2. Ordered /\ [Next]_vars => Ordered'
  <2> SUFFICES ASSUME Ordered, [Next]_vars
               PROVE  Ordered'
    BY SMT
  <2>1. RelayInv'
    BY NextPreserves, NextTypes, NextSettles DEF RelayInv
  <2>2. PICK o \in Openings : IInv(o) /\ RelayTypes(o)
    BY DEF RelayInv
  <2>3. UpOrder' /\ DownOrder'
    BY <2>2, UpNext, DownNext
  <2>4. QED
    BY <2>1, <2>3
<1>3. Ordered => DatagramsIntact
  <2> SUFFICES ASSUME Ordered
               PROVE  DatagramsIntact
    BY SMT
  <2>1. PICK o \in Openings : RelayTypes(o)
    BY DEF RelayInv
  <2>2. torn["server"] \/ \A i \in 1 .. Len(destGot) : destGot[i] = i
    BY DEF UpOrder, UpAt, UpPhase
  <2>3. destGot \in [1 .. Len(destGot) -> 0 .. o.packets]
    <3>1. destGot \in Seq(0 .. o.packets)
      BY <2>1 DEF RelayTypes
    <3>2. \A S : \A q \in Seq(S) : q \in [1 .. Len(q) -> S]
      BY SMT
    <3>3. QED
      BY <3>1, <3>2
  <2>4. torn["server"] \/ destGot = [i \in 1 .. Len(destGot) |-> i]
    BY <2>2, <2>3
  <2>5. torn["client"] \/ \A i \in 1 .. Len(appGot) : appGot[i] = appGot[1] + i - 1 /\ appGot[i] > 0
    BY DEF DownOrder, DownAt, DownPhase
  <2>6. QED
    BY <2>4, <2>5 DEF DatagramsIntact
<1>4. QED
  BY <1>1, <1>2, <1>3, PTL DEF Spec
=============================================================================
