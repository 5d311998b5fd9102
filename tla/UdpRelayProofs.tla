--------------------------- MODULE UdpRelayProofs ---------------------------
(***************************************************************************)
(* Proofs about UDP associations, for any client, any number of datagrams  *)
(* and of faults: no payload ends the session while both ends have their   *)
(* task, and settings are settled before the first datagram comes back.    *)
(* UdpOrderProofs adds that datagrams stay whole and in order.             *)
(*                                                                         *)
(* IInv ties the state of each stream to its task and the frames under way *)
(* to the opening of the session; it gives SparedWhileRelayed.  SettleInv  *)
(* follows each setting from the frame that carries it to the client.  A   *)
(* lemma that only one proof uses is a step of that proof.                 *)
(***************************************************************************)
EXTENDS UdpRelay, TLAPS

(* Where a leaf names no prover it is for Zenon. *)
USE Zenon

(* A pipe of payloads that are sequences of units of U. *)
Event(U) == [kind : {"data", "eof", "error"}, units : Seq(U)]
Pipe(U) ==
  [queue : Seq(Event(U)), buffer : Seq(U), closed : BOOLEAN, sender : BOOLEAN, receiver : BOOLEAN, endQueued : BOOLEAN]

(* No payload is empty, and an end in the queue was put there by           *)
(* finish_stream.                                                          *)
Proper(p) ==
  \A i \in 1 .. Len(p.queue) : IF p.queue[i].kind = "data" THEN p.queue[i].units # <<>> ELSE p.endQueued

(* Nothing has ended the pipe. *)
Running(p) == ~p.closed /\ ~p.endQueued /\ p.sender

(* The streams are as they should be: a read waits only when the buffer is *)
(* empty.                                                                  *)
StreamInv(U) ==
  /\ closed \in [Sides -> BOOLEAN] /\ mapped \in [Sides -> BOOLEAN] /\ spawned \in [Sides -> BOOLEAN]
  /\ pipe \in [Sides -> Pipe(U)] /\ fut \in [Sides -> Nat]
  /\ \A s \in Sides : Proper(pipe[s]) /\ (fut[s] # 0 => pipe[s].buffer = <<>>)

(* What a step may do to the streams: they are never reopened, and a pipe  *)
(* is ended, or closed by a task, only on a side that is closed.           *)
Safely(U) ==
  /\ StreamInv(U)'
  /\ \A s \in Sides :
       ~closed'[s] => /\ ~closed[s] /\ spawned'[s] = spawned[s]
                      /\ Running(pipe[s]) => Running(pipe'[s])

ReceiversKept == \A s \in Sides : ~closed'[s] /\ pipe[s].receiver => pipe'[s].receiver

(* SYN is among the frames. *)
Pending(q) == \E i \in 1 .. Len(q) : q[i].cmd = "SYN"

(* What comes before SYN opens the session. *)
Before == {"SETTINGS", "HEARTREQUEST"}
SynBehind(q) == \A i \in 1 .. Len(q) : \A j \in i + 1 .. Len(q) : q[j].cmd = "SYN" => q[i].cmd \in Before

(* What a client that opens by o and its server send.  Only a client       *)
(* without settings is alerted.                                            *)
Parts(o) == (0 .. o.packets) \X (1 .. 2)
Sent(o) == [cmd : {"PSH", "FIN", "SYNACK", "SYNERR"}, units : Seq(Parts(o))]
UpFrames(o) ==
  [cmd : {"SYN", "HEARTREQUEST", "PSH", "FIN", "SYNACK", "SYNERR"}, units : Seq(Parts(o))]
    \cup {Settings(o.v, o.padding)}
DownFrames(o) ==
  [cmd : {"PSH", "FIN", "SYNACK", "SYNERR", "HEARTRESPONSE"} \cup (IF o.declares THEN {} ELSE {"ALERT"}),
   units : Seq(Parts(o))]
    \cup {UpdatePadding(ServerPadding), ServerSettings(o.v)}
Frames(o) == UpFrames(o) \cup DownFrames(o)
States(o) == [padding : {o.padding, ServerPadding}, peer : {0, o.v}, settings : BOOLEAN]

LinkTypes(o) ==
  /\ net \in [Sides -> Seq(Frames(o))] /\ net["server"] \in Seq(UpFrames(o)) /\ net["client"] \in Seq(DownFrames(o))
  /\ writer \in [Sides -> {"up", "doomed", "down"}] /\ run \in [Sides -> {"up", "failing", "ended"}]
  /\ holding \in [Sides -> Seq(Parts(o))] /\ lost \in BOOLEAN
  /\ st \in [Sides -> States(o)] /\ st["server"].padding = ServerPadding

(* The task of a side has left without closing the stream. *)
Gone(s) == IF s = "server" THEN hand = "done" ELSE assoc = "dropped"

(* A pipe refuses payloads only after its stream was closed or its task    *)
(* has left.                                                               *)
SideInv(s) ==
  /\ ~closed[s] => Running(pipe[s]) /\ ~spawned[s] /\ (pipe[s].receiver \/ Gone(s))
  /\ writer[s] # "up" => lost
  /\ run[s] # "up" => lost \/ ~opening.declares \/ Gone(s)
  /\ run[s] = "ended" => ~mapped[s]

(* The settings come first and SYN comes before the payloads; SYN opens    *)
(* the stream, unless the settings are missing.                            *)
OpeningOrder ==
  /\ SynBehind(net["server"])
  /\ \A i \in 1 .. Len(net["server"]) :
       /\ net["server"][i].cmd = "SETTINGS" => i = 1 /\ ~st["server"].settings
       /\ net["server"][i].cmd = "SYN" =>
            hand = "new" /\ (opening.declares => st["server"].settings \/ net["server"][1].cmd = "SETTINGS")
  /\ hand # "new" => st["server"].settings

(* A task that is to send FIN has closed the stream. *)
FinBehind == (hand = "fin" => closed["server"]) /\ (assoc = "fin" => closed["client"])

(* The datagrams so far. *)
Counts(o) == appSent \in Nat /\ destSent \in Nat /\ appSent + destSent <= o.packets

(* The inductive invariant of the session, of a client that opens by o. *)
IInv(o) ==
  /\ opening = o /\ o \in Openings /\ StreamInv(Parts(o)) /\ fut \in [Sides -> {0, 1}]
  /\ LinkTypes(o) /\ OpeningOrder /\ FinBehind /\ Counts(o)
  /\ \A s \in Sides : SideInv(s)

-----------------------------------------------------------------------------
(* Sequences.                                                              *)

(* The empty sequence is the one without elements. *)
LEMMA NoElement ==
  ASSUME NEW S
  PROVE  <<>> \in Seq(S) /\ \A q \in Seq(S) : q = <<>> <=> Len(q) = 0
BY SMT

(* Sequences of the same length and elements are equal. *)
LEMMA SameElements ==
  ASSUME NEW S, NEW p \in Seq(S), NEW q \in Seq(S), Len(p) = Len(q), \A i \in 1 .. Len(p) : p[i] = q[i]
  PROVE  p = q
BY SMT

(* A new last element comes behind the others. *)
LEMMA AppendLast ==
  ASSUME NEW S, NEW q \in Seq(S), NEW x \in S
  PROVE  /\ Append(q, x) \in Seq(S) /\ Len(Append(q, x)) = Len(q) + 1
         /\ Append(q, x)[Len(q) + 1] = x /\ \A i \in 1 .. Len(q) : Append(q, x)[i] = q[i]
BY SMT

(* Head and Tail take a sequence apart. *)
LEMMA HeadAndTail ==
  ASSUME NEW S, NEW q \in Seq(S), q # <<>>
  PROVE  /\ Head(q) \in S /\ Tail(q) \in Seq(S) /\ Len(Tail(q)) = Len(q) - 1
         /\ \A i \in 1 .. Len(Tail(q)) : Tail(q)[i] = q[i + 1]
BY SMT

(* What a sequence loses with its head, and gains with a new last element. *)
LEMMA TailElements ==
  ASSUME NEW S, NEW q \in Seq(S), q # <<>>
  PROVE  /\ \A i \in 1 .. Len(Tail(q)) : i + 1 \in 1 .. Len(q) /\ Tail(q)[i] = q[i + 1] /\ i + 1 # 1
         /\ \A i \in 1 .. Len(Tail(q)) : \A j \in i + 1 .. Len(Tail(q)) : j + 1 \in (i + 1) + 1 .. Len(q)
         /\ \A i \in 1 .. Len(Tail(q)) : \A j \in i + 1 .. Len(Tail(q)) : j \in 1 .. Len(Tail(q))
         /\ Tail(q) # <<>> => Head(Tail(q)) = q[2] /\ 2 \in 1 .. Len(q) /\ 2 # 1
         /\ Head(q) = q[1] /\ 1 \in 1 .. Len(q) /\ Head(q) \in S /\ Tail(q) \in Seq(S)
<1> DEFINE l == Len(q)
           r == Tail(q)
<1>1. l \in Nat \ {0} /\ Len(r) = l - 1 /\ \A i \in 1 .. l - 1 : r[i] = q[i + 1]
  BY SMT
<1>2. r # <<>> => l - 1 # 0 /\ Head(r) = r[1]
  BY SMT
<1>3. Head(q) = q[1] /\ Head(q) \in S /\ Tail(q) \in Seq(S)
  BY SMT
<1> HIDE DEF l, r
<1>4. r # <<>> => Head(r) = q[2] /\ 2 \in 1 .. l /\ 2 # 1
  BY SMT, <1>1, <1>2
<1>5. /\ \A i \in 1 .. l - 1 : i + 1 \in 1 .. l /\ r[i] = q[i + 1] /\ i + 1 # 1
      /\ \A i \in 1 .. l - 1 : \A j \in i + 1 .. l - 1 : j + 1 \in (i + 1) + 1 .. l
      /\ \A i \in 1 .. l - 1 : \A j \in i + 1 .. l - 1 : j \in 1 .. l - 1
      /\ 1 \in 1 .. l
  BY SMT, <1>1
<1>6. QED
  BY <1>1, <1>3, <1>4, <1>5 DEF l, r

(* The elements of a sequence with one more behind it, and their pairs. *)
LEMMA AppendElements ==
  ASSUME NEW S, NEW q \in Seq(S), NEW x \in S
  PROVE  /\ Append(q, x) \in Seq(S) /\ Append(q, x) # <<>> /\ Len(Append(q, x)) = Len(q) + 1
         /\ \A i \in 1 .. Len(Append(q, x)) : (i \in 1 .. Len(q) /\ Append(q, x)[i] = q[i])
                                           \/ (i = Len(q) + 1 /\ Append(q, x)[i] = x)
         /\ \A i \in 1 .. Len(Append(q, x)) : \A j \in i + 1 .. Len(Append(q, x)) :
              \/ i \in 1 .. Len(q) /\ j \in 1 .. Len(q) /\ j \in i + 1 .. Len(q) /\ Append(q, x)[j] = q[j]
              \/ i \in 1 .. Len(q) /\ Append(q, x)[j] = x
         /\ q # <<>> => Head(Append(q, x)) = Head(q)
         /\ q = <<>> => Head(Append(q, x)) = x
<1> DEFINE l == Len(q)
           r == Append(q, x)
<1>1. l \in Nat /\ Len(r) = l + 1 /\ r[l + 1] = x /\ \A i \in 1 .. l : r[i] = q[i]
  BY SMT
<1>2. r \in Seq(S) /\ r # <<>>
  <2>1. r \in Seq(S)
    BY SMT
  <2>2. ASSUME r = <<>>
        PROVE  FALSE
    <3>1. Len(r) = 0
      BY SMT, <2>2, NoElement
    <3> HIDE DEF l, r
    <3>2. QED
      BY SMT, <1>1, <3>1
  <2>3. QED
    BY <2>1, <2>2
<1>3. (q # <<>> => Head(r) = Head(q)) /\ (q = <<>> => Head(r) = x)
  <2>1. Head(r) = r[1]
    BY SMT, <1>2
  <2>2. q # <<>> => l # 0 /\ Head(q) = q[1]
    BY SMT
  <2>3. q = <<>> => l = 0
    BY SMT
  <2> HIDE DEF l, r
  <2>4. l # 0 => r[1] = q[1]
    BY SMT, <1>1
  <2>5. l = 0 => r[1] = x
    BY SMT, <1>1
  <2>6. QED
    BY <2>1, <2>2, <2>3, <2>4, <2>5
<1> HIDE DEF l, r
<1>4. \A i \in 1 .. l + 1 : (i \in 1 .. l /\ r[i] = q[i]) \/ (i = l + 1 /\ r[i] = x)
  BY SMT, <1>1
<1>5. \A i \in 1 .. l + 1 : \A j \in i + 1 .. l + 1 :
              \/ i \in 1 .. l /\ j \in 1 .. l /\ j \in i + 1 .. l /\ r[j] = q[j]
              \/ i \in 1 .. l /\ r[j] = x
  BY SMT, <1>1
<1>6. QED
  BY <1>1, <1>2, <1>3, <1>4, <1>5 DEF l, r

(* Frames that one frame, or two, are added to. *)
LEMMA ConcatAppend ==
  ASSUME NEW S, NEW q \in Seq(S), NEW x \in S, NEW y \in S
  PROVE  /\ q \o <<>> = q /\ q \o <<x>> = Append(q, x) /\ q \o <<x, y>> = Append(Append(q, x), y)
         /\ <<x>> \o <<y>> = <<x, y>> /\ <<>> \o <<y>> = <<y>> /\ <<x>> \o <<>> = <<x>> /\ <<>> \o <<>> = <<>>
<1>1. <<>> \in Seq(S) /\ <<x>> \in Seq(S) /\ <<y>> \in Seq(S) /\ <<x, y>> \in Seq(S)
  BY SMT
<1>2. q \o <<>> = q /\ <<>> \o <<y>> = <<y>> /\ <<x>> \o <<>> = <<x>> /\ <<>> \o <<>> = <<>>
  BY SMT, <1>1
<1>3. q \o <<x>> = Append(q, x)
  <2> DEFINE l == q \o <<x>>
             r == Append(q, x)
  <2>1. l \in Seq(S) /\ r \in Seq(S) /\ Len(l) = Len(r) /\ \A i \in 1 .. Len(l) : l[i] = r[i]
    BY SMT, <1>1
  <2>2. QED
    BY <2>1, SameElements
<1>4. q \o <<x, y>> = Append(Append(q, x), y)
  <2> DEFINE l == q \o <<x, y>>
             r == Append(Append(q, x), y)
  <2>1. l \in Seq(S) /\ r \in Seq(S) /\ Len(l) = Len(r) /\ \A i \in 1 .. Len(l) : l[i] = r[i]
    BY SMT, <1>1
  <2>2. QED
    BY <2>1, SameElements
<1>5. <<x>> \o <<y>> = <<x, y>>
  <2> DEFINE l == <<x>> \o <<y>>
             r == <<x, y>>
  <2>1. l \in Seq(S) /\ r \in Seq(S) /\ Len(l) = Len(r) /\ \A i \in 1 .. Len(l) : l[i] = r[i]
    BY SMT, <1>1
  <2>2. QED
    BY <2>1, SameElements
<1>6. QED
  BY <1>2, <1>3, <1>4, <1>5

-----------------------------------------------------------------------------
(* The operators of the pipe.                                              *)

(* A payload that is not empty, and an end that is marked, may come behind *)
(* the queue; the queue may go without its head, or altogether.            *)
LEMMA QueueFacts ==
  ASSUME NEW U, NEW p \in Pipe(U), Proper(p), NEW q \in Pipe(U), p.endQueued => q.endQueued
  PROVE  /\ \A e \in Event(U) : q.queue = Append(p.queue, e) 
                /\ (IF e.kind = "data" THEN e.units # <<>> ELSE q.endQueued) => Proper(q)
         /\ p.queue # <<>> /\ q.queue = Tail(p.queue) => Proper(q)
         /\ q.queue = p.queue => Proper(q)
         /\ q.queue = <<>> => Proper(q)
<1>0. p.queue \in Seq(Event(U)) /\ q.queue \in Seq(Event(U))
  BY DEF Pipe
<1>1. ASSUME NEW e \in Event(U), q.queue = Append(p.queue, e),
             IF e.kind = "data" THEN e.units # <<>> ELSE q.endQueued
      PROVE  Proper(q)
  <2>1. Len(q.queue) = Len(p.queue) + 1 /\ q.queue[Len(p.queue) + 1] = e
        /\ \A i \in 1 .. Len(p.queue) : q.queue[i] = p.queue[i]
    BY SMT, <1>0, <1>1, AppendLast
  <2>2. QED
    BY SMT, <1>0, <1>1, <2>1 DEF Proper
<1>2. ASSUME p.queue # <<>>, q.queue = Tail(p.queue)
      PROVE  Proper(q)
  <2>1. Len(q.queue) = Len(p.queue) - 1 /\ \A i \in 1 .. Len(q.queue) : q.queue[i] = p.queue[i + 1]
    BY SMT, <1>0, <1>2, HeadAndTail
  <2>2. QED
    BY SMTT(30), <1>0, <2>1 DEF Proper
<1>3. QED
  BY SMTT(30), <1>0, <1>1, <1>2 DEF Proper

(* write adds no end to the queue and leaves the pipe as open as it was. *)
LEMMA WriteFacts ==
  ASSUME NEW U, NEW p \in Pipe(U), Proper(p), NEW units \in Seq(U), units # <<>>
  PROVE  /\ Write(p, units) \in Pipe(U) /\ Proper(Write(p, units))
         /\ Running(p) => Running(Write(p, units))
         /\ Write(p, units).receiver = p.receiver /\ Write(p, units).buffer = p.buffer
<1>1. Data(units) \in Event(U)
  BY DEF Data, Event
<1>2. Write(p, units) \in Pipe(U)
  <2>1. Append(p.queue, Data(units)) \in Seq(Event(U))
    BY <1>1, AppendLast DEF Pipe
  <2>2. QED
    BY <2>1 DEF Write, Pipe
<1>3. Write(p, units).queue = Append(p.queue, Data(units)) /\ Write(p, units).endQueued = p.endQueued
  BY DEF Write, Pipe
<1>4. Proper(Write(p, units))
  BY <1>1, <1>2, <1>3, QueueFacts DEF Data
<1>5. QED
  BY <1>2, <1>4 DEF Write, Pipe, Running

(* finish_stream marks the end that it queues. *)
LEMMA FinishFacts ==
  ASSUME NEW U, NEW p \in Pipe(U), Proper(p), NEW kind \in {"eof", "error"}
  PROVE  /\ FinishStream(p, kind) \in Pipe(U) /\ Proper(FinishStream(p, kind))
         /\ FinishStream(p, kind).buffer = p.buffer /\ FinishStream(p, kind).receiver = p.receiver
<1>1. StreamEnd(kind) \in Event(U)
  BY SMT DEF StreamEnd, Event
<1>2. FinishStream(p, kind) \in Pipe(U)
  <2>1. Append(p.queue, StreamEnd(kind)) \in Seq(Event(U))
    BY <1>1, AppendLast DEF Pipe
  <2>2. QED
    BY <2>1 DEF FinishStream, Pipe
<1> DEFINE q == FinishStream(p, kind)
<1>3. q = p \/ (q.endQueued /\ (q.queue = p.queue \/ q.queue = Append(p.queue, StreamEnd(kind))))
  BY DEF FinishStream, Pipe
<1>4. q.buffer = p.buffer /\ q.receiver = p.receiver
  BY DEF FinishStream, Pipe
<1>5. StreamEnd(kind).kind # "data"
  BY SMT DEF StreamEnd
<1> HIDE DEF q
<1>6. Proper(q)
  BY <1>1, <1>2, <1>3, <1>5, QueueFacts DEF q
<1>7. QED
  BY <1>2, <1>4, <1>6 DEF q

(* The spawned close and a dropped read queue nothing; a dropped read takes *)
(* the receiver and nothing else.                                           *)
LEMMA CloseFacts ==
  ASSUME NEW U, NEW p \in Pipe(U), Proper(p)
  PROVE  /\ CloseWithError(p) \in Pipe(U) /\ Proper(CloseWithError(p))
         /\ DropReader(p) \in Pipe(U) /\ Proper(DropReader(p))
         /\ Running(p) => Running(DropReader(p))
         /\ CloseWithError(p).buffer = p.buffer /\ CloseWithError(p).receiver = p.receiver
         /\ DropReader(p).buffer = p.buffer
<1>1. CloseWithError(p) \in Pipe(U) /\ DropReader(p) \in Pipe(U)
  <2>1. <<>> \in Seq(Event(U))
    BY SMT
  <2>2. CloseWithError(p) \in Pipe(U)
    BY DEF CloseWithError, Pipe
  <2>3. DropReader(p) \in Pipe(U)
    BY <2>1 DEF DropReader, Pipe
  <2>4. QED
    BY <2>2, <2>3
<1>2. /\ CloseWithError(p).queue = p.queue /\ CloseWithError(p).endQueued = p.endQueued
      /\ DropReader(p).queue = <<>> /\ DropReader(p).endQueued = p.endQueued
  BY DEF CloseWithError, DropReader, Pipe
<1>3. Proper(CloseWithError(p)) /\ Proper(DropReader(p))
  BY <1>1, <1>2, QueueFacts
<1>4. QED
  BY <1>1, <1>3 DEF CloseWithError, DropReader, Pipe, Running

-----------------------------------------------------------------------------
(* The frames of a side.                                                   *)

(* A frame is taken. *)
LEMMA SynTail ==
  ASSUME NEW S, NEW q \in Seq(S), q # <<>>, SynBehind(q)
  PROVE  SynBehind(Tail(q)) /\ (Pending(Tail(q)) => Pending(q) /\ Head(q).cmd \in Before)
<1> DEFINE l == Len(q)
           r == Tail(q)
<1>1. l \in Nat \ {0} /\ Len(r) = l - 1 /\ Head(q) = q[1] /\ \A i \in 1 .. l - 1 : r[i] = q[i + 1]
  BY SMT
<1>2. \A i \in 1 .. l : \A j \in i + 1 .. l : q[j].cmd = "SYN" => q[i].cmd \in Before
  BY DEF SynBehind
<1> HIDE DEF l, r
<1>3. ASSUME NEW i \in 1 .. l - 1, NEW j \in i + 1 .. l - 1, r[j].cmd = "SYN"
      PROVE  r[i].cmd \in Before
  <2>1. i + 1 \in 1 .. l /\ j + 1 \in (i + 1) + 1 .. l /\ j \in 1 .. l - 1
    BY SMT, <1>1
  <2>2. QED
    BY <1>1, <1>2, <1>3, <2>1
<1>4. ASSUME NEW i \in 1 .. l - 1, r[i].cmd = "SYN"
      PROVE  q[1].cmd \in Before /\ i + 1 \in 1 .. l /\ q[i + 1].cmd = "SYN"
  <2>1. 1 \in 1 .. l /\ i + 1 \in 1 + 1 .. l /\ i + 1 \in 1 .. l
    BY SMT, <1>1
  <2>2. QED
    BY <1>1, <1>2, <1>4, <2>1
<1>5. QED
  BY <1>1, <1>3, <1>4 DEF SynBehind, Pending, l, r

(* A frame other than SYN is sent. *)
LEMMA SynAppend ==
  ASSUME NEW S, NEW q \in Seq(S), NEW x \in S, x.cmd # "SYN", SynBehind(q)
  PROVE  SynBehind(Append(q, x)) /\ (Pending(Append(q, x)) => Pending(q))
<1> DEFINE r == Append(q, x)
<1>1. /\ \A i \in 1 .. Len(r) : (i \in 1 .. Len(q) /\ r[i] = q[i]) \/ (i = Len(q) + 1 /\ r[i] = x)
      /\ \A i \in 1 .. Len(r) : \A j \in i + 1 .. Len(r) :
           \/ i \in 1 .. Len(q) /\ j \in 1 .. Len(q) /\ j \in i + 1 .. Len(q) /\ r[j] = q[j]
           \/ i \in 1 .. Len(q) /\ r[j] = x
  BY AppendElements
<1>2. ASSUME NEW i \in 1 .. Len(r), NEW j \in i + 1 .. Len(r), r[j].cmd = "SYN"
      PROVE  r[i].cmd \in Before
  <2>1. i \in 1 .. Len(q) /\ j \in i + 1 .. Len(q) /\ r[j] = q[j]
    BY <1>1, <1>2
  <2>2. i # Len(q) + 1
    BY SMT, <2>1
  <2>3. r[i] = q[i]
    BY <1>1, <2>2
  <2>4. QED
    BY <1>2, <2>1, <2>3 DEF SynBehind
<1>3. Pending(r) => Pending(q)
  BY <1>1 DEF Pending
<1> HIDE DEF r
<1>4. QED
  BY <1>2, <1>3 DEF SynBehind, r

-----------------------------------------------------------------------------
(* Frames.                                                                 *)

(* The frames that tasks send, and those the engine sends. *)
LEMMA FrameTypes ==
  ASSUME NEW o
  PROVE  /\ \A cmd \in {"FIN", "SYNACK", "SYNERR"} : Frame(cmd) \in Sent(o)
         /\ \A units \in Seq(Parts(o)) : Psh(units) \in Sent(o)
         /\ \A x \in Sent(o) : x \in UpFrames(o) /\ x \in DownFrames(o) /\ x \in Frames(o) /\ x.cmd \notin {"SYN", "SETTINGS"}
         /\ Frame("HEARTRESPONSE") \in DownFrames(o) /\ UpdatePadding(ServerPadding) \in DownFrames(o)
         /\ ServerSettings(o.v) \in DownFrames(o)
         /\ ~o.declares => Frame("ALERT") \in DownFrames(o)
         /\ \A x \in DownFrames(o) : x \in Frames(o) /\ x.cmd # "SYN"
<1>1. <<>> \in Seq(Parts(o))
  BY SMT
<1>2. /\ \A cmd \in {"FIN", "SYNACK", "SYNERR"} : Frame(cmd) \in Sent(o)
      /\ \A units \in Seq(Parts(o)) : Psh(units) \in Sent(o)
  BY <1>1 DEF Frame, Psh, Sent
<1>3. \A x \in Sent(o) : x \in UpFrames(o) /\ x \in DownFrames(o) /\ x \in Frames(o) /\ x.cmd \notin {"SYN", "SETTINGS"}
  BY DEF Sent, UpFrames, DownFrames, Frames
<1>4. Frame("HEARTRESPONSE") \in DownFrames(o) /\ (~o.declares => Frame("ALERT") \in DownFrames(o))
  BY <1>1 DEF Frame, DownFrames
<1>5. UpdatePadding(ServerPadding) \in DownFrames(o) /\ ServerSettings(o.v) \in DownFrames(o)
  BY DEF DownFrames
<1>6. \A x \in DownFrames(o) : x \in Frames(o) /\ x.cmd # "SYN"
  BY SMT DEF Frames, DownFrames, UpdatePadding, ServerSettings
<1>7. QED
  BY <1>2, <1>3, <1>4, <1>5, <1>6

(* Which frames come to which side. *)
LEMMA HeadFacts ==
  ASSUME NEW o, LinkTypes(o), NEW s \in Sides, net[s] # <<>>
  PROVE  /\ Consumed(s) \in [Sides -> Seq(Frames(o))]
         /\ Consumed(s)["server"] \in Seq(UpFrames(o)) /\ Consumed(s)["client"] \in Seq(DownFrames(o))
         /\ Head(net[s]).cmd = "PSH" => Head(net[s]).units \in Seq(Parts(o))
         /\ Head(net[s]).cmd \in {"SYN", "HEARTREQUEST", "SETTINGS"} => s = "server"
         /\ Head(net[s]).cmd = "SETTINGS" => Head(net[s]).v = o.v /\ Head(net[s]).padding = o.padding
         /\ Head(net[s]).cmd \in {"SERVERSETTINGS", "UPDATEPADDING", "ALERT"} => s = "client"
         /\ Head(net[s]).cmd = "SERVERSETTINGS" => Head(net[s]).v = o.v
         /\ Head(net[s]).cmd = "UPDATEPADDING" => Head(net[s]).padding = ServerPadding
         /\ Head(net[s]).cmd = "ALERT" => ~o.declares
<1> DEFINE x == Head(net[s])
<1>1. s \in {"client", "server"} /\ net \in [Sides -> Seq(Frames(o))]
  BY DEF Sides, LinkTypes
<1>2. Tail(net[s]) \in Seq(Frames(o))
  BY HeadAndTail DEF LinkTypes
<1>3. CASE s = "server"
  <2>1. x \in UpFrames(o) /\ Tail(net[s]) \in Seq(UpFrames(o))
    BY <1>3, HeadAndTail DEF LinkTypes
  <2>2. /\ Consumed(s) \in [Sides -> Seq(Frames(o))]
        /\ Consumed(s)["server"] \in Seq(UpFrames(o)) /\ Consumed(s)["client"] \in Seq(DownFrames(o))
    BY <1>2, <1>3, <2>1 DEF Consumed, LinkTypes, Sides
  <2> HIDE DEF x
  <2>3. /\ x.cmd = "PSH" => x.units \in Seq(Parts(o))
        /\ x.cmd = "SETTINGS" => x.v = o.v /\ x.padding = o.padding
        /\ x.cmd \notin {"SERVERSETTINGS", "UPDATEPADDING", "ALERT"}
    BY SMT, <2>1 DEF UpFrames, Settings
  <2>4. QED
    BY <1>3, <2>2, <2>3 DEF x
<1>4. CASE s = "client"
  <2>1. x \in DownFrames(o) /\ Tail(net[s]) \in Seq(DownFrames(o))
    BY <1>4, HeadAndTail DEF LinkTypes
  <2>2. /\ Consumed(s) \in [Sides -> Seq(Frames(o))]
        /\ Consumed(s)["server"] \in Seq(UpFrames(o)) /\ Consumed(s)["client"] \in Seq(DownFrames(o))
    BY <1>2, <1>4, <2>1 DEF Consumed, LinkTypes, Sides
  <2> HIDE DEF x
  <2>3. /\ x.cmd = "PSH" => x.units \in Seq(Parts(o))
        /\ x.cmd \notin {"SYN", "HEARTREQUEST", "SETTINGS"}
        /\ x.cmd = "SERVERSETTINGS" => x.v = o.v
        /\ x.cmd = "UPDATEPADDING" => x.padding = ServerPadding
        /\ x.cmd = "ALERT" => ~o.declares
    BY SMT, <2>1 DEF DownFrames, UpdatePadding, ServerSettings
  <2>4. QED
    BY <1>4, <2>2, <2>3 DEF x
<1>5. QED
  BY <1>1, <1>3, <1>4

-----------------------------------------------------------------------------
(* Steps of the session.                                                   *)

(* What a step may do to the streams, to the frames and to the tasks. *)
StreamsMove(o) ==
  /\ Safely(Parts(o)) /\ fut' \in [Sides -> {0, 1}]
  /\ \A s \in Sides : ~closed'[s] /\ pipe[s].receiver => pipe'[s].receiver \/ Gone(s)'
LinksMove(o) ==
  /\ LinkTypes(o)' /\ (lost => lost')
  /\ \A s \in Sides :
       /\ writer'[s] # "up" => writer[s] # "up" \/ lost'
       /\ run'[s] # "up" => run[s] # "up" \/ lost' \/ ~o.declares \/ Gone(s)'
       /\ run'[s] = "ended" => ~mapped'[s]
TasksMove(o) == opening' = opening /\ FinBehind' /\ Counts(o)' /\ \A s \in Sides : Gone(s) => Gone(s)'

(* A step of the task of side s. *)
TaskStep(o, s) ==
  /\ UNCHANGED <<run, holding, lost, st>>
  /\ UNCHANGED <<net, writer>> \/ \E x \in Sent(o) : Send(s, x)
  /\ \/ UNCHANGED streamVars
     \/ CloseStream(s) /\ UNCHANGED <<pipe, fut>>
     \/ Waits(s, 1) /\ UNCHANGED <<closed, mapped, pipe, spawned>>
     \/ TakeAnswer(s, 1) /\ UNCHANGED <<closed, mapped, spawned>>
     \/ Leave(s) /\ (closed[s] \/ Gone(s)') /\ UNCHANGED <<closed, mapped, spawned>>
  /\ hand' = "new" <=> hand = "new"

-----------------------------------------------------------------------------
(* The receive loop.                                                       *)

(* Frames of the server go behind those under way to the client. *)
LEMMA ReplyTypes ==
  ASSUME NEW o, LinkTypes(o), net["server"] # <<>>, NEW r \in Seq(DownFrames(o)),
         net' = [Consumed("server") EXCEPT !["client"] = @ \o r]
  PROVE  /\ net' \in [Sides -> Seq(Frames(o))]
         /\ net'["server"] \in Seq(UpFrames(o)) /\ net'["client"] \in Seq(DownFrames(o))
         /\ net'["server"] = Consumed("server")["server"] /\ net'["client"] = net["client"] \o r
<1>1. "client" \in Sides /\ "server" \in Sides /\ "client" # "server"
  BY SMT DEF Sides
<1>2. /\ Consumed("server") \in [Sides -> Seq(Frames(o))] /\ Consumed("server")["server"] \in Seq(UpFrames(o))
      /\ Consumed("server")["client"] = net["client"] /\ net["client"] \in Seq(DownFrames(o))
  <2>1. Consumed("server") \in [Sides -> Seq(Frames(o))] /\ Consumed("server")["server"] \in Seq(UpFrames(o))
    BY <1>1, HeadFacts
  <2>2. QED
    BY <1>1, <2>1 DEF Consumed, LinkTypes
<1> DEFINE c == Consumed("server")
<1> HIDE DEF c
<1>3. net["client"] \o r \in Seq(DownFrames(o))
  BY SMT, <1>2
<1>4. net["client"] \o r \in Seq(Frames(o))
  <2>1. net["client"] \in Seq(Frames(o)) /\ r \in Seq(Frames(o))
    <3>1. \A x \in DownFrames(o) : x \in Frames(o)
      BY FrameTypes
    <3>2. net["client"] \in Seq(Frames(o))
      BY <1>1 DEF LinkTypes
    <3>3. r \in Seq(Frames(o))
      BY SMT, <3>1
    <3>4. QED
      BY <3>2, <3>3
  <2>2. QED
    BY SMT, <2>1
<1>5. net' = [c EXCEPT !["client"] = net["client"] \o r]
  BY <1>2 DEF c
<1>6. QED
  BY <1>1, <1>2, <1>3, <1>4, <1>5 DEF c

(* What the server answers to the settings of the client. *)
LEMMA SettingsReplyTypes ==
  ASSUME NEW o
  PROVE  /\ SettingsReply(ServerPadding, o.v, o.padding) \in Seq(DownFrames(o))
         /\ <<Frame("HEARTRESPONSE")>> \in Seq(DownFrames(o))
         /\ ~o.declares => <<Frame("ALERT")>> \in Seq(DownFrames(o))
<1> DEFINE D == DownFrames(o)
           x == UpdatePadding(ServerPadding)
           y == ServerSettings(o.v)
           z == Frame("HEARTRESPONSE")
           w == Frame("ALERT")
<1>1. x \in D /\ y \in D /\ z \in D /\ (~o.declares => w \in D)
  BY FrameTypes
<1>2. SettingsReply(ServerPadding, o.v, o.padding) =
        (IF o.padding = ServerPadding THEN <<>> ELSE <<x>>) \o (IF o.v < MinVersion THEN <<>> ELSE <<y>>)
  BY DEF SettingsReply
<1> HIDE DEF D, x, y, z, w
<1>3. (IF o.padding = ServerPadding THEN <<>> ELSE <<x>>) \o (IF o.v < MinVersion THEN <<>> ELSE <<y>>) \in Seq(D)
  BY SMT, <1>1
<1>4. <<z>> \in Seq(D) /\ (~o.declares => <<w>> \in Seq(D))
  BY SMT, <1>1
<1>5. QED
  BY <1>2, <1>3, <1>4 DEF D, z, w

(* What receiving a frame leaves of the frames, the settings and the tasks. *)
Receives(o, s) ==
  /\ net[s] # <<>> /\ LinkTypes(o)' /\ net'["server"] = Consumed(s)["server"] /\ lost' = lost
  /\ \A t \in Sides :
       /\ writer'[t] # "up" => writer[t] # "up" \/ lost
       /\ run'[t] # "up" => run[t] # "up" \/ lost \/ ~o.declares
       /\ run'[t] = "ended" => run[t] = "ended" /\ t # s
Settles(s) ==
  /\ s = "server" /\ Head(net[s]).cmd = "SETTINGS" => st'["server"].settings
  /\ ~(s = "server" /\ Head(net[s]).cmd = "SETTINGS") => st'["server"].settings = st["server"].settings
Spawns(s) ==
  hand' = hand \/ (hand = "new" /\ hand' = "check" /\ s = "server" /\ Head(net[s]).cmd = "SYN" /\ st["server"].settings)

(* SYN opens the stream; it is refused only if the settings are missing. *)
LEMMA SynFacts ==
  ASSUME NEW o, IInv(o), NEW s \in Sides, net[s] # <<>>, Head(net[s]).cmd = "SYN"
  PROVE  s = "server" /\ hand = "new" /\ (o.declares => st["server"].settings)
<1>1. s = "server"
  BY HeadFacts DEF IInv
<1>2. net["server"] \in Seq(UpFrames(o)) /\ OpeningOrder /\ opening = o
  BY DEF IInv, LinkTypes
<1>3. Head(net["server"]) = net["server"][1] /\ 1 \in 1 .. Len(net["server"])
  BY <1>1, <1>2, TailElements
<1>4. QED
  BY <1>1, <1>2, <1>3 DEF OpeningOrder

-----------------------------------------------------------------------------
(* The tasks of the association.                                           *)

(* What the tasks send are payloads of parts. *)
LEMMA PacketTypes ==
  ASSUME NEW o \in Openings
  PROVE  /\ o.packets \in Nat /\ Sentinel \in Seq(Parts(o)) /\ Request \in Seq(Parts(o))
         /\ \A i \in 0 .. o.packets : Packet(i) \in Seq(Parts(o))
<1>1. o.packets \in Nat
  BY UdpAssumption
<1>2. \A i \in 0 .. o.packets : <<i, 1>> \in Parts(o) /\ <<i, 2>> \in Parts(o)
  BY SMT, <1>1 DEF Parts
<1>3. Sentinel \in Seq(Parts(o)) /\ Request \in Seq(Parts(o))
  BY SMT, <1>1, <1>2 DEF Sentinel, Request
<1>4. ASSUME NEW i \in 0 .. o.packets
      PROVE  Packet(i) \in Seq(Parts(o))
  BY SMT, <1>2 DEF Packet
<1>5. QED
  BY <1>1, <1>3, <1>4

(* FIN, or nothing if the writer is gone. *)
LEMMA FinSent ==
  ASSUME NEW o, NEW s, SendFin(s)
  PROVE  UNCHANGED <<net, writer>> \/ \E x \in Sent(o) : Send(s, x)
BY FrameTypes DEF SendFin

(* The steps of handle_udp_associate. *)
LEMMA CliSteps ==
  ASSUME NEW o, IInv(o), CliTask \/ CliUp \/ CliEnd \/ CliBreak
  PROVE  TaskStep(o, "client") /\ TasksMove(o)
<1>1. opening = o /\ o \in Openings /\ Counts(o) /\ FinBehind /\ Gone("client") = (assoc = "dropped")
  BY DEF IInv, Gone
<1>2. opening' = opening /\ hand' = hand /\ destSent' = destSent /\ UNCHANGED <<run, holding, lost, st>>
  BY DEF CliTask, CliRequest, CliClose, CliFin, CliWait, CliRead, CliUp, CliEnd, CliBreak, handVars, udpVars, linkVars
<1>3. /\ assoc # "dropped" /\ (\A s \in Sides : Gone(s) => Gone(s)')
      /\ Gone("client")' = (assoc' = "dropped")
  <2>1. assoc # "dropped"
    BY DEF CliTask, CliRequest, CliClose, CliFin, CliWait, CliRead, CliUp, CliEnd, CliBreak
  <2>2. QED
    BY <1>2, <2>1 DEF Gone, Sides
<1>4. o.packets \in Nat /\ Sentinel \in Seq(Parts(o)) /\ Request \in Seq(Parts(o))
  BY <1>1, PacketTypes
<1>5. CASE CliRequest
  <2>1. UNCHANGED streamVars /\ appSent' = appSent /\ assoc' # "fin"
    BY <1>5 DEF CliRequest
  <2>2. UNCHANGED <<net, writer>> \/ \E x \in Sent(o) : Send("client", x)
    <3>1. Psh(IF assoc = "dest" THEN Sentinel ELSE Request) \in Sent(o)
      BY <1>4, FrameTypes
    <3>2. QED
      BY <1>5, <3>1 DEF CliRequest
  <2>3. TasksMove(o)
    BY <1>1, <1>2, <1>3, <2>1 DEF TasksMove, FinBehind, Counts, streamVars
  <2>4. QED
    BY <1>2, <2>1, <2>2, <2>3 DEF TaskStep
<1>6. CASE CliUp
  <2>1. /\ appSent' = appSent + 1 /\ appSent + destSent < o.packets /\ UNCHANGED <<closed, mapped, spawned>>
        /\ assoc' # "fin"
    BY <1>1, <1>6 DEF CliUp
  <2>2. appSent' \in 0 .. o.packets /\ Counts(o)'
    BY SMT, <1>1, <1>2, <1>4, <2>1 DEF Counts
  <2>3. Psh(Packet(appSent')) \in Sent(o)
    <3>1. Packet(appSent') \in Seq(Parts(o))
      BY <1>1, <2>2, PacketTypes
    <3>2. QED
      BY <3>1, FrameTypes
  <2>4. TasksMove(o)
    BY <1>1, <1>2, <1>3, <2>1, <2>2 DEF TasksMove, FinBehind
  <2>5. CASE Usable("client")
    <3>1. Send("client", Psh(Packet(appSent'))) /\ UNCHANGED streamVars
      BY <1>6, <2>1, <2>5 DEF CliUp, streamVars
    <3>2. QED
      BY <1>2, <2>3, <2>4, <3>1 DEF TaskStep
  <2>6. CASE ~Usable("client")
    <3>1. assoc' = "dropped" /\ Leave("client") /\ UNCHANGED <<net, writer>>
      BY <1>6, <2>6 DEF CliUp
    <3>2. QED
      BY <1>2, <1>3, <2>1, <2>4, <3>1 DEF TaskStep
  <2>7. QED
    BY <2>5, <2>6
<1>7. CASE CliEnd \/ CliBreak
  <2>1. UNCHANGED <<closed, mapped, spawned, net, writer, appSent>> /\ assoc' # "fin"
    BY <1>7 DEF CliEnd, CliBreak, streamVars, linkVars
  <2>2. TasksMove(o)
    BY <1>1, <1>2, <1>3, <2>1 DEF TasksMove, FinBehind, Counts
  <2>3. UNCHANGED streamVars \/ (Leave("client") /\ assoc' = "dropped")
    BY <1>7 DEF CliEnd, CliBreak
  <2>4. QED
    BY <1>2, <1>3, <2>1, <2>2, <2>3 DEF TaskStep
<1>8. CASE CliClose
  <2>1. UNCHANGED <<net, writer, appSent>>
    BY <1>8 DEF CliClose, linkVars
  <2>2. CASE closed["client"]
    <3>1. assoc' = "done" /\ Leave("client") /\ UNCHANGED <<closed, mapped, spawned>>
      BY <1>8, <2>2 DEF CliClose
    <3>2. TasksMove(o)
      BY <1>1, <1>2, <1>3, <2>1, <3>1 DEF TasksMove, FinBehind, Counts
    <3>3. QED
      BY <1>2, <2>1, <2>2, <3>1, <3>2 DEF TaskStep
  <2>3. CASE ~closed["client"]
    <3>1. CloseStream("client") /\ UNCHANGED <<pipe, fut>>
      BY <1>8, <2>3 DEF CliClose
    <3>2. closed'["client"] /\ closed'["server"] = closed["server"]
      BY <3>1 DEF CloseStream, IInv, StreamInv, Sides
    <3>3. TasksMove(o)
      BY <1>1, <1>2, <1>3, <2>1, <3>2 DEF TasksMove, FinBehind, Counts
    <3>4. QED
      BY <1>2, <2>1, <3>1, <3>3 DEF TaskStep
  <2>4. QED
    BY <2>2, <2>3
<1>9. CASE CliFin
  <2>1. /\ assoc' = "done" /\ Leave("client") /\ UNCHANGED <<closed, mapped, spawned, appSent>> /\ closed["client"]
        /\ SendFin("client")
    BY <1>1, <1>9 DEF CliFin, FinBehind
  <2>2. TasksMove(o)
    BY <1>1, <1>2, <1>3, <2>1 DEF TasksMove, FinBehind, Counts
  <2>3. UNCHANGED <<net, writer>> \/ \E x \in Sent(o) : Send("client", x)
    BY <2>1, FinSent
  <2>4. QED
    BY <1>2, <2>1, <2>2, <2>3 DEF TaskStep
<1>10. CASE CliWait \/ CliRead
  <2>1. /\ (Waits("client", 1) /\ UNCHANGED pipe) \/ TakeAnswer("client", 1)
        /\ UNCHANGED <<closed, mapped, spawned, appSent, net, writer>> /\ assoc' # "fin"
    BY <1>10 DEF CliWait, CliRead, udpVars, linkVars
  <2>2. TasksMove(o)
    BY <1>1, <1>2, <1>3, <2>1 DEF TasksMove, FinBehind, Counts
  <2>3. QED
    BY <1>2, <2>1, <2>2 DEF TaskStep
<1>11. QED
  BY <1>5, <1>6, <1>7, <1>8, <1>9, <1>10 DEF CliTask

(* The steps of handle_session and of the relay. *)
LEMMA SrvSteps ==
  ASSUME NEW o, IInv(o), SrvTask \/ SrvTickApproved \/ SrvDown \/ SrvError
  PROVE  TaskStep(o, "server") /\ TasksMove(o)
<1>1. opening = o /\ o \in Openings /\ Counts(o) /\ FinBehind /\ Gone("server") = (hand = "done")
  BY DEF IInv, Gone
<1>2. opening' = opening /\ assoc' = assoc /\ appSent' = appSent /\ UNCHANGED <<run, holding, lost, st>>
  BY DEF SrvTask, HandCheck, HandClose, HandFin, SrvWait, SrvOpen, SrvBind, SrvTick, SrvRead, SrvTickApproved,
     SrvDown, SrvError, udpVars, linkVars
<1>3. hand # "done" /\ hand # "new" /\ hand' # "new"
  BY DEF SrvTask, HandCheck, HandClose, HandFin, SrvWait, SrvOpen, SrvBind, SrvTick, SrvRead, SrvTickApproved,
     SrvDown, SrvError, handVars
<1>4. (\A s \in Sides : Gone(s) => Gone(s)') /\ Gone("server")' = (hand' = "done")
  BY <1>2, <1>3 DEF Gone, Sides
<1>5. o.packets \in Nat /\ \A cmd \in {"FIN", "SYNACK", "SYNERR"} : Frame(cmd) \in Sent(o)
  BY <1>1, PacketTypes, FrameTypes
<1>6. CASE HandCheck /\ UNCHANGED udpVars
  <2>1. UNCHANGED <<net, writer, destSent>>
    BY <1>6 DEF HandCheck, linkVars, udpVars
  <2>2. CASE UNCHANGED streamVars /\ hand' = "dest"
    <3>1. TasksMove(o)
      BY <1>1, <1>2, <1>4, <2>1, <2>2 DEF TasksMove, FinBehind, Counts, streamVars
    <3>2. QED
      BY <1>2, <1>3, <2>1, <2>2, <3>1 DEF TaskStep
  <2>3. CASE CloseStream("server") /\ UNCHANGED <<pipe, fut>>
    <3>1. closed'["server"] /\ closed'["client"] = closed["client"]
      BY <2>3 DEF CloseStream, IInv, StreamInv, Sides
    <3>2. TasksMove(o)
      BY <1>1, <1>2, <1>4, <2>1, <3>1 DEF TasksMove, FinBehind, Counts
    <3>3. QED
      BY <1>2, <1>3, <2>1, <2>3, <3>2 DEF TaskStep
  <2>4. CASE hand' = "done" /\ Leave("server") /\ UNCHANGED <<closed, mapped, spawned>>
    <3>1. TasksMove(o)
      BY <1>1, <1>2, <1>4, <2>1, <2>4 DEF TasksMove, FinBehind, Counts
    <3>2. QED
      BY <1>2, <1>3, <1>4, <2>1, <2>4, <3>1 DEF TaskStep
  <2>5. QED
    BY <1>6, <2>2, <2>3, <2>4 DEF HandCheck
<1>7. CASE (HandClose /\ UNCHANGED udpVars) \/ SrvTick
  <2>1. UNCHANGED <<net, writer, destSent, pipe, fut>>
    BY <1>7 DEF HandClose, SrvTick, linkVars, udpVars
  <2>2. CASE UNCHANGED <<closed, mapped, spawned>> /\ hand' # "fin"
    <3>1. TasksMove(o)
      BY <1>1, <1>2, <1>4, <2>1, <2>2 DEF TasksMove, FinBehind, Counts
    <3>2. UNCHANGED streamVars
      BY <2>1, <2>2 DEF streamVars
    <3>3. QED
      BY <1>2, <1>3, <2>1, <3>1, <3>2 DEF TaskStep
  <2>3. CASE CloseStream("server")
    <3>1. closed'["server"] /\ closed'["client"] = closed["client"]
      BY <2>3 DEF CloseStream, IInv, StreamInv, Sides
    <3>2. TasksMove(o)
      BY <1>1, <1>2, <1>4, <2>1, <3>1 DEF TasksMove, FinBehind, Counts
    <3>3. QED
      BY <1>2, <1>3, <2>1, <2>3, <3>2 DEF TaskStep
  <2>4. QED
    BY <1>7, <2>2, <2>3 DEF HandClose, SrvTick
<1>8. CASE HandFin /\ UNCHANGED udpVars
  <2>1. hand' = "done" /\ Leave("server") /\ UNCHANGED <<closed, mapped, spawned, destSent>> /\ SendFin("server")
    BY <1>8 DEF HandFin, udpVars
  <2>2. TasksMove(o)
    BY <1>1, <1>2, <1>4, <2>1 DEF TasksMove, FinBehind, Counts
  <2>3. UNCHANGED <<net, writer>> \/ \E x \in Sent(o) : Send("server", x)
    BY <2>1, FinSent
  <2>4. QED
    BY <1>2, <1>3, <1>4, <2>1, <2>2, <2>3 DEF TaskStep
<1>9. CASE SrvWait \/ SrvOpen \/ SrvRead
  <2>1. /\ (Waits("server", 1) /\ UNCHANGED pipe) \/ TakeAnswer("server", 1)
        /\ UNCHANGED <<closed, mapped, spawned, destSent, net, writer>> /\ hand' # "fin"
    BY <1>9 DEF SrvWait, SrvOpen, SrvRead, udpVars, linkVars, handVars
  <2>2. TasksMove(o)
    BY <1>1, <1>2, <1>4, <2>1 DEF TasksMove, FinBehind, Counts
  <2>3. QED
    BY <1>2, <1>3, <2>1, <2>2 DEF TaskStep
<1>10. CASE SrvBind
  <2>1. UNCHANGED streamVars /\ destSent' = destSent /\ hand' # "fin"
    BY <1>10 DEF SrvBind
  <2>2. UNCHANGED <<net, writer>> \/ Tell("SYNERR") \/ Tell("SYNACK")
    BY <1>10 DEF SrvBind
  <2>3. UNCHANGED <<net, writer>> \/ \E x \in Sent(o) : Send("server", x)
    BY <1>5, <2>2 DEF Tell
  <2>4. TasksMove(o)
    BY <1>1, <1>2, <1>4, <2>1 DEF TasksMove, FinBehind, Counts, streamVars
  <2>5. QED
    BY <1>2, <1>3, <2>1, <2>3, <2>4 DEF TaskStep
<1>11. CASE SrvTickApproved
  <2>1. UNCHANGED streamVars /\ UNCHANGED <<net, writer, hand, destSent>>
    BY <1>11 DEF SrvTickApproved, linkVars, handVars
  <2>2. TasksMove(o)
    BY <1>1, <1>2, <1>4, <2>1 DEF TasksMove, FinBehind, Counts, streamVars
  <2>3. QED
    BY <1>2, <1>3, <2>1, <2>2 DEF TaskStep
<1>12. CASE SrvDown
  <2>1. /\ destSent' = destSent + 1 /\ appSent + destSent < o.packets /\ UNCHANGED <<closed, mapped, spawned>>
        /\ hand' # "fin"
    BY <1>1, <1>12 DEF SrvDown
  <2>2. destSent' \in 0 .. o.packets /\ Counts(o)'
    BY SMT, <1>1, <1>2, <1>5, <2>1 DEF Counts
  <2>3. Psh(Packet(destSent')) \in Sent(o)
    <3>1. Packet(destSent') \in Seq(Parts(o))
      BY <1>1, <2>2, PacketTypes
    <3>2. QED
      BY <3>1, FrameTypes
  <2>4. TasksMove(o)
    BY <1>1, <1>2, <1>4, <2>1, <2>2 DEF TasksMove, FinBehind
  <2>5. CASE Usable("server")
    <3>1. Send("server", Psh(Packet(destSent'))) /\ UNCHANGED streamVars
      BY <1>12, <2>1, <2>5 DEF SrvDown, streamVars
    <3>2. QED
      BY <1>2, <1>3, <2>3, <2>4, <3>1 DEF TaskStep
  <2>6. CASE ~Usable("server")
    <3>1. hand' = "done" /\ Leave("server") /\ UNCHANGED <<net, writer>>
      BY <1>12, <2>6 DEF SrvDown
    <3>2. QED
      BY <1>2, <1>3, <1>4, <2>1, <2>4, <3>1 DEF TaskStep
  <2>7. QED
    BY <2>5, <2>6
<1>13. CASE SrvError
  <2>1. hand' = "done" /\ Leave("server") /\ UNCHANGED <<closed, mapped, spawned, net, writer, destSent>>
    BY <1>13 DEF SrvError, linkVars
  <2>2. TasksMove(o)
    BY <1>1, <1>2, <1>4, <2>1 DEF TasksMove, FinBehind, Counts
  <2>3. QED
    BY <1>2, <1>3, <1>4, <2>1, <2>2 DEF TaskStep
<1>14. QED
  BY <1>6, <1>7, <1>8, <1>9, <1>10, <1>11, <1>12, <1>13 DEF SrvTask

(* Every step keeps the invariant. *)
LEMMA NextPreserves ==
  \A o : IInv(o) /\ [Next]_vars => IInv(o)'
(* Leaving the streams alone is safe. *)
<1>1. ASSUME NEW U, StreamInv(U), UNCHANGED streamVars
      PROVE  Safely(U) /\ ReceiversKept
  BY <1>1 DEF StreamInv, streamVars, Safely, ReceiversKept

(* Stream::close marks the stream before it spawns the close of the pipe. *)
<1>2. ASSUME NEW U, StreamInv(U), NEW s \in Sides, CloseStream(s), UNCHANGED <<pipe, fut>>
      PROVE  Safely(U) /\ ReceiversKept /\ closed'[s] /\ \A t \in Sides : closed[t] => closed'[t]
  BY <1>2 DEF CloseStream, StreamInv, Safely, ReceiversKept

(* The task it spawns finds it marked. *)
<1>3. ASSUME NEW U, StreamInv(U), NEW s \in Sides, ClosePipe(s), closed[s]
      PROVE  Safely(U) /\ ReceiversKept
  <2> USE <1>3
  <2>1. /\ CloseWithError(pipe[s]) \in Pipe(U) /\ Proper(CloseWithError(pipe[s]))
        /\ CloseWithError(pipe[s]).buffer = pipe[s].buffer
    BY CloseFacts DEF StreamInv
  <2>2. QED
    BY ZenonT(30), <2>1 DEF ClosePipe, StreamInv, Safely, ReceiversKept

(* An end from the peer or the session marks the stream as it finishes the *)
(* pipe.                                                                   *)
<1>4. ASSUME NEW U, StreamInv(U), NEW s \in Sides, NEW kind \in {"eof", "error"}, EndStream(s, kind),
             UNCHANGED <<spawned, fut>>
      PROVE  Safely(U) /\ ReceiversKept /\ ~mapped'[s]
  <2> USE <1>4
  <2>1. /\ FinishStream(pipe[s], kind) \in Pipe(U) /\ Proper(FinishStream(pipe[s], kind))
        /\ FinishStream(pipe[s], kind).buffer = pipe[s].buffer
    BY FinishFacts DEF StreamInv
  <2>2. CASE mapped[s]
    BY ZenonT(30), <2>1, <2>2 DEF EndStream, StreamInv, Safely, ReceiversKept
  <2>3. CASE ~mapped[s]
    <3>1. pipe' = pipe /\ closed' = closed /\ mapped' = [mapped EXCEPT ![s] = FALSE]
      BY <2>3 DEF EndStream, StreamInv
    <3>2. QED
      BY <3>1 DEF StreamInv, Safely, ReceiversKept
  <2>4. QED
    BY <2>2, <2>3

(* A payload that is pushed, or found no use for. *)
<1>5. ASSUME NEW U, StreamInv(U), NEW s \in Sides, Push(s), holding[s] \in Seq(U)
      PROVE  Safely(U) /\ ReceiversKept
  <2> USE <1>5
  <2>1. CASE UNCHANGED pipe
    BY <2>1, <1>1 DEF Push, streamVars
  <2>2. CASE pipe' = [pipe EXCEPT ![s] = IF CanWrite(@) THEN Write(@, holding[s]) ELSE @]
    <3>1. CASE CanWrite(pipe[s])
      <4> DEFINE q == Write(pipe[s], holding[s])
      <4>0. pipe[s] \in Pipe(U) /\ Proper(pipe[s]) /\ holding[s] # <<>>
        BY DEF Push, StreamInv
      <4>1. /\ q \in Pipe(U) /\ Proper(q) /\ (Running(pipe[s]) => Running(q))
            /\ q.receiver = pipe[s].receiver /\ q.buffer = pipe[s].buffer
        BY <4>0, WriteFacts
      <4>2. pipe' = [pipe EXCEPT ![s] = q]
        BY <2>2, <3>1
      <4> HIDE DEF q
      <4>3. QED
        BY ZenonT(30), <4>1, <4>2 DEF Push, StreamInv, Safely, ReceiversKept
    <3>2. CASE ~CanWrite(pipe[s])
      BY <2>2, <3>2, <1>1 DEF Push, streamVars, StreamInv
    <3>3. QED
      BY <3>1, <3>2
  <2>3. QED
    BY <2>1, <2>2 DEF Push

(* A read only ends a pipe whose end was queued. *)
<1>6. \A U : StreamInv(U) =>
        \A s \in Sides, n \in Nat :
          TakeAnswer(s, n) /\ UNCHANGED <<closed, mapped, spawned>> =>
            Safely(U) /\ ReceiversKept /\ \A t \in Sides \ {s} : pipe'[t] = pipe[t]
  (* A read keeps the receiver, and ends the pipe only by an end that was    *)
  (* queued or by what had ended it before.                                  *)
  <2>1. ASSUME NEW U, NEW p \in Pipe(U), Proper(p), NEW n \in Nat
        PROVE  /\ ReadNow(p, n).pipe \in Pipe(U) /\ Proper(ReadNow(p, n).pipe)
               /\ Running(p) => Running(ReadNow(p, n).pipe)
               /\ ReadNow(p, n).pipe.receiver = p.receiver
    <3> USE <2>1
    <3> DEFINE k == Least(n, p.buffer)
    <3>1. k \in Nat /\ k <= Len(p.buffer)
      BY SMT DEF Least, Pipe
    <3>2. SubSeq(p.buffer, k + 1, Len(p.buffer)) \in Seq(U)
      BY SMT, <3>1 DEF Pipe
    <3> HIDE DEF k
    <3>3. ReadNow(p, n).pipe = p \/ ReadNow(p, n).pipe = [p EXCEPT !.buffer = SubSeq(p.buffer, k + 1, Len(p.buffer))]
      BY DEF ReadNow, k, Pipe
    <3> DEFINE q == ReadNow(p, n).pipe
    <3>4. q \in Pipe(U) /\ q.queue = p.queue /\ q.endQueued = p.endQueued /\ q.receiver = p.receiver
          /\ (Running(p) => Running(q))
      BY <3>2, <3>3 DEF Pipe, Running
    <3> HIDE DEF q
    <3>5. Proper(q)
      BY <3>4, QueueFacts
    <3>6. QED
      BY <3>4, <3>5 DEF q

  (* A read of an event keeps what the pipe records of its end. *)
  <2>2. ASSUME NEW U, NEW p \in Pipe(U), Proper(p), NEW n \in Nat
        PROVE  /\ ReadEvent(p, n).pipe \in Pipe(U) /\ Proper(ReadEvent(p, n).pipe)
               /\ Running(p) => Running(ReadEvent(p, n).pipe)
               /\ ReadEvent(p, n).pipe.receiver = p.receiver
    <3> USE <2>2
    <3>1. CASE p.queue = <<>>
      BY <3>1 DEF ReadEvent
    <3>2. CASE p.queue # <<>>
      <4> DEFINE e == Head(p.queue)
                 k == Least(n, e.units)
                 rest == [p EXCEPT !.queue = Tail(@)]
                 more == SubSeq(e.units, k + 1, Len(e.units))
      <4>1. e \in Event(U) /\ e = p.queue[1] /\ 1 \in 1 .. Len(p.queue)
        BY SMT, <3>2 DEF Pipe
      <4>2. k \in Nat /\ k <= Len(e.units)
        BY SMT, <4>1 DEF Least, Event
      <4>3. more \in Seq(U)
        BY SMTT(30), <4>1, <4>2 DEF Event
      <4>4. Tail(p.queue) \in Seq(Event(U))
        BY SMT, <3>2 DEF Pipe
      <4>5. ReadEvent(p, n).pipe = IF e.kind = "data" THEN [rest EXCEPT !.buffer = @ \o more]
                                   ELSE [rest EXCEPT !.closed = TRUE, !.sender = FALSE]
        BY <3>2 DEF ReadEvent
      <4>6. e.kind # "data" => p.endQueued
        BY <4>1 DEF Proper
      <4> DEFINE q == ReadEvent(p, n).pipe
      <4> HIDE DEF e, more, k
      <4>7. q \in Pipe(U) /\ q.queue = Tail(p.queue) /\ q.endQueued = p.endQueued /\ q.receiver = p.receiver
            /\ (Running(p) => Running(q))
        <5>1. CASE e.kind = "data"
          <6>1. p.buffer \o more \in Seq(U) /\ rest.buffer = p.buffer
            BY SMT, <4>3 DEF Pipe
          <6>2. QED
            BY ZenonT(30), <4>4, <4>5, <5>1, <6>1 DEF Pipe, Running
        <5>2. CASE e.kind # "data"
          BY ZenonT(30), <4>4, <4>5, <4>6, <5>2 DEF Pipe, Running
        <5>3. QED
          BY <5>1, <5>2
      <4> HIDE DEF q
      <4>8. Proper(q)
        BY <3>2, <4>7, QueueFacts
      <4>9. QED
        BY <4>7, <4>8 DEF q
    <3>3. QED
      BY <3>1, <3>2

  <2>3. ASSUME NEW U, StreamInv(U), NEW s \in Sides, NEW n \in Nat, TakeAnswer(s, n), UNCHANGED <<closed, mapped, spawned>>
        PROVE  Safely(U) /\ ReceiversKept /\ \A t \in Sides \ {s} : pipe'[t] = pipe[t]
    <3> USE <2>3
    <3> DEFINE q == Answer(s, n).pipe
    <3>1. pipe[s] \in Pipe(U) /\ Proper(pipe[s]) /\ fut[s] \in Nat
      BY DEF StreamInv
    <3>2. q \in Pipe(U) /\ Proper(q) /\ (Running(pipe[s]) => Running(q)) /\ q.receiver = pipe[s].receiver
      <4>1. CASE fut[s] = 0
        BY <3>1, <4>1, <2>1 DEF Answer
      <4>2. CASE fut[s] # 0
        BY <3>1, <4>2, <2>2 DEF Answer
      <4>3. QED
        BY <4>1, <4>2
    <3> HIDE DEF q
    <3>3. pipe' = [pipe EXCEPT ![s] = q] /\ fut' = [fut EXCEPT ![s] = 0]
      BY DEF TakeAnswer, q
    <3>4. QED
      BY ZenonT(30), <3>2, <3>3 DEF StreamInv, Safely, ReceiversKept
  <2>4. QED
    BY <2>3

(* Beginning to wait changes no pipe. *)
<1>7. ASSUME NEW U, StreamInv(U), NEW s \in Sides, NEW n \in Nat, Waits(s, n), UNCHANGED <<closed, mapped, spawned, pipe>>
      PROVE  Safely(U) /\ ReceiversKept
  BY <1>7 DEF Waits, ReadsNow, StreamInv, Safely, ReceiversKept

(* A handler that leaves drops the receiver of its own side at most. *)
<1>8. ASSUME NEW U, StreamInv(U), NEW s \in Sides, Leave(s), UNCHANGED <<closed, mapped, spawned>>
      PROVE  Safely(U) /\ \A t \in Sides \ {s} : pipe'[t] = pipe[t]
  <2> USE <1>8
  <2>1. DropReader(pipe[s]) \in Pipe(U) /\ Proper(DropReader(pipe[s]))
        /\ (Running(pipe[s]) => Running(DropReader(pipe[s])))
    BY CloseFacts DEF StreamInv
  <2>2. QED
    BY <2>1 DEF Leave, StreamInv, Safely

(* Frames are added, or all given up. *)
<1>9. ASSUME NEW o, LinkTypes(o), OpeningOrder, opening' = opening,
             \/ net'["server"] \in {net["server"], <<>>}
             \/ \E x \in Sent(o) : net'["server"] = Append(net["server"], x),
             st'["server"].settings = st["server"].settings, hand' = "new" <=> hand = "new"
      PROVE  OpeningOrder'
  <2> USE <1>9
  <2> DEFINE q == net["server"]
             r == net'["server"]
  <2>1. q \in Seq(UpFrames(o)) /\ SynBehind(q)
    BY DEF LinkTypes, OpeningOrder
  <2>2. \A i \in 1 .. Len(q) :
         /\ q[i].cmd = "SETTINGS" => i = 1 /\ ~st["server"].settings
         /\ q[i].cmd = "SYN" => hand = "new" /\ (opening.declares => st["server"].settings \/ q[1].cmd = "SETTINGS")
    BY DEF OpeningOrder
  <2>3. OpeningOrder' <=>
         /\ SynBehind(r)
         /\ \A i \in 1 .. Len(r) :
              /\ r[i].cmd = "SETTINGS" => i = 1 /\ ~st'["server"].settings
              /\ r[i].cmd = "SYN" => hand' = "new" /\ (opening'.declares => st'["server"].settings \/ r[1].cmd = "SETTINGS")
         /\ hand' # "new" => st'["server"].settings
    BY DEF OpeningOrder
  <2>4. hand # "new" => st["server"].settings
    BY DEF OpeningOrder
  <2> HIDE DEF q
  <2>5. CASE r = q
    BY <2>1, <2>2, <2>3, <2>4, <2>5
  <2>6. CASE r = <<>>
    <3>1. \A i \in 1 .. Len(<<>>) : FALSE
      BY SMT
    <3>2. QED
      BY <2>3, <2>4, <2>6, <3>1 DEF SynBehind
  <2>7. ASSUME NEW x \in Sent(o), r = Append(q, x)
        PROVE  OpeningOrder'
    <3>1. x \in UpFrames(o) /\ x.cmd # "SYN" /\ x.cmd # "SETTINGS"
      BY FrameTypes
    <3>2. SynBehind(r)
      BY <2>1, <2>7, <3>1, SynAppend
    <3>3. \A i \in 1 .. Len(r) : (i \in 1 .. Len(q) /\ r[i] = q[i]) \/ (i = Len(q) + 1 /\ r[i] = x)
      <4>1. \A i \in 1 .. Len(Append(q, x)) : (i \in 1 .. Len(q) /\ Append(q, x)[i] = q[i])
                                           \/ (i = Len(q) + 1 /\ Append(q, x)[i] = x)
        BY SMT, <2>1, <3>1
      <4>2. QED
        BY <2>7, <4>1
    <3>4. ASSUME NEW i \in 1 .. Len(q)
          PROVE  r[1] = q[1]
      BY SMT, <2>1, <2>7, <3>1
    <3>5. QED
      BY <2>2, <2>3, <2>4, <3>1, <3>2, <3>3, <3>4
  <2>8. QED
    BY <2>5, <2>6, <2>7 DEF q

(* Such a step keeps the invariant. *)
<1>10. ASSUME NEW o, IInv(o), StreamsMove(o), LinksMove(o), TasksMove(o), OpeningOrder'
      PROVE  IInv(o)'
  <2> USE <1>10
  <2>1. ASSUME NEW s \in Sides
        PROVE  SideInv(s)'
    <3>1. SideInv(s) /\ opening = o /\ opening' = o
      BY DEF IInv, TasksMove
    <3>2. ~closed'[s] => Running(pipe'[s]) /\ ~spawned'[s] /\ (pipe'[s].receiver \/ Gone(s)')
      BY <3>1 DEF SideInv, StreamsMove, Safely, TasksMove
    <3>3. writer'[s] # "up" => lost'
      BY <3>1 DEF SideInv, LinksMove
    <3>4. run'[s] # "up" => lost' \/ ~opening'.declares \/ Gone(s)'
      BY <3>1 DEF SideInv, LinksMove, TasksMove
    <3>5. run'[s] = "ended" => ~mapped'[s]
      BY DEF LinksMove
    <3>6. QED
      BY <3>2, <3>3, <3>4, <3>5 DEF SideInv
  <2>2. opening' = o /\ o \in Openings /\ StreamInv(Parts(o))' /\ fut' \in [Sides -> {0, 1}]
    BY DEF IInv, StreamsMove, Safely, TasksMove
  <2>3. LinkTypes(o)' /\ FinBehind' /\ Counts(o)'
    BY DEF LinksMove, TasksMove
  <2>4. QED
    BY <2>1, <2>2, <2>3 DEF IInv

(* A frame is sent. *)
<1>11. ASSUME NEW o, LinkTypes(o), NEW s \in Sides, NEW x \in Sent(o), Send(s, x), UNCHANGED <<run, holding, lost, st>>
      PROVE  /\ LinkTypes(o)'
             /\ \A t \in Sides : writer'[t] # "up" => writer[t] # "up" \/ lost'
             /\ net'["server"] \in {net["server"], Append(net["server"], x)}
  <2> USE <1>11
  <2>1. x \in UpFrames(o) /\ x \in DownFrames(o) /\ x \in Frames(o)
    BY FrameTypes
  <2>2. CASE lost
    <3>1. net' = net /\ writer' = [writer EXCEPT ![s] = "doomed"]
      BY <2>2 DEF Send
    <3>2. QED
      BY <2>2, <3>1 DEF LinkTypes
  <2>3. CASE ~lost
    <3>1. net' = [net EXCEPT ![Peer(s)] = Append(net[Peer(s)], x)] /\ writer' = writer
      BY <2>3 DEF Send
    <3>2. /\ Peer(s) \in Sides /\ "server" \in Sides /\ "client" \in Sides
          /\ Peer(s) = "server" \/ Peer(s) = "client"
      BY SMT DEF Peer, Sides
    <3>3. /\ net \in [Sides -> Seq(Frames(o))]
          /\ net["server"] \in Seq(UpFrames(o)) /\ net["client"] \in Seq(DownFrames(o)) /\ net[Peer(s)] \in Seq(Frames(o))
      BY <3>2 DEF LinkTypes
    <3>4. /\ Append(net["server"], x) \in Seq(UpFrames(o)) /\ Append(net["client"], x) \in Seq(DownFrames(o))
          /\ Append(net[Peer(s)], x) \in Seq(Frames(o))
      BY <2>1, <3>3, AppendLast
    <3>5. /\ net' \in [Sides -> Seq(Frames(o))]
          /\ net'["server"] \in Seq(UpFrames(o)) /\ net'["client"] \in Seq(DownFrames(o))
          /\ net'["server"] \in {net["server"], Append(net["server"], x)}
      BY <3>1, <3>2, <3>3, <3>4
    <3>6. QED
      BY <3>1, <3>5 DEF LinkTypes
  <2>4. QED
    BY <2>2, <2>3

(* A step of a task keeps the invariant. *)
<1>12. ASSUME NEW o, IInv(o), NEW s \in Sides, TaskStep(o, s), TasksMove(o)
      PROVE  IInv(o)'
  <2> USE <1>12
  <2>1. LinkTypes(o) /\ StreamInv(Parts(o)) /\ fut \in [Sides -> {0, 1}] /\ OpeningOrder /\ 1 \in Nat
    BY DEF IInv
  <2>2. StreamsMove(o)
    <3>1. CASE UNCHANGED streamVars
      <4>1. Safely(Parts(o)) /\ ReceiversKept /\ fut' = fut
        BY <2>1, <3>1, <1>1 DEF streamVars
      <4>2. QED
        BY <2>1, <4>1 DEF StreamsMove, ReceiversKept
    <3>2. CASE CloseStream(s) /\ UNCHANGED <<pipe, fut>>
      <4>1. Safely(Parts(o)) /\ ReceiversKept
        BY <2>1, <3>2, <1>2
      <4>2. QED
        BY <2>1, <3>2, <4>1 DEF StreamsMove, ReceiversKept
    <3>3. CASE Waits(s, 1) /\ UNCHANGED <<closed, mapped, pipe, spawned>>
      <4>1. Safely(Parts(o)) /\ ReceiversKept
        BY <2>1, <3>3, <1>7
      <4>2. fut' \in [Sides -> {0, 1}]
        BY <2>1, <3>3 DEF Waits
      <4>3. QED
        BY <4>1, <4>2 DEF StreamsMove, ReceiversKept
    <3>4. CASE TakeAnswer(s, 1) /\ UNCHANGED <<closed, mapped, spawned>>
      <4>1. Safely(Parts(o)) /\ ReceiversKept
        BY <2>1, <3>4, <1>6
      <4>2. fut' \in [Sides -> {0, 1}]
        BY <2>1, <3>4 DEF TakeAnswer
      <4>3. QED
        BY <4>1, <4>2 DEF StreamsMove, ReceiversKept
    <3>5. CASE Leave(s) /\ (closed[s] \/ Gone(s)') /\ UNCHANGED <<closed, mapped, spawned>>
      <4>1. Safely(Parts(o)) /\ \A t \in Sides \ {s} : pipe'[t] = pipe[t]
        BY <2>1, <3>5, <1>8
      <4>2. fut' \in [Sides -> {0, 1}]
        BY <2>1, <3>5 DEF Leave
      <4>3. QED
        BY <3>5, <4>1, <4>2 DEF StreamsMove
    <3>6. QED
      BY <3>1, <3>2, <3>3, <3>4, <3>5 DEF TaskStep
  <2>3. /\ LinkTypes(o)' /\ \A t \in Sides : writer'[t] # "up" => writer[t] # "up" \/ lost'
        /\ \/ net'["server"] \in {net["server"], <<>>}
           \/ \E x \in Sent(o) : net'["server"] = Append(net["server"], x)
    <3>1. CASE UNCHANGED <<net, writer>>
      BY <2>1, <3>1 DEF TaskStep, LinkTypes
    <3>2. ASSUME NEW x \in Sent(o), Send(s, x)
          PROVE  /\ LinkTypes(o)' /\ \A t \in Sides : writer'[t] # "up" => writer[t] # "up" \/ lost'
                 /\ net'["server"] \in {net["server"], Append(net["server"], x)}
      BY <2>1, <3>2, <1>11 DEF TaskStep
    <3>3. QED
      BY <3>1, <3>2 DEF TaskStep
  <2>4. OpeningOrder'
    BY <2>1, <2>3, <1>9 DEF TaskStep, TasksMove
  <2>5. ASSUME NEW t \in Sides, run'[t] = "ended"
        PROVE  ~mapped'[t]
    <3>1. ~mapped[t] /\ mapped \in [Sides -> BOOLEAN]
      BY <2>5 DEF TaskStep, IInv, SideInv, StreamInv
    <3>2. mapped' = mapped \/ mapped' = [mapped EXCEPT ![s] = FALSE]
      BY DEF TaskStep, CloseStream, streamVars
    <3>3. QED
      BY <3>1, <3>2
  <2>6. LinksMove(o)
    BY <2>3, <2>5 DEF LinksMove, TaskStep
  <2>7. QED
    BY <2>2, <2>4, <2>6, <1>10

(* The tasks, while the receive loops run. *)
<1>13. ASSUME NEW o, IInv(o), UNCHANGED udpVars, Safely(Parts(o)),
             hand' = hand \/ (hand = "new" /\ hand' = "check")
      PROVE  TasksMove(o)
  <2> USE <1>13
  <2>1. opening' = opening /\ assoc' = assoc /\ appSent' = appSent /\ destSent' = destSent
    BY DEF udpVars
  <2>2. \A s \in Sides : closed[s] => closed'[s]
    BY DEF Safely, IInv
  <2>3. "client" \in Sides /\ "server" \in Sides
    BY SMT DEF Sides
  <2>4. FinBehind'
    BY <2>1, <2>2, <2>3 DEF FinBehind, IInv
  <2>5. \A s \in Sides : Gone(s) => Gone(s)'
    BY <2>1 DEF Gone
  <2>6. Counts(o)'
    BY <2>1 DEF Counts, IInv
  <2>7. QED
    BY <2>1, <2>4, <2>5, <2>6 DEF TasksMove

(* The receive loops, whatever comes. *)
<1>14. \A o : IInv(o) => \A s \in Sides : Receiver(s) => IInv(o)'
    (* A frame is taken by the receive loop of the server. *)
  <2>1. ASSUME NEW o, LinkTypes(o), OpeningOrder, opening' = opening, net["server"] # <<>>,
               net'["server"] = Tail(net["server"]),
               Head(net["server"]).cmd = "SETTINGS" => st'["server"].settings,
               Head(net["server"]).cmd # "SETTINGS" => st'["server"].settings = st["server"].settings,
               hand # "new" => hand' # "new",
               hand' # "new" => hand # "new" \/ (Head(net["server"]).cmd = "SYN" /\ st'["server"].settings)
        PROVE  OpeningOrder'
    <3> USE <2>1
    <3> DEFINE q == net["server"]
               r == Tail(q)
    <3>1. q \in Seq(UpFrames(o)) /\ SynBehind(q) /\ q # <<>>
      BY DEF LinkTypes, OpeningOrder
    <3>2. \A i \in 1 .. Len(q) :
           /\ q[i].cmd = "SETTINGS" => i = 1 /\ ~st["server"].settings
           /\ q[i].cmd = "SYN" => hand = "new" /\ (opening.declares => st["server"].settings \/ q[1].cmd = "SETTINGS")
      BY DEF OpeningOrder
    <3>3. OpeningOrder' <=>
           /\ SynBehind(r)
           /\ \A i \in 1 .. Len(r) :
                /\ r[i].cmd = "SETTINGS" => i = 1 /\ ~st'["server"].settings
                /\ r[i].cmd = "SYN" => hand' = "new" /\ (opening'.declares => st'["server"].settings \/ r[1].cmd = "SETTINGS")
           /\ hand' # "new" => st'["server"].settings
      BY DEF OpeningOrder
    <3>4. hand # "new" => st["server"].settings
      BY DEF OpeningOrder
    <3>5. /\ SynBehind(r) /\ (Pending(r) => Head(q).cmd \in Before)
          /\ \A i \in 1 .. Len(r) : i + 1 \in 1 .. Len(q) /\ r[i] = q[i + 1] /\ i + 1 # 1
          /\ Head(q) = q[1]
      BY <3>1, SynTail, TailElements
    <3>6. /\ Head(q).cmd = "SETTINGS" => st'["server"].settings
          /\ Head(q).cmd # "SETTINGS" => st'["server"].settings = st["server"].settings
          /\ hand' # "new" => hand # "new" \/ (Head(q).cmd = "SYN" /\ st'["server"].settings)
      OBVIOUS
    <3> HIDE DEF q, r
    <3>7. ASSUME NEW i \in 1 .. Len(r), r[i].cmd = "SYN"
          PROVE  hand' = "new" /\ (opening'.declares => st'["server"].settings)
      <4>1. Head(q).cmd \in Before /\ Head(q).cmd # "SYN"
        BY <3>5, <3>7 DEF Pending, Before
      <4>2. hand = "new" /\ (opening.declares => st["server"].settings \/ q[1].cmd = "SETTINGS")
        BY <3>2, <3>5, <3>7
      <4>3. QED
        BY <3>5, <3>6, <4>1, <4>2
    <3>8. \A i \in 1 .. Len(r) : r[i].cmd # "SETTINGS"
      BY <3>2, <3>5
    <3>9. hand' # "new" => st'["server"].settings
      BY <3>4, <3>6
    <3>10. QED
      BY <3>3, <3>5, <3>7, <3>8, <3>9

  (* A frame is taken by either side. *)
  <2>2. ASSUME NEW o, LinkTypes(o), OpeningOrder, opening' = opening, NEW s \in Sides, net[s] # <<>>,
               net'["server"] = Consumed(s)["server"],
               s = "server" /\ Head(net[s]).cmd = "SETTINGS" => st'["server"].settings,
               ~(s = "server" /\ Head(net[s]).cmd = "SETTINGS") => st'["server"].settings = st["server"].settings,
               hand # "new" => hand' # "new",
               hand' # "new" => hand # "new" \/ (s = "server" /\ Head(net[s]).cmd = "SYN" /\ st["server"].settings)
        PROVE  OpeningOrder'
    <3> USE <2>2
    <3>1. net \in [Sides -> Seq(Frames(o))] /\ "server" \in Sides /\ s \in {"client", "server"}
      BY DEF LinkTypes, Sides
    <3>2. CASE s = "server"
      <4>1. net'["server"] = Tail(net["server"]) /\ net["server"] # <<>>
        BY <3>1, <3>2 DEF Consumed
      <4>2. /\ Head(net["server"]).cmd = "SETTINGS" => st'["server"].settings
            /\ Head(net["server"]).cmd # "SETTINGS" => st'["server"].settings = st["server"].settings
        BY <3>2
      <4>3. hand' # "new" => hand # "new" \/ (Head(net["server"]).cmd = "SYN" /\ st'["server"].settings)
        BY <3>2, <4>2
      <4>4. QED
        BY <4>1, <4>2, <4>3, <2>1
    <3>3. CASE s = "client"
      <4>1. net'["server"] = net["server"] /\ s # "server"
        BY <3>1, <3>3 DEF Consumed
      <4>2. st'["server"].settings = st["server"].settings /\ (hand' = "new" <=> hand = "new")
        BY <4>1
      <4>3. QED
        BY <4>1, <4>2, <1>9
    <3>4. QED
      BY <3>1, <3>2, <3>3

  (* A frame is taken, and nothing is sent. *)
  <2>3. ASSUME NEW o, LinkTypes(o), NEW s \in Sides, net[s] # <<>>, net' = Consumed(s), UNCHANGED <<writer, lost>>,
               run' \in [Sides -> {"up", "failing", "ended"}], holding' \in [Sides -> Seq(Parts(o))],
               st' \in [Sides -> States(o)], st'["server"].padding = ServerPadding
        PROVE  LinkTypes(o)' /\ net'["server"] = Consumed(s)["server"]
    <3> USE <2>3
    <3>1. /\ Consumed(s) \in [Sides -> Seq(Frames(o))]
          /\ Consumed(s)["server"] \in Seq(UpFrames(o)) /\ Consumed(s)["client"] \in Seq(DownFrames(o))
      BY HeadFacts
    <3>2. QED
      BY <3>1 DEF LinkTypes

  (* Receiving a frame keeps the invariant. *)
  <2>4. ASSUME NEW o, IInv(o), NEW s \in Sides, Receives(o, s), Settles(s), Spawns(s), UNCHANGED udpVars,
               Safely(Parts(o)), ReceiversKept, fut' = fut, \A t \in Sides \ {s} : mapped'[t] = mapped[t]
        PROVE  IInv(o)'
    <3> USE <2>4
    <3>1. TasksMove(o)
      BY <1>13 DEF Spawns
    <3>2. StreamsMove(o)
      BY DEF StreamsMove, ReceiversKept, IInv
    <3>3. ASSUME NEW t \in Sides, run'[t] = "ended"
          PROVE  ~mapped'[t]
      BY <3>3 DEF Receives, IInv, SideInv
    <3>4. LinksMove(o)
      BY <3>3 DEF LinksMove, Receives
    <3>5. LinkTypes(o) /\ OpeningOrder /\ opening' = opening
      BY DEF IInv, udpVars
    <3>6. /\ hand # "new" => hand' # "new"
          /\ hand' # "new" => hand # "new" \/ (s = "server" /\ Head(net[s]).cmd = "SYN" /\ st["server"].settings)
      BY DEF Spawns
    <3>7. OpeningOrder'
      BY <3>5, <3>6, <2>2 DEF Receives, Settles
    <3>8. QED
      BY <3>1, <3>2, <3>4, <3>7, <1>10

  (* PSH, SYNACK and HEARTRESPONSE. *)
  <2>5. ASSUME NEW o, IInv(o), NEW s \in Sides, ReceivePsh(s) \/ ReceiveOther(s), UNCHANGED udpVars
        PROVE  IInv(o)'
    <3> USE <2>5
    <3>1. LinkTypes(o) /\ StreamInv(Parts(o)) /\ holding \in [Sides -> Seq(Parts(o))]
      BY DEF IInv, LinkTypes
    <3>2. /\ net[s] # <<>> /\ run[s] = "up" /\ Head(net[s]).cmd \in {"PSH", "SYNACK", "HEARTRESPONSE"} /\ net' = Consumed(s)
          /\ UNCHANGED streamVars /\ UNCHANGED <<writer, run, lost, st, hand>>
      BY DEF ReceivePsh, ReceiveOther, Arrived, handVars
    <3>3. holding' \in [Sides -> Seq(Parts(o))]
      <4>1. CASE ReceivePsh(s)
        <5>1. Head(net[s]).units \in Seq(Parts(o)) /\ <<>> \in Seq(Parts(o))
          BY <3>1, <3>2, <4>1, HeadFacts, NoElement DEF ReceivePsh, Arrived
        <5>2. QED
          BY <3>1, <4>1, <5>1 DEF ReceivePsh
      <4>2. CASE ReceiveOther(s)
        BY <3>1, <4>2 DEF ReceiveOther
      <4>3. QED
        BY <4>1, <4>2
    <3>4. LinkTypes(o)' /\ net'["server"] = Consumed(s)["server"]
      BY <3>1, <3>2, <3>3, <2>3 DEF LinkTypes
    <3>5. Receives(o, s) /\ Settles(s) /\ Spawns(s)
      BY <3>2, <3>4 DEF Receives, Settles, Spawns
    <3>6. Safely(Parts(o)) /\ ReceiversKept /\ fut' = fut /\ mapped' = mapped
      BY <3>1, <3>2, <1>1 DEF streamVars
    <3>7. QED
      BY <3>5, <3>6, <2>4

  (* FIN and SYNERR. *)
  <2>6. ASSUME NEW o, IInv(o), NEW s \in Sides, ReceiveEnd(s), UNCHANGED udpVars
        PROVE  IInv(o)'
    <3> USE <2>6
    <3> DEFINE kind == IF Head(net[s]).cmd = "FIN" THEN "eof" ELSE "error"
    <3>1. LinkTypes(o) /\ StreamInv(Parts(o)) /\ kind \in {"eof", "error"}
      BY DEF IInv
    <3>2. /\ net[s] # <<>> /\ run[s] = "up" /\ Head(net[s]).cmd \in {"FIN", "SYNERR"} /\ net' = Consumed(s)
          /\ EndStream(s, kind) /\ UNCHANGED <<spawned, fut, writer, run, holding, lost, st, hand>>
      BY DEF ReceiveEnd, Arrived, handVars
    <3> HIDE DEF kind
    <3>4. LinkTypes(o)' /\ net'["server"] = Consumed(s)["server"]
      BY <3>1, <3>2, <2>3 DEF LinkTypes
    <3>5. Receives(o, s) /\ Settles(s) /\ Spawns(s)
      BY <3>2, <3>4 DEF Receives, Settles, Spawns
    <3>6. Safely(Parts(o)) /\ ReceiversKept
      BY <3>1, <3>2, <1>4
    <3>7. \A t \in Sides \ {s} : mapped'[t] = mapped[t]
      BY <3>1, <3>2 DEF EndStream, StreamInv
    <3>8. QED
      BY <3>2, <3>5, <3>6, <3>7, <2>4

  (* The settings of the server, its padding scheme, and the alert. *)
  <2>7. ASSUME NEW o, IInv(o), NEW s \in Sides, ReceiveServerSettings(s) \/ ReceiveUpdate(s) \/ ReceiveAlert(s),
               UNCHANGED udpVars
        PROVE  IInv(o)'
    <3> USE <2>7
    <3>1. LinkTypes(o) /\ StreamInv(Parts(o)) /\ st \in [Sides -> States(o)] /\ "server" \in Sides
      BY DEF IInv, LinkTypes, Sides
    <3>2. /\ net[s] # <<>> /\ run[s] = "up" /\ Head(net[s]).cmd \in {"SERVERSETTINGS", "UPDATEPADDING", "ALERT"}
          /\ net' = Consumed(s) /\ UNCHANGED streamVars /\ UNCHANGED <<writer, holding, lost, hand>>
      BY DEF ReceiveServerSettings, ReceiveUpdate, ReceiveAlert, Arrived, handVars
    <3>3. /\ s = "client" /\ s # "server"
          /\ Head(net[s]).cmd = "SERVERSETTINGS" => Head(net[s]).v = o.v
          /\ Head(net[s]).cmd = "UPDATEPADDING" => Head(net[s]).padding = ServerPadding
          /\ Head(net[s]).cmd = "ALERT" => ~o.declares
      BY <3>1, <3>2, HeadFacts
    <3>4. st' \in [Sides -> States(o)] /\ st'["server"] = st["server"]
      <4>1. CASE ReceiveServerSettings(s)
        <5>1. st' = [st EXCEPT ![s].peer = o.v]
          BY <3>3, <4>1 DEF ReceiveServerSettings, Arrived
        <5>2. [st[s] EXCEPT !.peer = o.v] \in States(o)
          BY <3>1 DEF States
        <5>3. QED
          BY <3>1, <3>3, <5>1, <5>2
      <4>2. CASE ReceiveUpdate(s)
        <5>1. st' = [st EXCEPT ![s].padding = ServerPadding]
          BY <3>3, <4>2 DEF ReceiveUpdate, Arrived
        <5>2. [st[s] EXCEPT !.padding = ServerPadding] \in States(o)
          BY <3>1 DEF States
        <5>3. QED
          BY <3>1, <3>3, <5>1, <5>2
      <4>3. CASE ReceiveAlert(s)
        BY <3>1, <4>3 DEF ReceiveAlert
      <4>4. QED
        BY <4>1, <4>2, <4>3
    <3>5. /\ run' \in [Sides -> {"up", "failing", "ended"}]
          /\ \A t \in Sides : /\ run'[t] # "up" => run[t] # "up" \/ ~o.declares
                              /\ run'[t] = "ended" => run[t] = "ended" /\ t # s
      <4>1. CASE run' = run
        BY <3>1, <3>2, <4>1 DEF LinkTypes
      <4>2. CASE ReceiveAlert(s)
        <5>1. run' = [run EXCEPT ![s] = "failing"] /\ ~o.declares
          BY <3>3, <4>2 DEF ReceiveAlert, Arrived
        <5>2. QED
          BY <3>1, <5>1 DEF LinkTypes
      <4>3. QED
        BY <4>1, <4>2 DEF ReceiveServerSettings, ReceiveUpdate
    <3>6. LinkTypes(o)' /\ net'["server"] = Consumed(s)["server"]
      BY <3>1, <3>2, <3>4, <3>5, <2>3 DEF LinkTypes
    <3>7. Receives(o, s) /\ Settles(s) /\ Spawns(s)
      BY <3>2, <3>3, <3>4, <3>5, <3>6 DEF Receives, Settles, Spawns
    <3>8. Safely(Parts(o)) /\ ReceiversKept /\ fut' = fut /\ mapped' = mapped
      BY <3>1, <3>2, <1>1 DEF streamVars
    <3>9. QED
      BY <3>7, <3>8, <2>4

  (* The server answers a frame, or fails to on a lost connection. *)
  <2>8. ASSUME NEW o, LinkTypes(o), net["server"] # <<>>, run["server"] = "up", NEW r \in Seq(DownFrames(o)), NEW sync,
               Reply("server", r, sync), UNCHANGED <<holding, lost>>,
               st' \in [Sides -> States(o)], st'["server"].padding = ServerPadding
        PROVE  Receives(o, "server")
    <3> USE <2>8
    <3> DEFINE fails == r # <<>> /\ lost
    <3>1. "server" \in Sides /\ Peer("server") = "client"
      BY SMT DEF Sides, Peer
    <3>2. /\ net' = IF fails THEN Consumed("server") ELSE [Consumed("server") EXCEPT !["client"] = @ \o r]
          /\ writer' = [writer EXCEPT !["server"] = IF fails /\ @ = "up" THEN "doomed" ELSE @]
          /\ run' = [run EXCEPT !["server"] = IF fails /\ (sync \/ ~Open("server")) THEN "failing" ELSE @]
      BY <3>1 DEF Reply
    <3>3. /\ net' \in [Sides -> Seq(Frames(o))]
          /\ net'["server"] \in Seq(UpFrames(o)) /\ net'["client"] \in Seq(DownFrames(o))
          /\ net'["server"] = Consumed("server")["server"]
      <4>1. CASE fails
        BY <3>1, <3>2, <4>1, HeadFacts
      <4>2. CASE ~fails
        BY <3>2, <4>2, ReplyTypes
      <4>3. QED
        BY <4>1, <4>2
    <3> HIDE DEF fails
    <3>4. /\ writer' \in [Sides -> {"up", "doomed", "down"}] /\ run' \in [Sides -> {"up", "failing", "ended"}]
          /\ \A t \in Sides : /\ writer'[t] # "up" => writer[t] # "up" \/ fails
                              /\ run'[t] # "up" => run[t] # "up" \/ fails
                              /\ run'[t] = "ended" => run[t] = "ended" /\ t # "server"
      <4>1. writer \in [Sides -> {"up", "doomed", "down"}] /\ run \in [Sides -> {"up", "failing", "ended"}]
        BY DEF LinkTypes
      <4>2. \E x : run' = [run EXCEPT !["server"] = x] /\ (x = "up" \/ (x = "failing" /\ fails))
        BY <3>1, <3>2, <4>1
      <4>3. \E x \in {"up", "doomed", "down"} :
              writer' = [writer EXCEPT !["server"] = x] /\ (x = writer["server"] \/ fails)
        BY <3>1, <3>2, <4>1
      <4>4. QED
        BY ZenonT(30), <4>1, <4>2, <4>3
    <3>5. LinkTypes(o)'
      BY <3>3, <3>4 DEF LinkTypes
    <3>6. fails => lost
      BY DEF fails
    <3>7. QED
      BY <3>3, <3>4, <3>5, <3>6 DEF Receives

  (* Settings and heartbeats. *)
  <2>9. ASSUME NEW o, IInv(o), NEW s \in Sides, ReceiveSettings(s) \/ ReceiveHeart(s), UNCHANGED udpVars
        PROVE  IInv(o)'
    <3> USE <2>9
    <3>1. LinkTypes(o) /\ StreamInv(Parts(o)) /\ st \in [Sides -> States(o)] /\ st["server"].padding = ServerPadding
      BY DEF IInv, LinkTypes
    <3>2. /\ net[s] # <<>> /\ run[s] = "up" /\ Head(net[s]).cmd \in {"SETTINGS", "HEARTREQUEST"}
          /\ UNCHANGED streamVars /\ UNCHANGED <<holding, lost, hand>>
      BY DEF ReceiveSettings, ReceiveHeart, Arrived, handVars
    <3>3. /\ s = "server" /\ "server" \in Sides
          /\ Head(net[s]).cmd = "SETTINGS" => Head(net[s]).v = o.v /\ Head(net[s]).padding = o.padding
      BY <3>1, <3>2, HeadFacts
    <3>4. Safely(Parts(o)) /\ ReceiversKept /\ fut' = fut /\ mapped' = mapped
      BY <3>1, <3>2, <1>1 DEF streamVars
    <3>5. CASE ReceiveSettings(s)
      <4> DEFINE peer == IF o.v < MinVersion THEN st["server"].peer ELSE o.v
                 r == SettingsReply(ServerPadding, o.v, o.padding)
      <4>1. /\ Head(net[s]).cmd = "SETTINGS" /\ Reply("server", r, TRUE)
            /\ st' = [st EXCEPT !["server"].settings = TRUE, !["server"].peer = peer]
        BY <3>1, <3>3, <3>5 DEF ReceiveSettings, Arrived
      <4>2. r \in Seq(DownFrames(o))
        BY SettingsReplyTypes
      <4>3. peer \in {0, o.v}
        BY <3>1, <3>3 DEF States
      <4> HIDE DEF peer, r
      <4>4. st' \in [Sides -> States(o)] /\ st'["server"].padding = ServerPadding /\ st'["server"].settings
        BY ZenonT(30), <3>1, <3>3, <4>1, <4>3 DEF States
      <4>5. Receives(o, s)
        BY <3>1, <3>2, <3>3, <4>1, <4>2, <4>4, <2>8
      <4>6. Settles(s) /\ Spawns(s)
        BY <3>2, <3>3, <4>1, <4>4 DEF Settles, Spawns
      <4>7. QED
        BY <3>4, <4>5, <4>6, <2>4
    <3>6. CASE ReceiveHeart(s)
      <4>1. Head(net[s]).cmd = "HEARTREQUEST" /\ st' = st /\ Reply("server", <<Frame("HEARTRESPONSE")>>, FALSE)
        BY <3>3, <3>6 DEF ReceiveHeart, Arrived
      <4>2. <<Frame("HEARTRESPONSE")>> \in Seq(DownFrames(o))
        BY SettingsReplyTypes
      <4>3. Receives(o, s)
        BY <3>1, <3>2, <3>3, <4>1, <4>2, <2>8
      <4>4. Settles(s) /\ Spawns(s)
        BY <3>2, <4>1 DEF Settles, Spawns
      <4>5. QED
        BY <3>4, <4>3, <4>4, <2>4
    <3>7. QED
      BY <3>5, <3>6

  (* Opening the stream, or refusing to, keeps the invariant. *)
  <2>10. ASSUME NEW o, IInv(o), NEW s \in Sides, ReceiveSyn(s), UNCHANGED udpVars
         PROVE  IInv(o)'
    <3> USE <2>10
    <3>1. LinkTypes(o) /\ StreamInv(Parts(o)) /\ mapped \in [Sides -> BOOLEAN]
      BY DEF IInv, StreamInv
    <3>2. /\ net[s] # <<>> /\ run[s] = "up" /\ Head(net[s]).cmd = "SYN" /\ UNCHANGED <<closed, pipe, spawned, fut, holding, lost, st>>
      BY DEF ReceiveSyn, Arrived
    <3>3. s = "server" /\ hand = "new" /\ (o.declares => st["server"].settings) /\ Peer(s) = "client"
      BY <3>2, SynFacts DEF Peer
    <3>4. Settles(s)
      BY <3>2 DEF Settles
    <3>5. CASE st[s].settings
      <4>1. /\ net' = Consumed(s) /\ mapped' = [mapped EXCEPT ![s] = Open(s)]
            /\ hand' = (IF Open(s) THEN "check" ELSE hand) /\ UNCHANGED <<writer, run>>
        BY <3>5 DEF ReceiveSyn
      <4>2. LinkTypes(o)' /\ net'["server"] = Consumed(s)["server"]
        BY <3>1, <3>2, <4>1, <2>3 DEF LinkTypes
      <4>3. Receives(o, s) /\ Spawns(s)
        BY <3>2, <3>3, <3>5, <4>1, <4>2 DEF Receives, Spawns
      <4>4. mapped' \in [Sides -> BOOLEAN] /\ \A t \in Sides \ {s} : mapped'[t] = mapped[t]
        BY <3>1, <4>1 DEF Open
      <4>5. Safely(Parts(o)) /\ ReceiversKept
        BY <3>1, <3>2, <4>4 DEF StreamInv, Safely, ReceiversKept
      <4>6. QED
        BY <3>2, <3>4, <4>3, <4>4, <4>5, <2>4
    <3>6. CASE ~st[s].settings
      <4> DEFINE x == Frame("ALERT")
      <4>1. /\ net' = IF lost THEN Consumed(s) ELSE [Consumed(s) EXCEPT !["client"] = Append(@, x)]
            /\ writer' = [writer EXCEPT ![s] = IF lost /\ @ = "up" THEN "doomed" ELSE @]
            /\ run' = [run EXCEPT ![s] = "failing"] /\ UNCHANGED <<mapped, hand>>
        BY <3>3, <3>6 DEF ReceiveSyn
      <4>2. ~o.declares /\ "client" \in Sides /\ "server" \in Sides /\ "client" # "server"
        BY <3>3, <3>6 DEF Sides
      <4>3. <<x>> \in Seq(DownFrames(o)) /\ x \in DownFrames(o)
        BY <4>2, SettingsReplyTypes, FrameTypes
      <4>4. /\ net' \in [Sides -> Seq(Frames(o))]
            /\ net'["server"] \in Seq(UpFrames(o)) /\ net'["client"] \in Seq(DownFrames(o))
            /\ net'["server"] = Consumed(s)["server"]
        <5>1. CASE lost
          BY <3>1, <3>2, <4>1, <5>1, HeadFacts
        <5>2. CASE ~lost
          <6>1. Consumed(s)["client"] = net["client"] /\ net["client"] \in Seq(DownFrames(o))
            BY <3>1, <3>3, <4>2 DEF Consumed, LinkTypes
          <6>2. net["client"] \o <<x>> = Append(net["client"], x)
            BY <4>3, <6>1, ConcatAppend
          <6>3. net' = [Consumed("server") EXCEPT !["client"] = @ \o <<x>>]
            BY <3>3, <4>1, <5>2, <6>1, <6>2
          <6>4. QED
            BY <3>1, <3>2, <3>3, <4>3, <6>3, ReplyTypes
        <5>3. QED
          BY <5>1, <5>2
      <4> HIDE DEF x
      <4>5. /\ writer' \in [Sides -> {"up", "doomed", "down"}] /\ run' \in [Sides -> {"up", "failing", "ended"}]
            /\ \A t \in Sides : /\ writer'[t] # "up" => writer[t] # "up" \/ lost
                                /\ run'[t] = "ended" => run[t] = "ended" /\ t # s
        <5>1. writer \in [Sides -> {"up", "doomed", "down"}] /\ run \in [Sides -> {"up", "failing", "ended"}]
          BY <3>1 DEF LinkTypes
        <5>2. \E y \in {"up", "doomed", "down"} : writer' = [writer EXCEPT ![s] = y] /\ (y = writer[s] \/ lost)
          BY <4>1, <5>1
        <5>3. QED
          BY <4>1, <5>1, <5>2
      <4>6. LinkTypes(o)'
        BY <3>1, <3>2, <4>4, <4>5 DEF LinkTypes
      <4>7. Receives(o, s) /\ Spawns(s)
        BY <3>2, <4>1, <4>2, <4>4, <4>5, <4>6 DEF Receives, Spawns
      <4>8. Safely(Parts(o)) /\ ReceiversKept /\ fut' = fut /\ mapped' = mapped
        BY <3>1, <3>2, <4>1, <1>1 DEF streamVars
      <4>9. QED
        BY <3>4, <4>7, <4>8, <2>4
    <3>7. QED
      BY <3>5, <3>6

  (* A push fails a session only if the task of the stream has left. *)
  <2>11. ASSUME NEW o, IInv(o), NEW s \in Sides, Push(s), UNCHANGED udpVars
         PROVE  IInv(o)'
    <3> USE <2>11
    <3>1. /\ LinkTypes(o) /\ StreamInv(Parts(o)) /\ OpeningOrder /\ SideInv(s)
          /\ holding \in [Sides -> Seq(Parts(o))] /\ run \in [Sides -> {"up", "failing", "ended"}]
      BY DEF IInv, LinkTypes
    <3>2. /\ run[s] = "up" /\ holding[s] # <<>> /\ holding' = [holding EXCEPT ![s] = <<>>]
          /\ run' = [run EXCEPT ![s] = IF PushForgiven(s) THEN @ ELSE "failing"]
          /\ UNCHANGED <<closed, mapped, spawned, fut, net, writer, lost, st, hand>>
      BY DEF Push, handVars
    <3>3. Safely(Parts(o)) /\ ReceiversKept
      BY <3>1, <1>5
    <3>4. TasksMove(o)
      BY <3>2, <3>3, <1>13
    <3>5. ~PushForgiven(s) => Gone(s)'
      <4>1. ~PushForgiven(s) => Gone(s)
        BY <3>1 DEF PushForgiven, CanWrite, Running, SideInv
      <4>2. QED
        BY <3>4, <4>1 DEF TasksMove
    <3>6. StreamsMove(o)
      BY <3>2, <3>3 DEF StreamsMove, ReceiversKept, IInv
    <3>7. /\ run' \in [Sides -> {"up", "failing", "ended"}] /\ holding' \in [Sides -> Seq(Parts(o))]
          /\ \A t \in Sides : /\ run'[t] # "up" => run[t] # "up" \/ Gone(t)'
                              /\ run'[t] = "ended" => run[t] = "ended"
      <4>1. <<>> \in Seq(Parts(o))
        BY NoElement
      <4>2. \E x : run' = [run EXCEPT ![s] = x] /\ (x = "up" \/ (x = "failing" /\ Gone(s)'))
        BY <3>1, <3>2, <3>5
      <4>3. QED
        BY <3>1, <3>2, <4>1, <4>2
    <3>8. LinkTypes(o)'
      BY <3>1, <3>2, <3>7 DEF LinkTypes
    <3>9. LinksMove(o)
      BY <3>2, <3>7, <3>8 DEF LinksMove, IInv, SideInv
    <3>10. opening' = opening /\ net'["server"] \in {net["server"], <<>>} /\ st'["server"].settings = st["server"].settings
      BY <3>2 DEF udpVars
    <3>11. OpeningOrder'
      BY <3>1, <3>2, <3>10, <1>9
    <3>12. QED
      BY <3>4, <3>6, <3>9, <3>11, <1>10

  (* The receive loop returns. *)
  <2>12. ASSUME NEW o, IInv(o), NEW s \in Sides, RunEnd(s), UNCHANGED udpVars
         PROVE  IInv(o)'
    <3> USE <2>12
    <3>1. /\ LinkTypes(o) /\ StreamInv(Parts(o)) /\ OpeningOrder /\ SideInv(s)
          /\ net \in [Sides -> Seq(Frames(o))] /\ run \in [Sides -> {"up", "failing", "ended"}]
      BY DEF IInv, LinkTypes
    <3>2. /\ run[s] = "up" => lost
          /\ run' = [run EXCEPT ![s] = "ended"] /\ net' = [net EXCEPT ![s] = <<>>] /\ EndStream(s, "eof")
          /\ UNCHANGED <<spawned, fut, writer, holding, lost, st, hand>>
      BY DEF RunEnd, handVars
    <3>3. Safely(Parts(o)) /\ ReceiversKept /\ ~mapped'[s]
      BY <3>1, <3>2, <1>4
    <3>4. TasksMove(o)
      BY <3>2, <3>3, <1>13
    <3>5. StreamsMove(o)
      BY <3>2, <3>3 DEF StreamsMove, ReceiversKept, IInv
    <3>6. /\ net' \in [Sides -> Seq(Frames(o))]
          /\ net'["server"] \in Seq(UpFrames(o)) /\ net'["client"] \in Seq(DownFrames(o))
          /\ net'["server"] \in {net["server"], <<>>}
      <4>1. <<>> \in Seq(Frames(o)) /\ <<>> \in Seq(UpFrames(o)) /\ <<>> \in Seq(DownFrames(o))
        BY NoElement
      <4>2. "server" \in Sides /\ "client" \in Sides
        BY SMT DEF Sides
      <4>3. net["server"] \in Seq(UpFrames(o)) /\ net["client"] \in Seq(DownFrames(o))
        BY <3>1 DEF LinkTypes
      <4>4. QED
        BY <3>1, <3>2, <4>1, <4>2, <4>3
    <3>7. LinkTypes(o)'
      BY <3>1, <3>2, <3>6 DEF LinkTypes
    <3>8. ASSUME NEW t \in Sides, run'[t] = "ended"
          PROVE  ~mapped'[t]
      <4>1. t # s => run[t] = "ended" /\ mapped'[t] = mapped[t]
        BY <3>1, <3>2, <3>8 DEF EndStream, StreamInv
      <4>2. QED
        BY <3>3, <4>1 DEF IInv, SideInv
    <3>9. ASSUME NEW t \in Sides, run'[t] # "up"
          PROVE  run[t] # "up" \/ lost'
      BY <3>1, <3>2, <3>9
    <3>10. LinksMove(o)
      BY <3>2, <3>7, <3>8, <3>9 DEF LinksMove
    <3>11. opening' = opening /\ st'["server"].settings = st["server"].settings
      BY <3>2 DEF udpVars
    <3>12. OpeningOrder'
      BY <3>1, <3>2, <3>6, <3>11, <1>9
    <3>13. QED
      BY <3>4, <3>5, <3>10, <3>12, <1>10

  <2>13. ASSUME NEW o, IInv(o), NEW s \in Sides, Receiver(s)
         PROVE  IInv(o)'
    <3> USE <2>13
    <3>1. UNCHANGED udpVars
      BY DEF Receiver
    <3>2. CASE StreamFrames(s)
      BY <3>1, <3>2, <2>10, <2>5, <2>6 DEF StreamFrames
    <3>3. CASE ControlFrames(s)
      BY <3>1, <3>3, <2>9, <2>7 DEF ControlFrames
    <3>4. CASE Push(s)
      BY <3>1, <3>4, <2>11
    <3>5. CASE RunEnd(s)
      BY <3>1, <3>5, <2>12
    <3>6. QED
      BY <3>2, <3>3, <3>4, <3>5 DEF Receiver, RunTask
  <2>14. QED
    BY <2>13

(* The tasks that the session spawns. *)
<1>15. ASSUME NEW o, IInv(o), NEW s \in Sides, Spawned(s)
      PROVE  IInv(o)'
  <2> USE <1>15
  <2>1. /\ LinkTypes(o) /\ StreamInv(Parts(o)) /\ OpeningOrder /\ SideInv(s) /\ UNCHANGED udpVars
        /\ writer \in [Sides -> {"up", "doomed", "down"}]
    BY DEF IInv, LinkTypes, Spawned
  <2>2. /\ UNCHANGED <<net, run, holding, lost, st, hand, mapped, fut>>
        /\ writer' = writer \/ (writer[s] = "doomed" /\ writer' = [writer EXCEPT ![s] = "down"])
    BY DEF Spawned, SpawnedTask, WriterEnd, ClosePipe, handVars, linkVars, streamVars
  <2>3. Safely(Parts(o)) /\ ReceiversKept
    <3>1. CASE WriterEnd(s)
      BY <2>1, <3>1, <1>1 DEF WriterEnd
    <3>2. CASE ClosePipe(s)
      BY <2>1, <3>2, <1>3 DEF ClosePipe, SideInv
    <3>3. QED
      BY <3>1, <3>2 DEF Spawned, SpawnedTask
  <2>4. TasksMove(o)
    BY <2>1, <2>2, <2>3, <1>13
  <2>5. StreamsMove(o)
    BY <2>2, <2>3 DEF StreamsMove, ReceiversKept, IInv
  <2>6. LinkTypes(o)' /\ \A t \in Sides : writer'[t] # "up" => writer[t] # "up"
    BY <2>1, <2>2 DEF LinkTypes
  <2>7. LinksMove(o)
    BY <2>2, <2>6 DEF LinksMove, IInv, SideInv
  <2>8. opening' = opening /\ net'["server"] \in {net["server"], <<>>} /\ st'["server"].settings = st["server"].settings
    BY <2>1, <2>2 DEF udpVars
  <2>9. OpeningOrder'
    BY <2>1, <2>2, <2>8, <1>9
  <2>10. QED
    BY <2>4, <2>5, <2>7, <2>9, <1>10

(* The connection is lost, or closed by the server. *)
<1>16. ASSUME NEW o, IInv(o), Lose \/ HangUp
      PROVE  IInv(o)'
  <2> USE <1>16
  <2>1. /\ LinkTypes(o) /\ StreamInv(Parts(o)) /\ OpeningOrder /\ net \in [Sides -> Seq(Frames(o))]
        /\ "server" \in Sides /\ "client" \in Sides /\ "client" # "server"
    BY DEF IInv, LinkTypes, Sides
  <2>2. /\ UNCHANGED streamVars /\ UNCHANGED <<writer, run, holding, st, hand, opening, assoc, appSent, destSent>>
        /\ lost' = TRUE /\ (net' = net \/ net' = [net EXCEPT !["server"] = <<>>])
    BY DEF Lose, LoseLink, HangUp, udpVars, handVars
  <2>3. Safely(Parts(o)) /\ ReceiversKept /\ fut' = fut /\ closed' = closed /\ mapped' = mapped
    BY <2>1, <2>2, <1>1 DEF streamVars
  <2>4. TasksMove(o)
    BY <2>2, <2>3 DEF TasksMove, FinBehind, Counts, Gone, IInv
  <2>5. StreamsMove(o)
    BY <2>3 DEF StreamsMove, ReceiversKept, IInv
  <2>6. <<>> \in Seq(Frames(o)) /\ <<>> \in Seq(UpFrames(o))
    BY NoElement
  <2>7. LinkTypes(o)' /\ net'["server"] \in {net["server"], <<>>}
    <3>1. /\ net' \in [Sides -> Seq(Frames(o))] /\ net'["client"] = net["client"]
          /\ net'["server"] = net["server"] \/ net'["server"] = <<>>
      BY <2>1, <2>2, <2>6
    <3>2. QED
      BY <2>1, <2>2, <2>6, <3>1 DEF LinkTypes
  <2>8. LinksMove(o)
    BY <2>2, <2>3, <2>7 DEF LinksMove, IInv, SideInv
  <2>9. OpeningOrder'
    BY <2>1, <2>2, <2>7, <1>9
  <2>10. QED
    BY <2>4, <2>5, <2>8, <2>9, <1>10

(* The user is denied: nothing else changes. *)
<1>17. ASSUME NEW o, IInv(o), Deny
      PROVE  TaskStep(o, "server") /\ TasksMove(o)
  <2> USE <1>17
  <2>1. UNCHANGED streamVars /\ UNCHANGED <<net, writer, run, holding, lost, st, hand, opening, assoc, appSent, destSent>>
    BY DEF Deny, DenyUser, linkVars
  <2>2. QED
    BY <2>1 DEF TaskStep, TasksMove, FinBehind, Counts, Gone, IInv, streamVars

(* Nothing changes. *)
<1>18. ASSUME NEW o, IInv(o), UNCHANGED vars
       PROVE  IInv(o)'
  <2> USE <1>18
  <2>1. /\ UNCHANGED streamVars
        /\ UNCHANGED <<net, writer, run, holding, lost, st, hand, opening, assoc, appSent, destSent>>
    BY DEF vars, linkVars, handVars, udpVars
  <2>2. TaskStep(o, "server") /\ TasksMove(o)
    BY <2>1 DEF TaskStep, TasksMove, FinBehind, Counts, Gone, IInv, streamVars
  <2>3. QED
    BY <2>2, <1>12 DEF Sides

<1>19. ASSUME NEW o, IInv(o), [Next]_vars
       PROVE  IInv(o)'
  <2> USE <1>19
  <2>1. "client" \in Sides /\ "server" \in Sides
    BY SMT DEF Sides
  <2>2. CASE CliTask \/ CliUp \/ CliEnd \/ CliBreak
    BY <2>1, <2>2, CliSteps, <1>12
  <2>3. CASE SrvTask \/ SrvTickApproved \/ SrvDown \/ SrvError
    BY <2>1, <2>3, SrvSteps, <1>12
  <2>4. CASE Deny
    BY <2>1, <2>4, <1>17, <1>12
  <2>5. CASE Lose \/ HangUp
    BY <2>5, <1>16
  <2>6. CASE \E s \in Sides : Receiver(s) \/ Spawned(s)
    BY <2>6, <1>14, <1>15
  <2>7. CASE UNCHANGED vars
    BY <2>7, <1>18
  <2>8. QED
    BY <2>2, <2>3, <2>4, <2>5, <2>6, <2>7 DEF Next, Tasks
<1>20. QED
  BY <1>19

-----------------------------------------------------------------------------
(* The start, and what spares a session.                                   *)

(* What a client opens with. *)
LEMMA OpeningFrames ==
  ASSUME NEW o \in Openings
  PROVE  /\ Opening(o) \in Seq(UpFrames(o)) /\ SynBehind(Opening(o))
         /\ \A i \in 1 .. Len(Opening(o)) :
              /\ Opening(o)[i].cmd = "SETTINGS" => i = 1
              /\ Opening(o)[i].cmd = "SYN" => (o.declares => Opening(o)[1].cmd = "SETTINGS")
              /\ Opening(o)[i].cmd # "PSH"
<1> DEFINE x == Settings(o.v, o.padding)
           y == Frame("HEARTREQUEST")
           z == Frame("SYN")
           F == UpFrames(o)
           q == Opening(o)
<1>1. x \in F /\ y \in F /\ z \in F
  <2>1. <<>> \in Seq(Parts(o))
    BY NoElement
  <2>2. QED
    BY <2>1 DEF UpFrames, Frame
<1>2. x.cmd = "SETTINGS" /\ y.cmd = "HEARTREQUEST" /\ z.cmd = "SYN"
  BY SMT DEF Settings, Frame
<1>3. q = (IF o.declares THEN <<x>> ELSE <<>>) \o (IF o.heart THEN <<y>> ELSE <<>>) \o <<z>>
  BY DEF Opening
<1> HIDE DEF x, y, z, F, q
<1>4. \/ o.declares /\ q = <<x, y, z>>
      \/ o.declares /\ q = <<x, z>>
      \/ ~o.declares /\ q = <<y, z>>
      \/ ~o.declares /\ q = <<z>>
  <2>1. /\ <<x>> \in Seq(F) /\ <<>> \in Seq(F) /\ <<x, y>> \in Seq(F) /\ <<y>> \in Seq(F) /\ <<x, z>> \in Seq(F)
        /\ <<y, z>> \in Seq(F) /\ <<z>> \in Seq(F)
    BY SMT, <1>1
  <2>2. /\ <<x>> \o <<y>> = <<x, y>> /\ <<x>> \o <<>> = <<x>> /\ <<>> \o <<y>> = <<y>> /\ <<>> \o <<>> = <<>>
        /\ <<x>> \o <<z>> = <<x, z>> /\ <<y>> \o <<z>> = <<y, z>> /\ <<>> \o <<z>> = <<z>>
    <3>1. <<x>> \o <<y>> = <<x, y>> /\ <<x>> \o <<>> = <<x>> /\ <<>> \o <<y>> = <<y>> /\ <<>> \o <<>> = <<>>
      BY ZenonT(30), <1>1, <2>1, ConcatAppend
    <3>2. <<x>> \o <<z>> = <<x, z>>
      BY ZenonT(30), <1>1, <2>1, ConcatAppend
    <3>3. <<y>> \o <<z>> = <<y, z>> /\ <<>> \o <<z>> = <<z>>
      BY ZenonT(30), <1>1, <2>1, ConcatAppend
    <3>4. QED
      BY <3>1, <3>2, <3>3
  <2>3. <<x, y>> \o <<z>> = <<x, y, z>>
    <3> DEFINE l == <<x, y>> \o <<z>>
               r == <<x, y, z>>
    <3>1. l \in Seq(F) /\ r \in Seq(F) /\ Len(l) = Len(r) /\ \A i \in 1 .. Len(l) : l[i] = r[i]
      BY SMT, <1>1
    <3>2. QED
      BY <3>1, SameElements
  <2>4. QED
    BY <1>3, <2>2, <2>3
<1>5. q \in Seq(F)
  <2>1. <<x, y, z>> \in Seq(F) /\ <<x, z>> \in Seq(F)
    BY SMT, <1>1
  <2>2. <<y, z>> \in Seq(F) /\ <<z>> \in Seq(F)
    BY SMT, <1>1
  <2>3. QED
    BY <1>4, <2>1, <2>2
<1>6. SynBehind(q)
  BY SMT, <1>2, <1>4 DEF SynBehind, Before
<1>7. \A i \in 1 .. Len(q) : /\ q[i].cmd = "SETTINGS" => i = 1
                             /\ q[i].cmd = "SYN" => (o.declares => q[1].cmd = "SETTINGS")
                             /\ q[i].cmd # "PSH"
  BY SMT, <1>2, <1>4
<1>8. QED
  BY <1>5, <1>6, <1>7 DEF q, F

(* Before the first step. *)
LEMMA InitHolds ==
  ASSUME Init
  PROVE  IInv(opening)
<1> DEFINE o == opening
           q == Opening(o)
           states == [s \in Sides |-> State(IF s = "client" THEN o.padding ELSE ServerPadding, 0, FALSE)]
<1>1. /\ o \in Openings /\ assoc = "dest" /\ appSent = 0 /\ destSent = 0
      /\ closed = [s \in Sides |-> FALSE] /\ mapped = [s \in Sides |-> s = "client"]
      /\ pipe = [s \in Sides |-> NewPipe] /\ spawned = [s \in Sides |-> FALSE] /\ fut = [s \in Sides |-> 0]
      /\ net = [s \in Sides |-> IF s = "server" THEN q ELSE <<>>]
      /\ writer = [s \in Sides |-> "up"] /\ run = [s \in Sides |-> "up"] /\ holding = [s \in Sides |-> <<>>]
      /\ lost = FALSE /\ hand = "new" /\ st = states
  BY DEF Init, StreamsInit
<1>2. "client" \in Sides /\ "server" \in Sides /\ "client" # "server"
  BY SMT DEF Sides
<1>3. NewPipe \in Pipe(Parts(o)) /\ Proper(NewPipe) /\ Running(NewPipe) /\ NewPipe.receiver /\ NewPipe.buffer = <<>>
  BY SMT DEF NewPipe, Pipe, Proper, Running
<1>4. StreamInv(Parts(o)) /\ fut \in [Sides -> {0, 1}]
  BY SMT, <1>1, <1>3 DEF StreamInv
<1>5. /\ states \in [Sides -> States(o)] /\ states["server"].padding = ServerPadding /\ ~states["server"].settings
  BY SMT, <1>2 DEF States, State
<1>6. /\ q \in Seq(UpFrames(o)) /\ SynBehind(q)
      /\ \A i \in 1 .. Len(q) : /\ q[i].cmd = "SETTINGS" => i = 1
                                /\ q[i].cmd = "SYN" => (o.declares => q[1].cmd = "SETTINGS")
  BY <1>1, OpeningFrames
<1>7. q \in Seq(Frames(o))
  BY SMT, <1>6 DEF Frames
<1> HIDE DEF q, states
<1>8. LinkTypes(o)
  <2>1. \A S : <<>> \in Seq(S)
    BY NoElement
  <2>2. net \in [Sides -> Seq(Frames(o))] /\ net["server"] = q /\ net["client"] = <<>>
    BY <1>1, <1>2, <1>7, <2>1
  <2>3. QED
    BY <1>1, <1>5, <1>6, <2>1, <2>2 DEF LinkTypes
<1>9. OpeningOrder
  <2>1. net["server"] = q
    BY <1>1, <1>2
  <2>2. QED
    BY <1>1, <1>5, <1>6, <2>1 DEF OpeningOrder
<1>10. FinBehind
  BY <1>1 DEF FinBehind
<1>11. Counts(o)
  <2>1. o.packets \in Nat
    BY <1>1, PacketTypes
  <2>2. QED
    BY SMT, <1>1, <2>1 DEF Counts
<1>12. ASSUME NEW s \in Sides
       PROVE  SideInv(s)
  BY <1>1, <1>3 DEF SideInv
<1>13. QED
  BY <1>1, <1>4, <1>8, <1>9, <1>10, <1>11, <1>12 DEF IInv

(* The invariant, of whatever client opened the session. *)
Inv == \E o \in Openings : IInv(o)

(* SparedWhileRelayed: no payload ends the session as long as both ends of *)
(* the stream have their task (push_stream_data, Session::run).  The       *)
(* invariant adds that a pipe refuses payloads only after its stream was   *)
(* closed, which push_stream_data overlooks, or its task has left.         *)
THEOREM SparedTheorem == Spec => []SparedWhileRelayed
<1>1. Init => Inv
  BY InitHolds DEF Inv, Init
<1>2. Inv /\ [Next]_vars => Inv'
  <2>1. ASSUME NEW o \in Openings, IInv(o), [Next]_vars
        PROVE  IInv(o)'
    BY <2>1, NextPreserves
  <2>2. QED
    BY <2>1 DEF Inv
<1>3. Inv => SparedWhileRelayed
  <2>1. ASSUME NEW o \in Openings, IInv(o)
        PROVE  SparedWhileRelayed
    <3>1. SideInv("client") /\ SideInv("server")
      BY <2>1 DEF IInv, Sides
    <3>2. QED
      BY <3>1 DEF SideInv, Gone, SparedWhileRelayed
  <2>2. QED
    BY <2>1 DEF Inv
<1>4. QED
  BY <1>1, <1>2, <1>3, PTL DEF Spec

-----------------------------------------------------------------------------
(* Reads of one unit.                                                      *)

(* The first unit of a payload, and the rest of it. *)
LEMMA FirstUnit ==
  \A U : \A q \in Seq(U) : q # <<>> =>
    /\ Least(1, q) = 1 /\ SubSeq(q, 1, 1) = <<Head(q)>> /\ Head(q) \in U
    /\ SubSeq(q, 1 + 1, Len(q)) = Tail(q) /\ Tail(q) \in Seq(U)
(* One element of a sequence, and none. *)
<1>1. ASSUME NEW S, NEW q \in Seq(S), NEW i \in 1 .. Len(q)
      PROVE  SubSeq(q, i, i) = <<q[i]>> /\ SubSeq(q, Len(q) + 1, Len(q)) = <<>>
  <2> USE <1>1
  <2> DEFINE l == SubSeq(q, i, i)
             r == <<q[i]>>
  <2>1. Len(q) \in Nat /\ i \in Int /\ q[i] \in S
    BY SMT
  <2>2. l \in Seq(S) /\ Len(l) = 1 /\ l[1] = q[i]
    BY SMT, <2>1
  <2>3. r \in Seq(S) /\ Len(r) = 1 /\ r[1] = q[i]
    BY SMT, <2>1
  <2> HIDE DEF l, r
  <2>4. l = r
    <3>1. \A j \in 1 .. Len(l) : l[j] = r[j]
      BY SMT, <2>2, <2>3
    <3>2. QED
      BY <2>2, <2>3, <3>1, SameElements
  <2>5. SubSeq(q, Len(q) + 1, Len(q)) = <<>>
    <3>1. Len(q) + 1 \in Int /\ Len(q) \in Int /\ Len(q) < Len(q) + 1
      BY SMT, <2>1
    <3>2. QED
      BY SMT, <3>1
  <2>6. QED
    BY <2>4, <2>5 DEF l, r

<1>2. ASSUME NEW U, NEW q \in Seq(U), q # <<>>
      PROVE  /\ Least(1, q) = 1 /\ SubSeq(q, 1, 1) = <<Head(q)>> /\ Head(q) \in U
             /\ SubSeq(q, 1 + 1, Len(q)) = Tail(q) /\ Tail(q) \in Seq(U)
  <2> USE <1>2
  <2>1. Len(q) \in Nat \ {0} /\ Head(q) = q[1] /\ Head(q) \in U /\ Tail(q) \in Seq(U)
    BY SMT
  <2>2. Least(1, q) = 1 /\ 1 \in 1 .. Len(q)
    BY SMT, <2>1 DEF Least
  <2>3. SubSeq(q, 1, 1) = <<Head(q)>>
    BY <2>1, <2>2, <1>1
  <2>4. SubSeq(q, 1 + 1, Len(q)) = Tail(q)
    BY SMT, SameElements
  <2>5. QED
    BY <2>1, <2>2, <2>3, <2>4
<1>3. QED
  BY <1>2

(* The first section answers with the first unit of the buffer, or the end. *)
LEMMA ReadNowOne ==
  ASSUME NEW U, NEW p \in Pipe(U)
  PROVE  /\ ReadNow(p, 1).pipe.queue = p.queue /\ (CanWrite(ReadNow(p, 1).pipe) <=> CanWrite(p))
         /\ p.buffer = <<>> => ReadNow(p, 1).kind = "eof" /\ ReadNow(p, 1).pipe = p
         /\ p.buffer # <<>> => /\ ReadNow(p, 1).kind = "data" /\ ReadNow(p, 1).units = <<Head(p.buffer)>>
                               /\ Head(p.buffer) \in U /\ ReadNow(p, 1).pipe.buffer = Tail(p.buffer)
<1>1. CASE p.buffer = <<>>
  BY <1>1 DEF ReadNow
<1>2. CASE p.buffer # <<>>
  <2>1. p.buffer \in Seq(U)
    BY DEF Pipe
  <2>2. /\ Least(1, p.buffer) = 1 /\ SubSeq(p.buffer, 1, 1) = <<Head(p.buffer)>> /\ Head(p.buffer) \in U
        /\ SubSeq(p.buffer, 1 + 1, Len(p.buffer)) = Tail(p.buffer)
    BY <1>2, <2>1, FirstUnit
  <2>3. /\ ReadNow(p, 1).kind = "data" /\ ReadNow(p, 1).units = SubSeq(p.buffer, 1, Least(1, p.buffer))
        /\ ReadNow(p, 1).pipe = [p EXCEPT !.buffer = SubSeq(p.buffer, Least(1, p.buffer) + 1, Len(p.buffer))]
    BY <1>2 DEF ReadNow, Pipe
  <2>4. ReadNow(p, 1).units = <<Head(p.buffer)>> /\ ReadNow(p, 1).pipe = [p EXCEPT !.buffer = Tail(p.buffer)]
    BY <2>2, <2>3
  <2>5. QED
    BY <1>2, <2>2, <2>3, <2>4 DEF Pipe, CanWrite
<1>3. QED
  BY <1>1, <1>2

(* The second section takes the event at the head of the queue: the first  *)
(* unit of a payload is the answer a and the rest goes to the buffer, or   *)
(* it is the end.                                                          *)
TakesNothing(p, a) == p.queue = <<>> /\ a.kind = "eof" /\ a.pipe = p
TakesEvent(p, a) ==
  p.queue # <<>> /\ a.kind = Head(p.queue).kind /\ a.pipe.queue = Tail(p.queue) /\ (CanWrite(a.pipe) => CanWrite(p))
TakesEnd(p, a) == TakesEvent(p, a) /\ a.kind # "data" /\ ~CanWrite(a.pipe) /\ a.pipe.buffer = <<>> /\ p.endQueued
TakesUnit(U, p, a) ==
  /\ TakesEvent(p, a) /\ a.kind = "data" /\ a.pipe.buffer = Tail(Head(p.queue).units)
  /\ a.units = <<Head(Head(p.queue).units)>> /\ Head(Head(p.queue).units) \in U

(* The second section of a read of one unit does one of these. *)
LEMMA ReadEventOne ==
  ASSUME NEW U, NEW p \in Pipe(U), Proper(p), p.buffer = <<>>
  PROVE  TakesNothing(p, ReadEvent(p, 1)) \/ TakesEnd(p, ReadEvent(p, 1)) \/ TakesUnit(U, p, ReadEvent(p, 1))
<1>1. CASE p.queue = <<>>
  BY <1>1 DEF ReadEvent, TakesNothing
<1>2. CASE p.queue # <<>>
  <2> DEFINE e == Head(p.queue)
             k == Least(1, e.units)
             rest == [p EXCEPT !.queue = Tail(@)]
             more == SubSeq(e.units, k + 1, Len(e.units))
  <2>1. e \in Event(U) /\ e = p.queue[1] /\ 1 \in 1 .. Len(p.queue)
    BY SMT, <1>2 DEF Pipe
  <2>2. IF e.kind = "data" THEN e.units # <<>> ELSE p.endQueued
    BY <2>1 DEF Proper
  <2>3. /\ ReadEvent(p, 1).kind = e.kind /\ ReadEvent(p, 1).units = SubSeq(e.units, 1, k)
        /\ ReadEvent(p, 1).pipe = IF e.kind = "data" THEN [rest EXCEPT !.buffer = @ \o more]
                                  ELSE [rest EXCEPT !.closed = TRUE, !.sender = FALSE]
    BY <1>2 DEF ReadEvent
  <2> HIDE DEF e, k, more
  <2>4. CASE e.kind # "data"
    <3>1. /\ ReadEvent(p, 1).pipe.queue = Tail(p.queue) /\ ReadEvent(p, 1).pipe.closed
          /\ ReadEvent(p, 1).pipe.buffer = p.buffer
      BY ZenonT(30), <2>3, <2>4 DEF Pipe
    <3>2. QED
      BY <1>2, <2>2, <2>3, <2>4, <3>1 DEF CanWrite, e, TakesEnd, TakesEvent
  <2>5. CASE e.kind = "data"
    <3>1. ReadEvent(p, 1).pipe = [rest EXCEPT !.buffer = @ \o more]
      BY <2>3, <2>5
    <3>2. /\ ReadEvent(p, 1).pipe.queue = Tail(p.queue) /\ ReadEvent(p, 1).pipe.buffer = p.buffer \o more
          /\ ReadEvent(p, 1).pipe.closed = p.closed /\ ReadEvent(p, 1).pipe.sender = p.sender
          /\ ReadEvent(p, 1).pipe.receiver = p.receiver /\ ReadEvent(p, 1).pipe.endQueued = p.endQueued
      BY ZenonT(30), <3>1 DEF Pipe
    <3>3. e.units \in Seq(U) /\ e.units # <<>>
      BY <2>1, <2>2, <2>5 DEF Event
    <3>4. k = 1 /\ SubSeq(e.units, 1, k) = <<Head(e.units)>> /\ Head(e.units) \in U
          /\ more = Tail(e.units) /\ Tail(e.units) \in Seq(U)
      BY <3>3, FirstUnit DEF k, more
    <3>5. p.buffer \o more = Tail(e.units)
      <4>1. \A q \in Seq(U) : <<>> \o q = q
        BY SMT
      <4>2. QED
        BY <3>4, <4>1
    <3>6. QED
      BY <1>2, <2>3, <2>5, <3>2, <3>4, <3>5 DEF e, CanWrite, TakesUnit, TakesEvent
  <2>6. QED
    BY <2>4, <2>5
<1>3. QED
  BY <1>1, <1>2

-----------------------------------------------------------------------------
(* Settings.                                                               *)

(* Frame cmd comes before any payload. *)
Due(q, cmd) == \E j \in 1 .. Len(q) : q[j].cmd = cmd /\ \A i \in 1 .. j : q[i].cmd # "PSH"

(* A pipe holds data. *)
Holds(p) == p.buffer # <<>> \/ \E i \in 1 .. Len(p.queue) : p.queue[i].kind = "data"

(* Payloads of the server have come to the client. *)
Received == holding["client"] # <<>> \/ Holds(pipe["client"]) \/ partial["client"] # <<>> \/ appGot # <<>>

Settled == st["client"].padding = ServerPadding /\ st["client"].peer = st["server"].peer

(* What the client still misses of the server's settings is on its way to  *)
(* it, ahead of the payloads.                                              *)
SettleInv(o) ==
  /\ ~st["server"].settings => st["server"].peer = 0
  /\ st["client"].peer \in {0, st["server"].peer}
  /\ \A i \in 1 .. Len(net["client"]) :
       /\ net["client"][i].cmd = "PSH" => hand # "new"
       /\ net["client"][i].cmd = "SERVERSETTINGS" => st["server"].settings /\ st["server"].peer = o.v
  /\ run["client"] = "up" /\ st["server"].settings /\ (run["server"] = "up" \/ hand # "new") =>
       /\ st["client"].padding = ServerPadding \/ Due(net["client"], "UPDATEPADDING")
       /\ st["client"].peer = st["server"].peer \/ Due(net["client"], "SERVERSETTINGS")
  /\ Received => hand # "new" /\ Settled

(* Only a write adds data to a pipe, and only data is read. *)
LEMMA HoldsFacts ==
  ASSUME NEW U, NEW p \in Pipe(U), NEW kind, kind # "data", NEW n \in Nat
  PROVE  /\ Holds(FinishStream(p, kind)) => Holds(p)
         /\ Holds(CloseWithError(p)) => Holds(p)
         /\ Holds(DropReader(p)) => Holds(p)
<1>1. Holds(CloseWithError(p)) => Holds(p)
  <2>1. CloseWithError(p).buffer = p.buffer /\ CloseWithError(p).queue = p.queue
    BY SMT DEF CloseWithError, Pipe
  <2>2. QED
    BY <2>1 DEF Holds
<1>2. Holds(DropReader(p)) => Holds(p)
  <2>1. DropReader(p).buffer = p.buffer /\ DropReader(p).queue = <<>>
    BY SMT DEF DropReader, Pipe
  <2>2. \A i \in 1 .. Len(<<>>) : FALSE
    BY SMT
  <2>3. QED
    BY <2>1, <2>2 DEF Holds
<1>3. Holds(FinishStream(p, kind)) => Holds(p)
  <2> DEFINE f == FinishStream(p, kind)
             x == StreamEnd(kind)
  <2>1. f.buffer = p.buffer /\ (f.queue = p.queue \/ f.queue = Append(p.queue, x))
    BY SMT DEF FinishStream, Pipe
  <2>2. p.queue \in Seq(Event(U)) /\ x.kind # "data"
    BY SMT DEF Pipe, StreamEnd
  <2> HIDE DEF f, x
  <2>3. \A i \in 1 .. Len(Append(p.queue, x)) :
          (i \in 1 .. Len(p.queue) /\ Append(p.queue, x)[i] = p.queue[i]) \/ Append(p.queue, x)[i] = x
    BY SMT, <2>2
  <2>4. QED
    BY <2>1, <2>2, <2>3 DEF Holds, f
<1>4. QED
  BY <1>1, <1>2, <1>3

(* What a read of one unit answers was in the pipe. *)
LEMMA AnswerOne ==
  ASSUME NEW U, StreamInv(U), NEW s \in Sides, fut[s] \in {0, 1}, TakeAnswer(s, 1)
  PROVE  /\ Answer(s, 1).kind = "data" => Answer(s, 1).units[1] \in U /\ Holds(pipe[s])
         /\ Holds(pipe'[s]) => Holds(pipe[s])
<1> DEFINE p == pipe[s]
           a == Answer(s, 1)
<1>1. p \in Pipe(U) /\ Proper(p) /\ (fut[s] # 0 => p.buffer = <<>>) /\ pipe'[s] = a.pipe /\ p.queue \in Seq(Event(U))
  BY DEF StreamInv, TakeAnswer, Pipe
<1>2. (fut[s] = 0 => a = ReadNow(p, 1)) /\ (fut[s] # 0 => a = ReadEvent(p, 1))
  BY DEF Answer
<1>3. \A x : <<x>>[1] = x
  BY SMT
<1> HIDE DEF p, a
<1>4. CASE fut[s] = 0
  <2>1. /\ a.pipe.queue = p.queue
        /\ p.buffer = <<>> => a.kind = "eof" /\ a.pipe = p
        /\ p.buffer # <<>> => /\ a.kind = "data" /\ a.units = <<Head(p.buffer)>> /\ Head(p.buffer) \in U
    <3>1. a = ReadNow(p, 1) /\ p \in Pipe(U)
      BY <1>1, <1>2, <1>4
    <3>2. /\ ReadNow(p, 1).pipe.queue = p.queue
          /\ p.buffer = <<>> => ReadNow(p, 1).kind = "eof" /\ ReadNow(p, 1).pipe = p
          /\ p.buffer # <<>> => /\ ReadNow(p, 1).kind = "data" /\ ReadNow(p, 1).units = <<Head(p.buffer)>>
                                /\ Head(p.buffer) \in U
      BY <3>1, ReadNowOne
    <3>3. QED
      BY <3>1, <3>2
  <2>2. a.kind = "data" => p.buffer # <<>> /\ a.units[1] \in U
    BY <1>3, <2>1
  <2>3. QED
    BY <1>1, <2>1, <2>2 DEF Holds, a, p
<1>5. CASE fut[s] # 0
  <2>1. TakesNothing(p, a) \/ TakesEnd(p, a) \/ TakesUnit(U, p, a)
    BY <1>1, <1>2, <1>5, ReadEventOne
  <2>2. CASE TakesNothing(p, a)
    BY <1>1, <2>2 DEF TakesNothing, a, p
  <2>3. ASSUME p.queue # <<>>
        PROVE  /\ \A i \in 1 .. Len(Tail(p.queue)) : i + 1 \in 1 .. Len(p.queue) /\ Tail(p.queue)[i] = p.queue[i + 1]
               /\ Head(p.queue) = p.queue[1] /\ 1 \in 1 .. Len(p.queue)
    BY <1>1, <2>3, TailElements
  <2>4. CASE TakesEnd(p, a)
    <3>1. p.queue # <<>> /\ a.kind # "data" /\ a.pipe.queue = Tail(p.queue) /\ a.pipe.buffer = <<>>
      BY <2>4 DEF TakesEnd, TakesEvent
    <3>2. QED
      BY <1>1, <2>3, <3>1 DEF Holds, a, p
  <2>5. CASE TakesUnit(U, p, a)
    <3>1. p.queue # <<>> /\ a.kind = "data" /\ Head(p.queue).kind = "data" /\ a.units[1] \in U
      BY <1>3, <2>5 DEF TakesUnit, TakesEvent
    <3>2. Holds(p)
      BY <2>3, <3>1 DEF Holds
    <3>3. QED
      BY <3>1, <3>2 DEF a, p
  <2>6. QED
    BY <2>1, <2>2, <2>4, <2>5
<1>6. QED
  BY <1>1, <1>4, <1>5

-----------------------------------------------------------------------------
(* Types.                                                                  *)

RelayTypes(o) ==
  /\ hand \in {"new", "check", "dest", "request", "bind", "relay", "close", "fin", "done"}
  /\ assoc \in {"dest", "request", "select", "close", "fin", "done", "dropped"}
  /\ torn \in [Sides -> BOOLEAN] /\ faults \in 0 .. MaxFaults
  /\ partial \in [Sides -> Seq(Parts(o))] /\ \A s \in Sides : Len(partial[s]) <= 1
  /\ appGot \in Seq(0 .. o.packets) /\ destGot \in Seq(0 .. o.packets)

(* Steps that read no packet and drop none. *)
Quiet ==
  /\ UNCHANGED <<partial, torn, appGot, destGot>>
  /\ Fault \/ faults' = faults
Typed ==
  /\ hand' = hand \/ hand' \in {"check", "dest", "request", "bind", "relay", "close", "fin", "done"}
  /\ assoc' = assoc \/ assoc' \in {"request", "select", "close", "fin", "done", "dropped"}
QuietClient == CliRequest \/ CliEnd \/ CliBreak \/ CliClose \/ CliFin \/ CliWait
QuietServer ==
  ((HandCheck \/ HandClose \/ HandFin) /\ UNCHANGED udpVars) \/ SrvWait \/ SrvOpen \/ SrvBind \/ SrvError
Around == Lose \/ Deny \/ HangUp \/ (\E s \in Sides : Receiver(s) \/ Spawned(s)) \/ UNCHANGED vars

(* What the receive loop does with every frame: it takes it. *)
LEMMA FrameTaken ==
  ASSUME NEW F, net \in [Sides -> Seq(F)], NEW s \in Sides, StreamFrames(s) \/ ControlFrames(s)
  PROVE  run[s] = "up" /\ holding[s] = <<>> /\ net[s] # <<>> /\ net'[s] = Tail(net[s]) /\ Peer(s) \in Sides \ {s}
<1>1. Peer(s) \in Sides \ {s}
  BY SMT DEF Peer, Sides
<1>2. run[s] = "up" /\ holding[s] = <<>> /\ net[s] # <<>>
  BY DEF StreamFrames, ControlFrames, ReceiveSyn, ReceivePsh, ReceiveEnd, ReceiveOther, ReceiveSettings,
               ReceiveServerSettings, ReceiveUpdate, ReceiveHeart, ReceiveAlert, Arrived
<1>3. Consumed(s)[s] = Tail(net[s]) /\ DOMAIN Consumed(s) = Sides
  BY DEF Consumed
<1>4. \A x : [Consumed(s) EXCEPT ![Peer(s)] = x][s] = Tail(net[s])
  BY <1>1, <1>3
<1>5. CASE StreamFrames(s)
  BY <1>1, <1>2, <1>3, <1>4, <1>5 DEF StreamFrames, ReceiveSyn, ReceivePsh, ReceiveEnd, ReceiveOther
<1>6. CASE ControlFrames(s)
  BY <1>1, <1>2, <1>3, <1>4, <1>6 DEF ControlFrames, ReceiveSettings, ReceiveServerSettings, ReceiveUpdate,
     ReceiveHeart, ReceiveAlert, Reply
<1>7. QED
  BY <1>5, <1>6

(* Every step is one of these, overtakes a packet, or reads a part. *)
LEMMA NextCases ==
  ASSUME [Next]_vars
  PROVE  QuietClient \/ QuietServer \/ Around \/ CliUp \/ SrvTick \/ SrvTickApproved \/ SrvDown \/ CliRead \/ SrvRead
BY DEF Next, Tasks, CliTask, SrvTask, QuietClient, QuietServer, Around

(* The first of these leave alone what has been read and delivered. *)
LEMMA QuietSteps ==
  ASSUME QuietClient \/ QuietServer \/ Around
  PROVE  Quiet /\ Typed
<1>1. CASE QuietClient
  <2>1. CASE CliRequest
    BY <2>1 DEF CliRequest, handVars, Quiet, Typed
  <2>2. CASE CliEnd \/ CliBreak
    BY <2>2 DEF CliEnd, CliBreak, handVars, Quiet, Typed
  <2>3. CASE CliClose \/ CliFin
    BY <2>3 DEF CliClose, CliFin, handVars, Quiet, Typed
  <2>4. CASE CliWait
    BY <2>4 DEF CliWait, handVars, udpVars, Quiet, Typed
  <2>5. QED
    BY <1>1, <2>1, <2>2, <2>3, <2>4 DEF QuietClient
<1>2. CASE QuietServer
  <2>1. CASE (HandCheck \/ HandClose \/ HandFin) /\ UNCHANGED udpVars
    BY <2>1 DEF HandCheck, HandClose, HandFin, udpVars, Quiet, Typed
  <2>2. CASE SrvWait \/ SrvOpen
    BY <2>2 DEF SrvWait, SrvOpen, handVars, udpVars, Quiet, Typed
  <2>3. CASE SrvBind
    BY <2>3 DEF SrvBind, Quiet, Typed
  <2>4. CASE SrvError
    BY <2>4 DEF SrvError, Quiet, Typed
  <2>5. QED
    BY <1>2, <2>1, <2>2, <2>3, <2>4 DEF QuietServer
<1>3. CASE Around
  <2>1. CASE Lose \/ Deny \/ HangUp \/ UNCHANGED vars
    BY <2>1 DEF Lose, LoseLink, Deny, DenyUser, HangUp, vars, handVars, udpVars, Quiet, Typed
  <2>2. ASSUME NEW s \in Sides, Receiver(s)
        PROVE  Quiet /\ Typed
    <3>1. UNCHANGED udpVars /\ (hand' = hand \/ hand' = "check")
      BY <2>2 DEF Receiver, RunTask, StreamFrames, ControlFrames, ReceiveSyn, ReceivePsh, ReceiveEnd, ReceiveOther,
         ReceiveSettings, ReceiveServerSettings, ReceiveUpdate, ReceiveHeart, ReceiveAlert, Push, RunEnd, handVars
    <3>2. QED
      BY <3>1 DEF udpVars, Quiet, Typed
  <2>3. ASSUME NEW s \in Sides, Spawned(s)
        PROVE  Quiet /\ Typed
    BY <2>3 DEF Spawned, SpawnedTask, WriterEnd, ClosePipe, handVars, udpVars, Quiet, Typed
  <2>4. QED
    BY <1>3, <2>1, <2>2, <2>3 DEF Around
<1>4. QED
  BY <1>1, <1>2, <1>3

(* TypeOK is preserved. *)
LEMMA NextTypes ==
  \A o : IInv(o) /\ RelayTypes(o) /\ [Next]_vars => RelayTypes(o)'
(* A fault is counted. *)
<1>1. ASSUME faults \in 0 .. MaxFaults, Fault \/ faults' = faults
      PROVE  faults' \in 0 .. MaxFaults
  <2> USE <1>1
  <2>1. MaxFaults \in Nat
    BY UdpAssumption
  <2>2. QED
    BY SMT, <2>1 DEF Fault

(* A packet begun is dropped. *)
<1>2. ASSUME NEW o, RelayTypes(o), NEW s \in Sides, Overtake(s)
      PROVE  /\ faults' \in 0 .. MaxFaults /\ torn' \in [Sides -> BOOLEAN]
             /\ partial' \in [Sides -> Seq(Parts(o))] /\ \A t \in Sides : Len(partial'[t]) <= 1
             /\ \A t \in Sides \ {s} : partial'[t] = partial[t] /\ torn'[t] = torn[t]
             /\ partial'[s] = <<>> /\ torn'[s] = (torn[s] \/ partial[s] # <<>>)
  <2> USE <1>2
  <2>1. /\ faults \in 0 .. MaxFaults /\ torn \in [Sides -> BOOLEAN] /\ partial \in [Sides -> Seq(Parts(o))]
        /\ \A t \in Sides : Len(partial[t]) <= 1
    BY DEF RelayTypes
  <2>2. faults' \in 0 .. MaxFaults
    <3>1. Fault \/ faults' = faults
      BY DEF Overtake, Fault
    <3>2. QED
      BY <2>1, <3>1, <1>1
  <2>3. <<>> \in Seq(Parts(o)) /\ Len(<<>>) <= 1
    BY SMT
  <2>4. /\ torn' = [torn EXCEPT ![s] = torn[s] \/ partial[s] # <<>>]
        /\ partial' = [partial EXCEPT ![s] = <<>>]
    BY DEF Overtake
  <2>5. torn' \in [Sides -> BOOLEAN] /\ torn'[s] = (torn[s] \/ partial[s] # <<>>) /\ \A t \in Sides \ {s} : torn'[t] = torn[t]
    BY <2>1, <2>4
  <2>6. /\ partial' \in [Sides -> Seq(Parts(o))] /\ partial'[s] = <<>>
        /\ \A t \in Sides \ {s} : partial'[t] = partial[t]
    BY <2>1, <2>3, <2>4
  <2>7. \A t \in Sides : Len(partial'[t]) <= 1
    BY <2>1, <2>3, <2>6
  <2>8. QED
    BY <2>2, <2>5, <2>6, <2>7

(* A part is read, and may complete a packet. *)
<1>3. ASSUME NEW o \in Openings, RelayTypes(o), NEW s \in Sides, NEW part \in Parts(o)
      PROVE  /\ TakePart(s, part) => /\ partial' \in [Sides -> Seq(Parts(o))] /\ \A t \in Sides : Len(partial'[t]) <= 1
                                     /\ \A t \in Sides \ {s} : partial'[t] = partial[t]
                                     /\ partial'[s] = IF partial[s] = <<>> THEN <<part>> ELSE <<>>
             /\ Completes(s) => Datagram(Append(partial[s], part)) \in 0 .. o.packets
  <2> USE <1>3
  <2>1. /\ partial \in [Sides -> Seq(Parts(o))] /\ \A t \in Sides : Len(partial[t]) <= 1 /\ partial[t] \in Seq(Parts(o))
    BY DEF RelayTypes
  <2>2. TakePart(s, part) => /\ partial' \in [Sides -> Seq(Parts(o))] /\ \A t \in Sides : Len(partial'[t]) <= 1
                             /\ \A t \in Sides \ {s} : partial'[t] = partial[t]
                             /\ partial'[s] = IF partial[s] = <<>> THEN <<part>> ELSE <<>>
    <3> SUFFICES ASSUME TakePart(s, part)
                 PROVE  /\ partial' \in [Sides -> Seq(Parts(o))] /\ \A t \in Sides : Len(partial'[t]) <= 1
                        /\ \A t \in Sides \ {s} : partial'[t] = partial[t]
                        /\ partial'[s] = IF partial[s] = <<>> THEN <<part>> ELSE <<>>
      BY SMT
    <3> DEFINE x == IF partial[s] = <<>> THEN <<part>> ELSE <<>>
    <3>1. Append(<<>>, part) = <<part>>
      BY SMT
    <3>2. partial' = [partial EXCEPT ![s] = x]
      BY <2>1, <3>1 DEF TakePart, Completes
    <3>3. x \in Seq(Parts(o)) /\ Len(x) <= 1
      BY SMT
    <3> HIDE DEF x
    <3>4. partial' \in [Sides -> Seq(Parts(o))] /\ partial'[s] = x /\ \A t \in Sides \ {s} : partial'[t] = partial[t]
      BY <2>1, <3>2, <3>3
    <3>5. \A t \in Sides : Len(partial'[t]) <= 1
      BY <2>1, <3>3, <3>4
    <3>6. QED
      BY <3>4, <3>5 DEF x
  <2>3. ASSUME Completes(s)
        PROVE  Datagram(Append(partial[s], part)) \in 0 .. o.packets
    <3> DEFINE q == Append(partial[s], part)
    <3>1. partial[s] \in Seq(Parts(o)) /\ partial[s] # <<>>
      BY <2>1, <2>3 DEF Completes
    <3>2. q[1] = partial[s][1] /\ partial[s][1] \in Parts(o)
      BY SMT, <3>1
    <3> HIDE DEF q
    <3>3. q[1][1] \in 0 .. o.packets
      BY SMT, <3>2 DEF Parts
    <3>4. o.packets \in Nat
      BY PacketTypes
    <3>5. Datagram(q) \in 0 .. o.packets
      BY SMT, <3>3, <3>4 DEF Datagram
    <3>6. QED
      BY <3>5 DEF q
  <2>4. QED
    BY <2>2, <2>3

<1>4. ASSUME NEW o, IInv(o), RelayTypes(o), [Next]_vars
      PROVE  RelayTypes(o)'
  <2> USE <1>4
  <2>1. /\ o \in Openings /\ fut["client"] \in {0, 1} /\ fut["server"] \in {0, 1} /\ StreamInv(Parts(o))
        /\ "client" \in Sides /\ "server" \in Sides /\ faults \in 0 .. MaxFaults
    BY DEF IInv, Sides, RelayTypes
  <2>2. CASE QuietClient \/ QuietServer \/ Around
    <3>1. UNCHANGED <<partial, torn, appGot, destGot>> /\ (Fault \/ faults' = faults) /\ Typed
      BY <2>2, QuietSteps DEF Quiet
    <3>2. faults' \in 0 .. MaxFaults
      BY <2>1, <3>1, <1>1
    <3>3. QED
      BY <3>1, <3>2 DEF RelayTypes, Typed
  <2>3. CASE CliUp
    <3>1. Overtake("client") /\ UNCHANGED <<hand, appGot, destGot>> /\ (assoc' = assoc \/ assoc' = "dropped")
      BY <2>3 DEF CliUp, handVars
    <3>2. /\ faults' \in 0 .. MaxFaults /\ torn' \in [Sides -> BOOLEAN]
          /\ partial' \in [Sides -> Seq(Parts(o))] /\ \A t \in Sides : Len(partial'[t]) <= 1
      BY <2>1, <3>1, <1>2
    <3>3. QED
      BY <3>1, <3>2 DEF RelayTypes
  <2>4. CASE SrvTick \/ SrvTickApproved \/ SrvDown
    <3>1. /\ Overtake("server") /\ UNCHANGED <<assoc, appGot, destGot>>
          /\ hand' = hand \/ hand' = "done" \/ hand' = "check" \/ hand' = "fin"
      BY <2>4 DEF SrvTick, SrvTickApproved, SrvDown, handVars
    <3>2. /\ faults' \in 0 .. MaxFaults /\ torn' \in [Sides -> BOOLEAN]
          /\ partial' \in [Sides -> Seq(Parts(o))] /\ \A t \in Sides : Len(partial'[t]) <= 1
      BY <2>1, <3>1, <1>2
    <3>3. QED
      BY <3>1, <3>2 DEF RelayTypes
  <2>5. CASE CliRead
    <3> DEFINE a == Answer("client", 1)
    <3>1. /\ TakeAnswer("client", 1) /\ UNCHANGED <<hand, torn, destGot>> /\ (assoc' = assoc \/ assoc' = "dropped")
          /\ Fault \/ faults' = faults
          /\ \/ partial' = partial /\ appGot' = appGot
             \/ /\ a.kind = "data" /\ TakePart("client", a.units[1])
                /\ \/ appGot' = appGot
                   \/ Completes("client") /\ appGot' = Append(appGot, Datagram(Append(partial["client"], a.units[1])))
      BY <2>5 DEF CliRead, handVars
    <3>2. a.kind = "data" => a.units[1] \in Parts(o)
      BY <2>1, <3>1, AnswerOne
    <3>3. faults' \in 0 .. MaxFaults
      BY <2>1, <3>1, <1>1
    <3> HIDE DEF a
    <3>4. CASE partial' = partial /\ appGot' = appGot
      BY <3>1, <3>3, <3>4 DEF RelayTypes
    <3>5. CASE a.kind = "data" /\ TakePart("client", a.units[1])
      <4>1. /\ partial' \in [Sides -> Seq(Parts(o))] /\ \A t \in Sides : Len(partial'[t]) <= 1
        BY <2>1, <3>2, <3>5, <1>3
      <4>2. Completes("client") => Datagram(Append(partial["client"], a.units[1])) \in 0 .. o.packets
        BY <2>1, <3>2, <3>5, <1>3
      <4>3. appGot \in Seq(0 .. o.packets)
        BY DEF RelayTypes
      <4>4. appGot' \in Seq(0 .. o.packets)
        BY ZenonT(30), <3>1, <4>2, <4>3, AppendLast
      <4>5. QED
        BY <3>1, <3>3, <4>1, <4>4 DEF RelayTypes
    <3>6. QED
      BY <3>1, <3>4, <3>5
  <2>6. CASE SrvRead
    <3> DEFINE a == Answer("server", 1)
    <3>1. /\ TakeAnswer("server", 1) /\ UNCHANGED <<assoc, torn, appGot>> /\ (hand' = hand \/ hand' = "done" \/ hand' = "check")
          /\ Fault \/ faults' = faults
          /\ \/ partial' = partial /\ destGot' = destGot
             \/ partial' = [partial EXCEPT !["server"] = <<>>] /\ destGot' = destGot
             \/ /\ a.kind = "data" /\ TakePart("server", a.units[1])
                /\ \/ destGot' = destGot
                   \/ Completes("server") /\ destGot' = Append(destGot, Datagram(Append(partial["server"], a.units[1])))
      BY <2>6 DEF SrvRead
    <3>2. a.kind = "data" => a.units[1] \in Parts(o)
      BY <2>1, <3>1, AnswerOne
    <3>3. faults' \in 0 .. MaxFaults
      BY <2>1, <3>1, <1>1
    <3> HIDE DEF a
    <3>4. CASE partial' = partial /\ destGot' = destGot
      BY <3>1, <3>3, <3>4 DEF RelayTypes
    <3>5. CASE partial' = [partial EXCEPT !["server"] = <<>>] /\ destGot' = destGot
      <4>1. <<>> \in Seq(Parts(o)) /\ Len(<<>>) <= 1
        BY SMT
      <4>2. partial \in [Sides -> Seq(Parts(o))] /\ \A s \in Sides : Len(partial[s]) <= 1
        BY DEF RelayTypes
      <4>3. partial' \in [Sides -> Seq(Parts(o))] /\ \A t \in Sides : partial'[t] = partial[t] \/ partial'[t] = <<>>
        BY <3>5, <4>1, <4>2
      <4>4. \A t \in Sides : Len(partial'[t]) <= 1
        BY <4>1, <4>2, <4>3
      <4>5. QED
        BY <3>1, <3>3, <3>5, <4>3, <4>4 DEF RelayTypes
    <3>6. CASE a.kind = "data" /\ TakePart("server", a.units[1])
      <4>1. /\ partial' \in [Sides -> Seq(Parts(o))] /\ \A t \in Sides : Len(partial'[t]) <= 1
        BY <2>1, <3>2, <3>6, <1>3
      <4>2. Completes("server") => Datagram(Append(partial["server"], a.units[1])) \in 0 .. o.packets
        BY <2>1, <3>2, <3>6, <1>3
      <4>3. destGot \in Seq(0 .. o.packets)
        BY DEF RelayTypes
      <4>4. destGot' \in Seq(0 .. o.packets)
        BY ZenonT(30), <3>1, <4>2, <4>3, AppendLast
      <4>5. QED
        BY <3>1, <3>3, <4>1, <4>4 DEF RelayTypes
    <3>7. QED
      BY <3>1, <3>4, <3>5, <3>6
  <2>7. QED
    BY <2>2, <2>3, <2>4, <2>5, <2>6, NextCases
<1>5. QED
  BY <1>4

(* What a step of the task of one side leaves alone. *)
LEMMA TaskSides ==
  ASSUME NEW o, IInv(o), NEW s \in Sides, TaskStep(o, s)
  PROVE  /\ net'[s] = net[s] /\ Peer(s) \in Sides \ {s}
         /\ net'[Peer(s)] = net[Peer(s)] \/ \E x \in Sent(o) : net'[Peer(s)] = Append(net[Peer(s)], x)
         /\ \A t \in Sides \ {s} : pipe'[t] = pipe[t] /\ closed'[t] = closed[t] /\ mapped'[t] = mapped[t]
         /\ Holds(pipe'[s]) => Holds(pipe[s])
<1>1. Peer(s) \in Sides \ {s}
  BY SMT DEF Peer, Sides
<1>2. net \in [Sides -> Seq(Frames(o))] /\ StreamInv(Parts(o)) /\ fut[s] \in {0, 1}
  BY DEF IInv, LinkTypes
<1>3. /\ net'[s] = net[s]
      /\ net'[Peer(s)] = net[Peer(s)] \/ \E x \in Sent(o) : net'[Peer(s)] = Append(net[Peer(s)], x)
  BY <1>1, <1>2 DEF TaskStep, Send
<1>4. \A t \in Sides \ {s} : pipe'[t] = pipe[t] /\ closed'[t] = closed[t] /\ mapped'[t] = mapped[t]
  BY <1>2 DEF TaskStep, streamVars, CloseStream, TakeAnswer, Leave, StreamInv
<1>5. Holds(pipe'[s]) => Holds(pipe[s])
  <2>1. CASE pipe' = pipe
    BY <2>1
  <2>2. CASE TakeAnswer(s, 1)
    BY <1>2, <2>2, AnswerOne
  <2>3. CASE Leave(s)
    <3>1. pipe'[s] = pipe[s] \/ pipe'[s] = DropReader(pipe[s])
      BY <1>2, <2>3 DEF Leave, StreamInv
    <3>2. Holds(DropReader(pipe[s])) => Holds(pipe[s])
      <4>1. pipe[s] \in Pipe(Parts(o)) /\ "eof" # "data" /\ 0 \in Nat
        BY <1>2 DEF StreamInv
      <4>2. QED
        BY <4>1, HoldsFacts
    <3>3. QED
      BY <3>1, <3>2
  <2>4. QED
    BY <2>1, <2>2, <2>3 DEF TaskStep, streamVars
<1>6. QED
  BY <1>1, <1>3, <1>4, <1>5

(* What the server answers to the settings of the client: its padding      *)
(* where the client has another, and its settings where the client knows   *)
(* them.                                                                   *)
Replied(o, q, n) ==
  LET u == UpdatePadding(ServerPadding)
      w == ServerSettings(o.v)
      known == ~(o.v < MinVersion)
  IN \/ o.padding = ServerPadding /\ ~known /\ n = q
     \/ o.padding = ServerPadding /\ known /\ n = Append(q, w)
     \/ o.padding # ServerPadding /\ ~known /\ n = Append(q, u)
     \/ o.padding # ServerPadding /\ known /\ n = Append(Append(q, u), w)

(* SettingsReply is put behind the frames to the client so. *)
LEMMA ReplyCases ==
  ASSUME NEW o, NEW q \in Seq(DownFrames(o))
  PROVE  Replied(o, q, q \o SettingsReply(ServerPadding, o.v, o.padding))
<1> DEFINE u == UpdatePadding(ServerPadding)
           w == ServerSettings(o.v)
           D == DownFrames(o)
           known == ~(o.v < MinVersion)
           n == q \o SettingsReply(ServerPadding, o.v, o.padding)
<1>1. u \in D /\ w \in D
  BY FrameTypes
<1>2. n = q \o ((IF o.padding = ServerPadding THEN <<>> ELSE <<u>>) \o (IF ~known THEN <<>> ELSE <<w>>))
  BY DEF SettingsReply
<1> HIDE DEF u, w, D, known, n
<1>3. q \in Seq(D)
  BY DEF D
<1>4. /\ q \o <<>> = q /\ q \o <<u>> = Append(q, u) /\ q \o <<u, w>> = Append(Append(q, u), w)
      /\ <<u>> \o <<w>> = <<u, w>> /\ <<>> \o <<w>> = <<w>> /\ <<u>> \o <<>> = <<u>> /\ <<>> \o <<>> = <<>>
  BY <1>1, <1>3, ConcatAppend
<1>5. q \o <<w>> = Append(q, w)
  BY <1>1, <1>3, ConcatAppend
<1>6. \/ o.padding = ServerPadding /\ ~known /\ n = q
      \/ o.padding = ServerPadding /\ known /\ n = Append(q, w)
      \/ o.padding # ServerPadding /\ ~known /\ n = Append(q, u)
      \/ o.padding # ServerPadding /\ known /\ n = Append(Append(q, u), w)
  BY <1>2, <1>4, <1>5
<1>7. QED
  BY <1>6 DEF Replied, u, w, known, n

(* Every step keeps what is due on its way. *)
LEMMA NextSettles ==
  \A o : IInv(o) /\ RelayTypes(o) /\ SettleInv(o) /\ [Next]_vars => SettleInv(o)'
(* Frames are added behind it. *)
<1>1. ASSUME NEW F, NEW q \in Seq(F), NEW x \in F, NEW cmd, Due(q, cmd)
      PROVE  Due(Append(q, x), cmd)
  <2> USE <1>1
  <2>1. PICK j \in 1 .. Len(q) : q[j].cmd = cmd /\ \A i \in 1 .. j : q[i].cmd # "PSH"
    BY DEF Due
  <2> DEFINE r == Append(q, x)
  <2>2. Len(q) \in Nat /\ Len(r) = Len(q) + 1 /\ \A i \in 1 .. Len(q) : r[i] = q[i]
    BY SMT
  <2> HIDE DEF r
  <2>3. j \in 1 .. Len(r) /\ r[j] = q[j] /\ \A i \in 1 .. j : r[i] = q[i]
    BY SMT, <2>2
  <2>4. QED
    BY <2>1, <2>3 DEF Due, r

(* Frames for the client are added or given up, and settings stay. *)
<1>2. ASSUME NEW o, LinkTypes(o), SettleInv(o), st' = st, hand # "new" => hand' # "new",
             run'["server"] = "up" \/ hand' # "new" => run["server"] = "up" \/ hand # "new",
             run'["client"] = "up" => run["client"] = "up", Received' => Received,
             \/ net'["client"] = net["client"]
             \/ net'["client"] = <<>> /\ run'["client"] # "up"
             \/ \E x \in DownFrames(o) : /\ x.cmd # "SERVERSETTINGS" /\ (x.cmd = "PSH" => hand # "new")
                                         /\ net'["client"] = Append(net["client"], x)
      PROVE  SettleInv(o)'
  <2> USE <1>2
  <2> DEFINE q == net["client"]
             r == net'["client"]
  <2>1. q \in Seq(DownFrames(o))
    BY DEF LinkTypes
  <2>2. \A i \in 1 .. Len(r) :
         /\ r[i].cmd = "PSH" => hand' # "new"
         /\ r[i].cmd = "SERVERSETTINGS" => st'["server"].settings /\ st'["server"].peer = o.v
    <3>1. \A i \in 1 .. Len(q) :
            /\ q[i].cmd = "PSH" => hand' # "new"
            /\ q[i].cmd = "SERVERSETTINGS" => st'["server"].settings /\ st'["server"].peer = o.v
      BY DEF SettleInv
    <3>2. CASE r = q
      BY <3>1, <3>2
    <3>3. CASE r = <<>>
      <4>1. \A i \in 1 .. Len(<<>>) : FALSE
        BY SMT
      <4>2. QED
        BY <3>3, <4>1
    <3>4. ASSUME NEW x \in DownFrames(o), x.cmd # "SERVERSETTINGS", x.cmd = "PSH" => hand # "new", r = Append(q, x)
          PROVE  \A i \in 1 .. Len(r) :
                   /\ r[i].cmd = "PSH" => hand' # "new"
                   /\ r[i].cmd = "SERVERSETTINGS" => st'["server"].settings /\ st'["server"].peer = o.v
      <4> HIDE DEF q
      <4>1. \A i \in 1 .. Len(Append(q, x)) : (i \in 1 .. Len(q) /\ Append(q, x)[i] = q[i]) \/ Append(q, x)[i] = x
        BY SMT, <2>1
      <4>2. QED
        BY <3>1, <3>4, <4>1
    <3>5. QED
      BY <3>2, <3>3, <3>4
  <2>3. ASSUME NEW cmd, Due(q, cmd), run'["client"] = "up"
        PROVE  Due(r, cmd)
    BY <2>1, <2>3, <1>1
  <2>4. run'["client"] = "up" /\ st'["server"].settings /\ (run'["server"] = "up" \/ hand' # "new") =>
         /\ st'["client"].padding = ServerPadding \/ Due(r, "UPDATEPADDING")
         /\ st'["client"].peer = st'["server"].peer \/ Due(r, "SERVERSETTINGS")
    BY <2>3 DEF SettleInv
  <2>5. Received' => hand' # "new" /\ Settled'
    BY DEF SettleInv, Settled
  <2>6. /\ ~st'["server"].settings => st'["server"].peer = 0
        /\ st'["client"].peer \in {0, st'["server"].peer}
    BY DEF SettleInv
  <2>7. QED
    BY <2>2, <2>4, <2>5, <2>6 DEF SettleInv

(* A step of a task.  What the client has received is in its pipe before   *)
(* it reads it, and the server sends payloads only once it has a handler.  *)
<1>3. ASSUME NEW o, IInv(o), SettleInv(o), NEW s \in Sides, TaskStep(o, s), s = "server" => hand # "new",
             partial'["client"] # <<>> \/ appGot' # <<>> => Received
      PROVE  SettleInv(o)'
  <2> USE <1>3
  <2>1. /\ LinkTypes(o) /\ "client" \in Sides /\ "server" \in Sides /\ "client" # "server" /\ s \in {"client", "server"}
        /\ Peer("server") = "client" /\ UNCHANGED <<run, holding, st>> /\ (hand' = "new" <=> hand = "new")
    BY DEF IInv, Sides, Peer, TaskStep
  <2>2. Received' => Received
    <3>1. Holds(pipe'["client"]) => Holds(pipe["client"])
      BY <2>1, TaskSides
    <3>2. QED
      BY <2>1, <3>1 DEF Received
  <2>3. CASE net'["client"] = net["client"]
    BY <2>1, <2>2, <2>3, <1>2
  <2>4. CASE s = "server" /\ \E x \in Sent(o) : net'["client"] = Append(net["client"], x)
    <3>1. PICK x \in Sent(o) : net'["client"] = Append(net["client"], x)
      BY <2>4
    <3>2. x \in DownFrames(o) /\ x.cmd # "SERVERSETTINGS" /\ hand # "new"
      <4>1. x.cmd # "SERVERSETTINGS"
        BY SMT DEF Sent
      <4>2. QED
        BY <2>4, <4>1, FrameTypes
    <3>3. QED
      BY <2>1, <2>2, <3>1, <3>2, <1>2
  <2>5. /\ net'[s] = net[s]
        /\ net'[Peer(s)] = net[Peer(s)] \/ \E x \in Sent(o) : net'[Peer(s)] = Append(net[Peer(s)], x)
    BY TaskSides
  <2>6. QED
    BY <2>1, <2>3, <2>4, <2>5

(* What the client reads of a packet comes from its pipe. *)
<1>4. ASSUME NEW o, IInv(o), RelayTypes(o), CliUp \/ SrvTick \/ SrvTickApproved \/ SrvDown \/ CliRead \/ SrvRead
      PROVE  partial'["client"] # <<>> \/ appGot' # <<>> => Received
  <2> USE <1>4
  <2>1. /\ partial \in [Sides -> Seq(Parts(o))] /\ StreamInv(Parts(o)) /\ fut["client"] \in {0, 1}
        /\ "client" \in Sides /\ "server" \in Sides /\ "client" # "server"
    BY DEF IInv, RelayTypes, Sides
  <2>2. CASE CliUp
    <3>1. appGot' = appGot /\ partial' = [partial EXCEPT !["client"] = <<>>]
      BY <2>2 DEF CliUp, Overtake
    <3>2. QED
      BY <2>1, <3>1 DEF Received
  <2>3. CASE SrvTick \/ SrvTickApproved \/ SrvDown
    <3>1. appGot' = appGot /\ partial' = [partial EXCEPT !["server"] = <<>>]
      BY <2>3 DEF SrvTick, SrvTickApproved, SrvDown, Overtake
    <3>2. partial'["client"] = partial["client"]
      BY <2>1, <3>1
    <3>3. QED
      BY <3>1, <3>2 DEF Received
  <2>4. CASE SrvRead
    <3>1. appGot' = appGot /\ (partial' = partial \/ \E x : partial' = [partial EXCEPT !["server"] = x])
      BY <2>4 DEF SrvRead, TakePart
    <3>2. partial'["client"] = partial["client"]
      BY <2>1, <3>1
    <3>3. QED
      BY <3>1, <3>2 DEF Received
  <2>5. CASE CliRead
    <3>1. TakeAnswer("client", 1) /\ ((partial' = partial /\ appGot' = appGot) \/ Answer("client", 1).kind = "data")
      BY <2>5 DEF CliRead
    <3>2. Answer("client", 1).kind = "data" => Holds(pipe["client"])
      BY <2>1, <3>1, AnswerOne
    <3>3. QED
      BY <3>1, <3>2 DEF Received
  <2>6. QED
    BY <2>2, <2>3, <2>4, <2>5

(* The tasks besides, the writers, the connection and the user. *)
<1>5. \A o : IInv(o) /\ SettleInv(o) /\ Around => SettleInv(o)'
    (* The first such frame. *)
  <2>1. ASSUME NEW F, NEW q \in Seq(F), NEW x \in F, \A i \in 1 .. Len(q) : q[i].cmd # "PSH", x.cmd # "PSH"
        PROVE  Due(Append(q, x), x.cmd) /\ \A i \in 1 .. Len(Append(q, x)) : Append(q, x)[i].cmd # "PSH"
    <3> USE <2>1
    <3> DEFINE r == Append(q, x)
    <3>2. Len(q) \in Nat /\ Len(r) = Len(q) + 1 /\ r[Len(q) + 1] = x /\ \A i \in 1 .. Len(q) : r[i] = q[i]
      BY SMT
    <3> HIDE DEF r
    <3>3. Len(r) \in 1 .. Len(r) /\ r[Len(r)] = x /\ \A i \in 1 .. Len(r) : i \in 1 .. Len(q) \/ r[i] = x
      BY SMT, <3>2
    <3>4. \A i \in 1 .. Len(r) : r[i].cmd # "PSH"
      BY <3>2, <3>3
    <3>5. QED
      BY <3>3, <3>4 DEF Due, r

  (* A frame before it is taken, which is no payload. *)
  <2>2. ASSUME NEW F, NEW q \in Seq(F), q # <<>>, NEW cmd, Due(q, cmd)
        PROVE  Head(q).cmd # "PSH" /\ (Head(q).cmd # cmd => Due(Tail(q), cmd))
    <3> USE <2>2
    <3>1. PICK j \in 1 .. Len(q) : q[j].cmd = cmd /\ \A i \in 1 .. j : q[i].cmd # "PSH"
      BY DEF Due
    <3> DEFINE r == Tail(q)
    <3>2. Len(q) \in Nat \ {0} /\ Len(r) = Len(q) - 1 /\ Head(q) = q[1] /\ \A i \in 1 .. Len(q) - 1 : r[i] = q[i + 1]
      BY SMT
    <3> HIDE DEF r
    <3>3. Head(q).cmd # "PSH"
      BY SMT, <3>1, <3>2
    <3>4. ASSUME Head(q).cmd # cmd
          PROVE  Due(r, cmd)
      <4>1. j # 1
        BY SMT, <3>1, <3>2, <3>4
      <4>2. j - 1 \in 1 .. Len(r) /\ r[j - 1] = q[j] /\ \A i \in 1 .. j - 1 : i + 1 \in 1 .. j /\ r[i] = q[i + 1]
        BY SMT, <3>2, <4>1
      <4>3. QED
        BY <3>1, <4>2 DEF Due
    <3>5. QED
      BY <3>3, <3>4 DEF r

  (* The client takes a frame. *)
  <2>3. ASSUME NEW o, IInv(o), SettleInv(o), run["client"] = "up", net["client"] # <<>>, net'["client"] = Tail(net["client"]),
               hand' = hand, run'["server"] = run["server"], st'["server"] = st["server"],
               Head(net["client"]).cmd = "UPDATEPADDING" =>
                 st'["client"].padding = ServerPadding /\ st'["client"].peer = st["client"].peer,
               Head(net["client"]).cmd = "SERVERSETTINGS" =>
                 st'["client"].padding = st["client"].padding /\ st'["client"].peer = o.v,
               Head(net["client"]).cmd \notin {"UPDATEPADDING", "SERVERSETTINGS"} => st'["client"] = st["client"],
               Received' => Received \/ Head(net["client"]).cmd = "PSH"
        PROVE  SettleInv(o)'
    <3> USE <2>3
    <3> DEFINE q == net["client"]
               x == Head(q)
    <3>1. q \in Seq(DownFrames(o)) /\ q # <<>> /\ net'["client"] = Tail(q) /\ (hand # "new" => st["server"].settings)
      BY DEF IInv, LinkTypes, OpeningOrder
    <3>2. \A i \in 1 .. Len(q) :
           /\ q[i].cmd = "PSH" => hand # "new"
           /\ q[i].cmd = "SERVERSETTINGS" => st["server"].settings /\ st["server"].peer = o.v
      BY DEF SettleInv
    <3>3. /\ \A i \in 1 .. Len(Tail(q)) : i + 1 \in 1 .. Len(q) /\ Tail(q)[i] = q[i + 1]
          /\ x = q[1] /\ 1 \in 1 .. Len(q)
      BY SMT, <3>1
    <3>4. \A cmd : Due(q, cmd) => x.cmd # "PSH" /\ (x.cmd # cmd => Due(Tail(q), cmd))
      BY <3>1, <2>2
    <3>5. /\ x.cmd = "UPDATEPADDING" => st'["client"].padding = ServerPadding /\ st'["client"].peer = st["client"].peer
          /\ x.cmd = "SERVERSETTINGS" => st'["client"].padding = st["client"].padding /\ st'["client"].peer = o.v
          /\ x.cmd \notin {"UPDATEPADDING", "SERVERSETTINGS"} => st'["client"] = st["client"]
          /\ Received' => Received \/ x.cmd = "PSH"
      OBVIOUS
    <3>6. /\ st["server"].settings /\ (run["server"] = "up" \/ hand # "new") =>
               /\ st["client"].padding = ServerPadding \/ Due(q, "UPDATEPADDING")
               /\ st["client"].peer = st["server"].peer \/ Due(q, "SERVERSETTINGS")
          /\ Received => hand # "new" /\ Settled
          /\ st["client"].peer \in {0, st["server"].peer} /\ (~st["server"].settings => st["server"].peer = 0)
      BY DEF SettleInv
    <3> HIDE DEF x, q
    <3>7. x.cmd = "SERVERSETTINGS" => st["server"].peer = o.v
      BY <3>2, <3>3
    <3>8. Settled => Settled'
      BY <3>5, <3>7 DEF Settled
    <3>9. x.cmd = "PSH" => hand # "new" /\ Settled
      BY <3>1, <3>2, <3>3, <3>4, <3>6 DEF Settled
    <3>10. Received' => hand' # "new" /\ Settled'
      BY <3>5, <3>6, <3>8, <3>9
    <3>11. \A i \in 1 .. Len(Tail(q)) :
             /\ Tail(q)[i].cmd = "PSH" => hand' # "new"
             /\ Tail(q)[i].cmd = "SERVERSETTINGS" => st'["server"].settings /\ st'["server"].peer = o.v
      BY <3>2, <3>3
    <3>12. st'["server"].settings /\ (run'["server"] = "up" \/ hand' # "new") =>
             /\ st'["client"].padding = ServerPadding \/ Due(Tail(q), "UPDATEPADDING")
             /\ st'["client"].peer = st'["server"].peer \/ Due(Tail(q), "SERVERSETTINGS")
      BY <3>4, <3>5, <3>6, <3>7
    <3>13. st'["client"].peer \in {0, st'["server"].peer}
      BY <3>5, <3>6, <3>7
    <3>14. QED
      BY <3>1, <3>6, <3>10, <3>11, <3>12, <3>13 DEF SettleInv

  (* What the server answers to settings is due to the client. *)
  <2>4. ASSUME NEW o, NEW q \in Seq(DownFrames(o)),
               \A i \in 1 .. Len(q) : q[i].cmd # "PSH" /\ q[i].cmd # "SERVERSETTINGS",
               NEW n, n = q \o SettingsReply(ServerPadding, o.v, o.padding)
        PROVE  /\ o.padding # ServerPadding => Due(n, "UPDATEPADDING")
               /\ ~(o.v < MinVersion) => Due(n, "SERVERSETTINGS")
               /\ \A i \in 1 .. Len(n) : n[i].cmd # "PSH" /\ (n[i].cmd = "SERVERSETTINGS" => ~(o.v < MinVersion))
    <3> USE <2>4
    <3> DEFINE u == UpdatePadding(ServerPadding)
               w == ServerSettings(o.v)
               D == DownFrames(o)
               known == ~(o.v < MinVersion)
    <3>1. u \in D /\ w \in D
      BY FrameTypes
    <3>2. u.cmd = "UPDATEPADDING" /\ w.cmd = "SERVERSETTINGS"
      BY SMT DEF UpdatePadding, ServerSettings
    <3> HIDE DEF u, w, D, known
    <3>3. q \in Seq(D)
      BY DEF D
    <3>4. \/ o.padding = ServerPadding /\ ~known /\ n = q
          \/ o.padding = ServerPadding /\ known /\ n = Append(q, w)
          \/ o.padding # ServerPadding /\ ~known /\ n = Append(q, u)
          \/ o.padding # ServerPadding /\ known /\ n = Append(Append(q, u), w)
      BY ReplyCases DEF Replied, u, w, known
    <3>5. ASSUME NEW p \in Seq(D), NEW x \in D, x.cmd # "PSH", \A i \in 1 .. Len(p) : p[i].cmd # "PSH"
          PROVE  /\ Due(Append(p, x), x.cmd) /\ Append(p, x) \in Seq(D)
                 /\ \A i \in 1 .. Len(Append(p, x)) : Append(p, x)[i].cmd # "PSH"
                 /\ \A i \in 1 .. Len(Append(p, x)) : (i \in 1 .. Len(p) /\ Append(p, x)[i] = p[i]) \/ Append(p, x)[i] = x
                 /\ \A cmd : Due(p, cmd) => Due(Append(p, x), cmd)
      <4>1. /\ Due(Append(p, x), x.cmd)
            /\ \A i \in 1 .. Len(Append(p, x)) : Append(p, x)[i].cmd # "PSH"
        BY <3>5, <2>1
      <4>2. \A cmd : Due(p, cmd) => Due(Append(p, x), cmd)
        BY <1>1
      <4>3. /\ Append(p, x) \in Seq(D)
            /\ \A i \in 1 .. Len(Append(p, x)) : (i \in 1 .. Len(p) /\ Append(p, x)[i] = p[i]) \/ Append(p, x)[i] = x
        BY SMT
      <4>4. QED
        BY <4>1, <4>2, <4>3
    <3>6. CASE o.padding = ServerPadding /\ ~known /\ n = q
      BY <3>6 DEF known
    <3>7. CASE o.padding = ServerPadding /\ known /\ n = Append(q, w)
      <4>1. Due(n, w.cmd) /\ \A i \in 1 .. Len(n) : n[i].cmd # "PSH"
        <5>1. Due(Append(q, w), w.cmd) /\ \A i \in 1 .. Len(Append(q, w)) : Append(q, w)[i].cmd # "PSH"
          BY <3>1, <3>2, <3>3, <2>1
        <5>2. QED
          BY <3>7, <5>1
      <4>2. QED
        BY <3>2, <3>7, <4>1 DEF known
    <3>8. CASE o.padding # ServerPadding /\ ~known /\ n = Append(q, u)
      <4>1. /\ Due(n, u.cmd) /\ \A i \in 1 .. Len(n) : n[i].cmd # "PSH"
            /\ \A i \in 1 .. Len(n) : (i \in 1 .. Len(q) /\ n[i] = q[i]) \/ n[i] = u
        BY ZenonT(30), <3>1, <3>2, <3>3, <3>5, <3>8
      <4>2. QED
        BY <3>2, <3>8, <4>1 DEF known
    <3>9. CASE o.padding # ServerPadding /\ known /\ n = Append(Append(q, u), w)
      <4> DEFINE m == Append(q, u)
      <4>1. m \in Seq(D) /\ Due(m, u.cmd) /\ \A i \in 1 .. Len(m) : m[i].cmd # "PSH"
        BY <3>1, <3>2, <3>3, <3>5
      <4> HIDE DEF m
      <4>2. n = Append(m, w)
        BY <3>9 DEF m
      <4>3. Due(n, w.cmd) /\ (\A i \in 1 .. Len(n) : n[i].cmd # "PSH") /\ Due(n, u.cmd)
        <5>1. Due(Append(m, w), w.cmd) /\ \A i \in 1 .. Len(Append(m, w)) : Append(m, w)[i].cmd # "PSH"
          BY <3>1, <3>2, <4>1, <2>1
        <5>2. Due(Append(m, w), u.cmd)
          BY <3>1, <4>1, <1>1
        <5>3. QED
          BY <4>2, <5>1, <5>2
      <4>4. QED
        BY <3>2, <3>9, <4>3 DEF known
    <3>10. QED
      BY <3>4, <3>6, <3>7, <3>8, <3>9

  (* The server takes the settings of the client. *)
  <2>5. ASSUME NEW o, IInv(o), SettleInv(o), NEW s \in Sides, ReceiveSettings(s), UNCHANGED udpVars
        PROVE  SettleInv(o)'
    <3> USE <2>5
    <3>1. LinkTypes(o) /\ OpeningOrder /\ st \in [Sides -> States(o)] /\ net["client"] \in Seq(DownFrames(o))
      BY DEF IInv, LinkTypes
    <3>2. net[s] # <<>> /\ Head(net[s]).cmd = "SETTINGS" /\ UNCHANGED <<pipe, holding, hand, appGot, partial>>
      BY DEF ReceiveSettings, Arrived, streamVars, handVars, udpVars
    <3>3. /\ s = "server" /\ "server" \in Sides /\ "client" \in Sides /\ "client" # "server" /\ Peer("server") = "client"
          /\ Head(net[s]).v = o.v /\ Head(net[s]).padding = o.padding
      <4>1. s = "server" /\ Head(net[s]).v = o.v /\ Head(net[s]).padding = o.padding
        BY <3>1, <3>2, HeadFacts
      <4>2. QED
        BY <4>1 DEF Sides, Peer
    <3> DEFINE q == net["client"]
               known == ~(o.v < MinVersion)
               peer == IF known THEN o.v ELSE st["server"].peer
               r == SettingsReply(ServerPadding, o.v, o.padding)
    <3>4. ~st["server"].settings /\ hand = "new"
      <4>1. Head(net["server"]) = net["server"][1] /\ 1 \in 1 .. Len(net["server"])
        <5>1. net["server"] \in Seq(UpFrames(o)) /\ net["server"] # <<>>
          BY <3>1, <3>2, <3>3 DEF LinkTypes
        <5>2. QED
          BY <5>1, TailElements
      <4>2. QED
        BY <3>1, <3>2, <3>3, <4>1 DEF OpeningOrder
    <3>5. /\ st["server"].peer = 0 /\ st["client"].peer = 0 /\ ~Received
          /\ \A i \in 1 .. Len(q) : q[i].cmd # "PSH" /\ q[i].cmd # "SERVERSETTINGS"
          /\ st["client"].padding = o.padding \/ st["client"].padding = ServerPadding
      BY <3>1, <3>3, <3>4 DEF SettleInv, States
    <3>6. /\ st' = [st EXCEPT !["server"].settings = TRUE, !["server"].peer = peer] /\ Reply("server", r, TRUE)
      <4>1. st["server"].padding = ServerPadding
        BY <3>1 DEF LinkTypes
      <4>2. QED
        BY <3>3, <4>1 DEF ReceiveSettings
    <3> HIDE DEF peer, r, known, q
    <3>7. st'["server"].settings /\ st'["server"].peer = peer /\ st'["client"] = st["client"]
      BY SMTT(30), <3>1, <3>3, <3>6 DEF States
    <3>8. ~Received' /\ hand' = hand
      BY <3>2, <3>5 DEF Received
    <3>9. (known => peer = o.v) /\ (~known => peer = 0)
      BY <3>5 DEF peer
    <3>10. CASE r # <<>> /\ lost
      <4>1. net' = Consumed("server") /\ run'["server"] # "up"
        <5>1. net' = Consumed("server") /\ run' = [run EXCEPT !["server"] = "failing"]
          BY <3>6, <3>10 DEF Reply
        <5>2. QED
          BY <3>1, <3>3, <5>1 DEF LinkTypes
      <4>2. net'["client"] = q
        BY <3>1, <3>3, <4>1 DEF Consumed, LinkTypes, q
      <4>3. \A i \in 1 .. Len(net'["client"]) : net'["client"][i].cmd # "PSH" /\ net'["client"][i].cmd # "SERVERSETTINGS"
        BY <3>5, <4>2
      <4>4. QED
        BY <3>4, <3>5, <3>7, <3>8, <4>1, <4>3 DEF SettleInv
    <3>11. CASE ~(r # <<>> /\ lost)
      <4>1. net'["client"] = q \o r
        <5>1. net' = [Consumed("server") EXCEPT !["client"] = @ \o r]
          BY <3>3, <3>6, <3>11 DEF Reply
        <5>2. r \in Seq(DownFrames(o))
          BY SettingsReplyTypes DEF r
        <5>3. QED
          BY <3>1, <3>2, <3>3, <5>1, <5>2, ReplyTypes DEF q
      <4>2. /\ o.padding # ServerPadding => Due(net'["client"], "UPDATEPADDING")
            /\ known => Due(net'["client"], "SERVERSETTINGS")
            /\ \A i \in 1 .. Len(net'["client"]) :
                 net'["client"][i].cmd # "PSH" /\ (net'["client"][i].cmd = "SERVERSETTINGS" => known)
        <5>1. q \in Seq(DownFrames(o))
          BY <3>1 DEF q
        <5>2. QED
          BY <3>5, <4>1, <5>1, <2>4 DEF r, known
      <4>3. QED
        BY <3>5, <3>7, <3>8, <3>9, <4>2 DEF SettleInv
    <3>12. QED
      BY <3>10, <3>11

  (* The receive loop of the client, one frame. *)
  <2>6. ASSUME NEW o, IInv(o), SettleInv(o), StreamFrames("client") \/ ControlFrames("client"), UNCHANGED udpVars
        PROVE  SettleInv(o)'
    <3> USE <2>6
    <3> DEFINE x == Head(net["client"])
    <3>1. /\ LinkTypes(o) /\ StreamInv(Parts(o)) /\ st \in [Sides -> States(o)] /\ holding \in [Sides -> Seq(Parts(o))]
          /\ "client" \in Sides /\ "server" \in Sides /\ "client" # "server"
      BY DEF IInv, LinkTypes, Sides
    <3>2. /\ run["client"] = "up" /\ holding["client"] = <<>> /\ net["client"] # <<>> /\ net'["client"] = Tail(net["client"])
      BY <3>1, FrameTaken DEF LinkTypes
    <3>3. /\ x.cmd \notin {"SYN", "HEARTREQUEST", "SETTINGS"}
          /\ x.cmd = "SERVERSETTINGS" => x.v = o.v
          /\ x.cmd = "UPDATEPADDING" => x.padding = ServerPadding
      BY <3>1, <3>2, HeadFacts
    <3>4. UNCHANGED <<appGot, partial>>
      BY DEF udpVars
    <3>5. CASE ReceivePsh("client")
      <4>1. x.cmd = "PSH" /\ UNCHANGED <<st, hand, run, pipe>>
        BY <3>5 DEF ReceivePsh, Arrived, handVars, streamVars
      <4>2. QED
        BY <3>2, <4>1, <2>3
    <3>6. CASE ReceiveOther("client")
      <4>1. x.cmd \in {"SYNACK", "HEARTRESPONSE"} /\ UNCHANGED <<st, hand, run, pipe, holding>>
        BY <3>6 DEF ReceiveOther, Arrived, handVars, streamVars
      <4>2. Received' => Received
        BY <3>4, <4>1 DEF Received
      <4>3. x.cmd # "UPDATEPADDING" /\ x.cmd # "SERVERSETTINGS"
        BY <4>1
      <4>4. QED
        BY <3>2, <4>1, <4>2, <4>3, <2>3
    <3>7. CASE ReceiveEnd("client")
      <4> DEFINE kind == IF x.cmd = "FIN" THEN "eof" ELSE "error"
      <4>1. x.cmd \in {"FIN", "SYNERR"} /\ UNCHANGED <<st, hand, run, holding>> /\ EndStream("client", kind)
        BY <3>7 DEF ReceiveEnd, Arrived, handVars
      <4>2. kind # "data"
        BY SMT
      <4> HIDE DEF kind
      <4>3. Holds(pipe'["client"]) => Holds(pipe["client"])
        <5>1. pipe["client"] \in Pipe(Parts(o)) /\ 0 \in Nat
          BY <3>1 DEF StreamInv
        <5>2. pipe'["client"] = pipe["client"] \/ pipe'["client"] = FinishStream(pipe["client"], kind)
          BY <3>1, <4>1 DEF EndStream, StreamInv
        <5>3. Holds(FinishStream(pipe["client"], kind)) => Holds(pipe["client"])
          BY <4>2, <5>1, HoldsFacts
        <5>4. QED
          BY <5>2, <5>3
      <4>4. Received' => Received
        BY <3>4, <4>1, <4>3 DEF Received
      <4>5. x.cmd # "UPDATEPADDING" /\ x.cmd # "SERVERSETTINGS"
        BY <4>1
      <4>6. QED
        BY <3>2, <4>1, <4>4, <4>5, <2>3
    <3>8. CASE ReceiveServerSettings("client")
      <4>1. /\ x.cmd = "SERVERSETTINGS" /\ st' = [st EXCEPT !["client"].peer = o.v] /\ UNCHANGED <<hand, run, pipe, holding>>
        BY <3>3, <3>8 DEF ReceiveServerSettings, Arrived, handVars, streamVars
      <4>2. Received' => Received
        BY <3>4, <4>1 DEF Received
      <4>3. st'["server"] = st["server"] /\ st'["client"].peer = o.v /\ st'["client"].padding = st["client"].padding
        BY SMT, <3>1, <4>1 DEF States
      <4>4. x.cmd # "UPDATEPADDING"
        BY <4>1
      <4>5. QED
        BY <3>2, <4>1, <4>2, <4>3, <4>4, <2>3
    <3>9. CASE ReceiveUpdate("client")
      <4>1. /\ x.cmd = "UPDATEPADDING" /\ st' = [st EXCEPT !["client"].padding = ServerPadding]
            /\ UNCHANGED <<hand, run, pipe, holding>>
        BY <3>3, <3>9 DEF ReceiveUpdate, Arrived, handVars, streamVars
      <4>2. Received' => Received
        BY <3>4, <4>1 DEF Received
      <4>3. st'["server"] = st["server"] /\ st'["client"].padding = ServerPadding /\ st'["client"].peer = st["client"].peer
        BY SMT, <3>1, <4>1 DEF States
      <4>4. x.cmd # "SERVERSETTINGS"
        BY <4>1
      <4>5. QED
        BY <3>2, <4>1, <4>2, <4>3, <4>4, <2>3
    <3>10. CASE ReceiveAlert("client")
      <4>1. /\ x.cmd = "ALERT" /\ UNCHANGED <<st, hand, pipe, holding>> /\ run' = [run EXCEPT !["client"] = "failing"]
        BY <3>10 DEF ReceiveAlert, Arrived, handVars, streamVars
      <4>2. Received' => Received
        BY <3>4, <4>1 DEF Received
      <4>3. x.cmd # "UPDATEPADDING" /\ x.cmd # "SERVERSETTINGS"
        BY <4>1
      <4>4. run'["server"] = run["server"]
        BY <3>1, <4>1 DEF LinkTypes
      <4>5. QED
        BY <3>2, <4>1, <4>2, <4>3, <4>4, <2>3
    <3>11. CASE ReceiveSyn("client") \/ ReceiveSettings("client") \/ ReceiveHeart("client")
      <4>1. x.cmd \in {"SYN", "HEARTREQUEST", "SETTINGS"}
        BY <3>11 DEF ReceiveSyn, ReceiveSettings, ReceiveHeart, Arrived
      <4>2. QED
        BY <3>3, <4>1
    <3>12. QED
      BY <3>5, <3>6, <3>7, <3>8, <3>9, <3>10, <3>11 DEF StreamFrames, ControlFrames

  (* The receive loop of the server, one frame other than settings. *)
  <2>7. ASSUME NEW o, IInv(o), SettleInv(o), StreamFrames("server") \/ ReceiveHeart("server"), UNCHANGED udpVars
        PROVE  SettleInv(o)'
    <3> USE <2>7
    <3>1. /\ LinkTypes(o) /\ StreamInv(Parts(o)) /\ holding \in [Sides -> Seq(Parts(o))] /\ net["client"] \in Seq(DownFrames(o))
          /\ run \in [Sides -> {"up", "failing", "ended"}] /\ net \in [Sides -> Seq(Frames(o))]
          /\ "client" \in Sides /\ "server" \in Sides /\ "client" # "server" /\ Peer("server") = "client"
      BY DEF IInv, LinkTypes, Sides, Peer
    <3>2. UNCHANGED <<appGot, partial, st>>
      BY DEF udpVars, StreamFrames, ReceiveSyn, ReceivePsh, ReceiveEnd, ReceiveOther, ReceiveHeart
    <3>3. Consumed("server")["client"] = net["client"] /\ Consumed("server") \in [Sides -> Seq(Frames(o))] /\ run["server"] = "up"
      <4>1. net["server"] # <<>> /\ run["server"] = "up"
        BY DEF StreamFrames, ReceiveSyn, ReceivePsh, ReceiveEnd, ReceiveOther, ReceiveHeart, Arrived
      <4>2. Consumed("server") \in [Sides -> Seq(Frames(o))]
        BY <3>1, <4>1, HeadFacts
      <4>3. QED
        BY <3>1, <4>1, <4>2 DEF Consumed
    <3>4. pipe'["client"] = pipe["client"] /\ holding'["client"] = holding["client"] /\ run'["client"] = run["client"]
      <4>1. CASE StreamFrames("server")
        BY <3>1, <4>1 DEF StreamFrames, ReceiveSyn, ReceivePsh, ReceiveEnd, ReceiveOther, EndStream, streamVars, StreamInv
      <4>2. CASE ReceiveHeart("server")
        BY <3>1, <4>2 DEF ReceiveHeart, Reply, streamVars
      <4>3. QED
        BY <4>1, <4>2
    <3>5. Received' => Received
      BY <3>2, <3>4 DEF Received
    <3>6. \A x \in DownFrames(o) : net["client"] \o <<x>> = Append(net["client"], x)
      BY ZenonT(30), <3>1, ConcatAppend
    <3>7. Frame("HEARTRESPONSE") \in DownFrames(o) /\ (~o.declares => Frame("ALERT") \in DownFrames(o))
      BY FrameTypes
    <3>8. Frame("HEARTRESPONSE").cmd = "HEARTRESPONSE" /\ Frame("ALERT").cmd = "ALERT"
      BY SMT DEF Frame
    <3>9. CASE ReceivePsh("server") \/ ReceiveEnd("server") \/ ReceiveOther("server")
      <4>1. net'["client"] = net["client"] /\ UNCHANGED <<hand, run>>
        BY <3>3, <3>9 DEF ReceivePsh, ReceiveEnd, ReceiveOther, handVars
      <4>2. QED
        BY <3>1, <3>2, <3>5, <4>1, <1>2
    <3>10. CASE ReceiveHeart("server")
      <4>1. hand' = hand
        BY <3>10 DEF ReceiveHeart, handVars
      <4>2. net'["client"] = net["client"] \/ net'["client"] = Append(net["client"], Frame("HEARTRESPONSE"))
        BY <3>1, <3>3, <3>6, <3>7, <3>10 DEF ReceiveHeart, Reply
      <4>3. QED
        BY <3>1, <3>2, <3>3, <3>4, <3>5, <3>7, <3>8, <4>1, <4>2, <1>2
    <3>11. CASE ReceiveSyn("server")
      <4>1. net["server"] # <<>> /\ Head(net["server"]).cmd = "SYN"
        BY <3>11 DEF ReceiveSyn, Arrived
      <4>2. hand = "new" /\ (o.declares => st["server"].settings)
        BY <3>1, <4>1, SynFacts
      <4>3. net'["client"] = net["client"] \/ (~o.declares /\ net'["client"] = Append(net["client"], Frame("ALERT")))
        <5>1. CASE st["server"].settings
          BY <3>3, <3>11, <5>1 DEF ReceiveSyn
        <5>2. CASE ~st["server"].settings
          <6>1. net' = Consumed("server") \/ net' = [Consumed("server") EXCEPT !["client"] = Append(@, Frame("ALERT"))]
            BY <3>1, <3>11, <5>2 DEF ReceiveSyn
          <6>2. QED
            BY <3>1, <3>3, <4>2, <5>2, <6>1
        <5>3. QED
          BY <5>1, <5>2
      <4>4. CASE net'["client"] = net["client"]
        BY <3>1, <3>2, <3>3, <3>4, <3>5, <4>2, <4>4, <1>2
      <4>5. CASE ~o.declares /\ net'["client"] = Append(net["client"], Frame("ALERT"))
        BY <3>1, <3>2, <3>3, <3>4, <3>5, <3>7, <3>8, <4>2, <4>5, <1>2
      <4>6. QED
        BY <4>3, <4>4, <4>5
    <3>12. QED
      BY <3>9, <3>10, <3>11 DEF StreamFrames

  (* What the receive loops do besides. *)
  <2>8. ASSUME NEW o, IInv(o), SettleInv(o), NEW s \in Sides, Push(s) \/ RunEnd(s), UNCHANGED udpVars
        PROVE  SettleInv(o)'
    <3> USE <2>8
    <3>1. /\ LinkTypes(o) /\ StreamInv(Parts(o)) /\ holding \in [Sides -> Seq(Parts(o))]
          /\ run \in [Sides -> {"up", "failing", "ended"}] /\ net \in [Sides -> Seq(Frames(o))]
          /\ "client" \in Sides /\ "server" \in Sides /\ s \in {"client", "server"} /\ pipe["client"] \in Pipe(Parts(o))
      BY DEF IInv, LinkTypes, Sides, StreamInv
    <3>2. UNCHANGED <<appGot, partial, st, hand>>
      BY DEF udpVars, Push, RunEnd, handVars
    <3>3. \A t \in Sides : run'[t] = "up" => run[t] = "up"
      <4>1. \E x : run' = [run EXCEPT ![s] = x] /\ (x = run[s] \/ x # "up")
        BY <3>1 DEF Push, RunEnd
      <4>2. QED
        BY <3>1, <4>1
    <3>4. net'["client"] = net["client"] \/ (net'["client"] = <<>> /\ run'["client"] # "up")
      <4>1. CASE Push(s)
        BY <4>1 DEF Push
      <4>2. CASE RunEnd(s)
        <5>1. net' = [net EXCEPT ![s] = <<>>] /\ run' = [run EXCEPT ![s] = "ended"]
          BY <4>2 DEF RunEnd
        <5>2. CASE s = "client"
          BY <3>1, <5>1, <5>2
        <5>3. CASE s # "client"
          BY <3>1, <5>1, <5>3
        <5>4. QED
          BY <5>2, <5>3
      <4>3. QED
        BY <4>1, <4>2
    <3>5. Received' => Received
      <4>1. CASE Push(s) /\ s = "client"
        BY <4>1 DEF Push, Received
      <4>2. CASE Push(s) /\ s # "client"
        <5>1. pipe'["client"] = pipe["client"] /\ holding'["client"] = holding["client"]
          BY <3>1, <4>2 DEF Push, StreamInv
        <5>2. QED
          BY <3>2, <5>1 DEF Received
      <4>3. CASE RunEnd(s)
        <5>1. holding' = holding /\ (pipe'["client"] = pipe["client"] \/ pipe'["client"] = FinishStream(pipe["client"], "eof"))
          BY <3>1, <4>3 DEF RunEnd, EndStream, StreamInv
        <5>2. Holds(FinishStream(pipe["client"], "eof")) => Holds(pipe["client"])
          <6>1. "eof" # "data" /\ 0 \in Nat
            BY SMT
          <6>2. QED
            BY <3>1, <6>1, HoldsFacts
        <5>3. QED
          BY <3>2, <5>1, <5>2 DEF Received
      <4>4. QED
        BY <4>1, <4>2, <4>3
    <3>6. QED
      BY <3>1, <3>2, <3>3, <3>4, <3>5, <1>2

  <2>9. ASSUME NEW o, IInv(o), SettleInv(o), Around
        PROVE  SettleInv(o)'
    <3> USE <2>9
    <3>1. /\ LinkTypes(o) /\ StreamInv(Parts(o)) /\ pipe["client"] \in Pipe(Parts(o)) /\ net \in [Sides -> Seq(Frames(o))]
          /\ "client" \in Sides /\ "server" \in Sides /\ "client" # "server"
      BY DEF IInv, LinkTypes, StreamInv, Sides
    <3>2. CASE Lose \/ Deny \/ HangUp \/ UNCHANGED vars
      <4>1. UNCHANGED <<st, hand, run, pipe, holding, partial, appGot>> /\ net'["client"] = net["client"]
        BY <3>1, <3>2 DEF Lose, LoseLink, Deny, DenyUser, HangUp, vars, streamVars, linkVars, handVars, udpVars
      <4>2. Received' => Received
        BY <4>1 DEF Received
      <4>3. QED
        BY <3>1, <4>1, <4>2, <1>2
    <3>3. ASSUME NEW s \in Sides, Spawned(s)
          PROVE  SettleInv(o)'
      <4>1. UNCHANGED <<st, hand, run, net, holding, partial, appGot>>
        BY <3>3 DEF Spawned, SpawnedTask, WriterEnd, ClosePipe, linkVars, handVars, udpVars
      <4>2. pipe'["client"] = pipe["client"] \/ pipe'["client"] = CloseWithError(pipe["client"])
        <5>1. pipe' = pipe \/ pipe' = [pipe EXCEPT ![s] = CloseWithError(@)]
          BY <3>3 DEF Spawned, SpawnedTask, WriterEnd, ClosePipe, streamVars
        <5>2. QED
          BY <3>1, <5>1 DEF StreamInv
      <4>3. Holds(CloseWithError(pipe["client"])) => Holds(pipe["client"])
        <5>1. "eof" # "data" /\ 0 \in Nat
          BY SMT
        <5>2. QED
          BY <3>1, <5>1, HoldsFacts
      <4>4. Received' => Received
        BY <4>1, <4>2, <4>3 DEF Received
      <4>5. QED
        BY <3>1, <4>1, <4>4, <1>2
    <3>4. ASSUME NEW s \in Sides, Receiver(s)
          PROVE  SettleInv(o)'
      <4>1. UNCHANGED udpVars /\ (StreamFrames(s) \/ ControlFrames(s) \/ Push(s) \/ RunEnd(s)) /\ s \in {"client", "server"}
        BY <3>4 DEF Receiver, RunTask, Sides
      <4>2. CASE Push(s) \/ RunEnd(s)
        BY <4>1, <4>2, <2>8
      <4>3. CASE s = "client" /\ (StreamFrames(s) \/ ControlFrames(s))
        BY <4>1, <4>3, <2>6
      <4>4. CASE s = "server" /\ StreamFrames(s)
        BY <4>1, <4>4, <2>7
      <4>5. CASE s = "server" /\ ControlFrames(s)
        <5>1. CASE ReceiveSettings(s)
          BY <4>1, <5>1, <2>5
        <5>2. CASE ReceiveHeart(s)
          BY <4>1, <4>5, <5>2, <2>7
        <5>3. CASE ReceiveServerSettings(s) \/ ReceiveUpdate(s) \/ ReceiveAlert(s)
          <6>1. net[s] # <<>> /\ Head(net[s]).cmd \in {"SERVERSETTINGS", "UPDATEPADDING", "ALERT"}
            BY <5>3 DEF ReceiveServerSettings, ReceiveUpdate, ReceiveAlert, Arrived
          <6>2. Head(net[s]).cmd \notin {"SERVERSETTINGS", "UPDATEPADDING", "ALERT"}
            BY <3>1, <4>5, <6>1, HeadFacts
          <6>3. QED
            BY <6>1, <6>2
        <5>4. QED
          BY <4>5, <5>1, <5>2, <5>3 DEF ControlFrames
      <4>6. QED
        BY <4>1, <4>2, <4>3, <4>4, <4>5
    <3>5. QED
      BY <3>2, <3>3, <3>4 DEF Around
  <2>10. QED
    BY <2>9

<1>6. ASSUME NEW o, IInv(o), RelayTypes(o), SettleInv(o), [Next]_vars
      PROVE  SettleInv(o)'
  <2> USE <1>6
  <2>1. "client" \in Sides /\ "server" \in Sides /\ "client" # "server"
    BY SMT DEF Sides
  <2>2. CASE Around
    BY <2>2, <1>5
  <2>3. ~Around => (partial'["client"] # <<>> \/ appGot' # <<>> => Received)
    <3>1. CASE QuietClient \/ QuietServer
      BY <3>1, QuietSteps DEF Quiet, Received
    <3>2. CASE CliUp \/ SrvTick \/ SrvTickApproved \/ SrvDown \/ CliRead \/ SrvRead
      BY <3>2, <1>4
    <3>3. QED
      BY <3>1, <3>2, NextCases
  <2>4. CASE QuietClient \/ CliUp \/ CliRead
    <3>1. CliTask \/ CliUp \/ CliEnd \/ CliBreak
      BY <2>4 DEF QuietClient, CliTask
    <3>2. QED
      BY <2>1, <2>2, <2>3, <3>1, CliSteps, <1>3
  <2>5. CASE QuietServer \/ SrvTick \/ SrvTickApproved \/ SrvDown \/ SrvRead
    <3>1. SrvTask \/ SrvTickApproved \/ SrvDown \/ SrvError
      BY <2>5 DEF QuietServer, SrvTask
    <3>2. hand # "new"
      BY <2>5 DEF QuietServer, HandCheck, HandClose, HandFin, SrvWait, SrvOpen, SrvBind, SrvTick, SrvRead, SrvTickApproved,
       SrvDown, SrvError
    <3>3. QED
      BY <2>1, <2>2, <2>3, <3>1, <3>2, SrvSteps, <1>3
  <2>6. QED
    BY <2>2, <2>4, <2>5, NextCases
<1>7. QED
  BY <1>6

(* At the start, no payload has come, and no settings either. *)
LEMMA InitSettles == Init => SettleInv(opening) /\ RelayTypes(opening)
<1> SUFFICES ASSUME Init
             PROVE  SettleInv(opening) /\ RelayTypes(opening)
  BY SMT
<1>1. /\ opening \in Openings /\ MaxFaults \in Nat /\ "client" \in Sides /\ "server" \in Sides /\ "client" # "server"
  BY UdpAssumption DEF Init, Sides
<1>2. /\ net["client"] = <<>> /\ holding["client"] = <<>> /\ partial["client"] = <<>> /\ appGot = <<>>
      /\ pipe["client"] = NewPipe /\ hand = "new"
  BY <1>1 DEF Init, StreamsInit
<1>3. /\ st["client"] = State(opening.padding, 0, FALSE) /\ st["server"] = State(ServerPadding, 0, FALSE)
  BY <1>1 DEF Init, StreamsInit
<1>4. /\ st["client"].peer = 0 /\ st["server"].peer = 0 /\ ~st["server"].settings
  BY SMT, <1>3 DEF State
<1>5. ~Holds(NewPipe) /\ Len(<<>>) = 0
  BY SMT DEF Holds, NewPipe
<1>6. \A i \in 1 .. Len(net["client"]) : FALSE
  BY SMT, <1>2
<1>7. SettleInv(opening)
  BY <1>2, <1>4, <1>5, <1>6 DEF SettleInv, Received
<1>8. RelayTypes(opening)
  <2>1. 0 \in 0 .. MaxFaults /\ Len(<<>>) <= 1 /\ <<>> \in Seq(Parts(opening)) /\ <<>> \in Seq(0 .. opening.packets)
    BY SMT, <1>1
  <2>2. /\ hand = "new" /\ assoc = "dest" /\ torn = [s \in Sides |-> FALSE] /\ partial = [s \in Sides |-> <<>>]
        /\ faults = 0 /\ appGot = <<>> /\ destGot = <<>>
    BY DEF Init, StreamsInit
  <2>3. QED
    BY <2>1, <2>2 DEF RelayTypes
<1>9. QED
  BY <1>7, <1>8

(* The invariants together, for the way this client opens. *)
RelayInv == \E o \in Openings : IInv(o) /\ RelayTypes(o) /\ SettleInv(o)

(* They hold at all times. *)
LEMMA RelayAlways == Spec => []RelayInv
<1>1. Init => RelayInv
  BY InitHolds, InitSettles DEF RelayInv, Init
<1>2. RelayInv /\ [Next]_vars => RelayInv'
  BY NextPreserves, NextTypes, NextSettles DEF RelayInv
<1>3. QED
  BY <1>1, <1>2, PTL DEF Spec

(* By the time a datagram comes back, both sides are settled: the answer   *)
(* to the settings is ahead of every payload (on_frame, SendFrameSync).    *)
THEOREM SettledTheorem == Spec => []SettledByFirstDatagram
<1>1. RelayInv => SettledByFirstDatagram
  <2> SUFFICES ASSUME RelayInv, appGot # <<>>
               PROVE  SettledByFirstDatagram
    BY DEF SettledByFirstDatagram
  <2>1. PICK o \in Openings : IInv(o) /\ SettleInv(o)
    BY DEF RelayInv
  <2>2. Settled /\ opening = o /\ st["server"].padding = ServerPadding /\ st["server"] \in States(o)
    BY <2>1 DEF SettleInv, Received, IInv, LinkTypes, Sides
  <2>3. st["server"].peer \in {0, o.v}
    BY SMTT(30), <2>2 DEF States
  <2>4. QED
    BY <2>2, <2>3 DEF Settled, SettledByFirstDatagram
<1>2. QED
  BY <1>1, RelayAlways, PTL

(* Every variable keeps its type. *)
THEOREM UdpTypes == Spec => []TypeOK
<1>1. RelayInv => TypeOK
  <2> SUFFICES ASSUME RelayInv
               PROVE  TypeOK
    BY SMT
  <2>1. PICK o \in Openings : IInv(o) /\ RelayTypes(o)
    BY DEF RelayInv
  <2>2. opening = o /\ Counts(o) /\ LinkTypes(o) /\ StreamInv(Parts(o)) /\ fut \in [Sides -> {0, 1}] /\ PartsOf = Parts(o)
    BY <2>1 DEF IInv, PartsOf, Parts
  <2>3. \A s \in Sides : closed[s] \in BOOLEAN /\ fut[s] \in {0, 1} /\ pipe[s].buffer \in Seq(PartsOf)
    <3> SUFFICES ASSUME NEW s \in Sides
                 PROVE  closed[s] \in BOOLEAN /\ fut[s] \in {0, 1} /\ pipe[s].buffer \in Seq(PartsOf)
      BY SMT
    <3>1. pipe[s] \in Pipe(Parts(o)) /\ closed[s] \in BOOLEAN
      BY <2>2 DEF StreamInv
    <3>2. pipe[s].buffer \in Seq(Parts(o))
      BY SMT, <3>1 DEF Pipe
    <3>3. QED
      BY <2>2, <3>1, <3>2
  <2>4. QED
    BY <2>1, <2>2, <2>3 DEF TypeOK, RelayTypes, LinkTypes, Counts
<1>2. QED
  BY <1>1, RelayAlways, PTL
=============================================================================
