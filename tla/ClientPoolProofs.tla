-------------------------- MODULE ClientPoolProofs --------------------------
(***************************************************************************)
(* Proofs about ClientPool, for every number of calls, sessions, streams   *)
(* per session, attempts and every clock bound.                            *)
(***************************************************************************)
EXTENDS ClientPool, FiniteSetTheorems, SequenceTheorems, WellFoundedInduction, TLAPS

-----------------------------------------------------------------------------
(* What the helpers on sequences do.                                       *)

(* swap_remove_index on a non-empty map yields a map one entry shorter. *)
LEMMA SwapRemoveType ==
  ASSUME NEW S, NEW q \in Seq(S), NEW i \in DOMAIN q
  PROVE  /\ SwapRemove(q, i) \in Seq(S)
         /\ Len(SwapRemove(q, i)) = Len(q) - 1
         /\ DOMAIN SwapRemove(q, i) = 1 .. Len(q) - 1
         /\ \A j \in 1 .. Len(q) - 1 : SwapRemove(q, i)[j] = IF j = i THEN q[Len(q)] ELSE q[j]
<1>1. Len(q) \in Nat /\ Len(q) >= 1 /\ \A j \in 1 .. Len(q) : q[j] \in S
  BY LenProperties, ElementOfSeq
<1>2. SwapRemove(q, i) \in [1 .. Len(q) - 1 -> S]
  BY <1>1 DEF SwapRemove
<1>3. QED
  BY SMTT(30), <1>1, <1>2, SeqDef DEF SwapRemove

(* swap_remove_index loses the entry it is given and no other. *)
LEMMA SwapRemoveKeeps ==
  ASSUME NEW S, NEW q \in Seq(S), NEW i \in DOMAIN q, NEW k \in DOMAIN q, k # i
  PROVE  \E j \in DOMAIN SwapRemove(q, i) : SwapRemove(q, i)[j] = q[k]
<1>1. Len(q) \in Nat /\ DOMAIN q = 1 .. Len(q)
  BY Zenon, LenProperties
<1>2. /\ DOMAIN SwapRemove(q, i) = 1 .. Len(q) - 1
      /\ \A j \in 1 .. Len(q) - 1 : SwapRemove(q, i)[j] = IF j = i THEN q[Len(q)] ELSE q[j]
  BY ZenonT(30), SwapRemoveType
<1>3. CASE k = Len(q)
  <2>1. i \in 1 .. Len(q) - 1
    BY <1>1, <1>3
  <2>2. QED
    BY Zenon, <1>2, <1>3, <2>1
<1>4. CASE k # Len(q)
  <2>1. k \in 1 .. Len(q) - 1
    BY <1>1, <1>4
  <2>2. QED
    BY Zenon, <1>2, <2>1
<1>5. QED
  BY Zenon, <1>3, <1>4

-----------------------------------------------------------------------------
(* Type correctness.  cleanup_stale indexes the pool, so the type invariant *)
(* is inductive only together with what protects those indices: the pool's  *)
(* lock is held from the selection to the last removal, and close drains    *)
(* the pool only after the cleanup task stopped.                            *)

CleanupLock ==
  /\ \A i \in toRemove : i \in DOMAIN pool
  /\ cleanup # "removing" => toRemove = {}
  /\ closer \in {"drain", "killing", "done"} => cleanup = "stopped"
  /\ \A c \in Calls : pc[c] = "capacity" => todo[c] # <<>>

TypeInv == TypeOK /\ CleanupLock

(* The sequence numbers and clock readings the model uses. *)
LEMMA SeqsFacts ==
  /\ 0 \in Seqs /\ 0 \in Times
  /\ \A n \in 0 .. MaxSessions : n < MaxSessions => n \in Seqs /\ n + 1 \in 0 .. MaxSessions
  /\ \A n \in Times : n \in Nat /\ (n < MaxTime => n + 1 \in Times)
  /\ 0 \in 0 .. Attempts
  /\ \A n \in 0 .. Attempts : n # Attempts => n + 1 \in 0 .. Attempts
BY BoundsAssumption DEF Seqs, Times

(* The initial state is well typed. *)
LEMMA InitTypeInv == Init => TypeInv
BY SeqsFacts, BoundsAssumption DEF Init, TypeInv, TypeOK, CleanupLock, NothingTaken, CallLabels, WaiterLabels

(* An entry of the pool names a session and a clock reading. *)
LEMMA PoolEntry ==
  ASSUME pool \in Seq(Entry), NEW i \in DOMAIN pool
  PROVE  pool[i] \in Entry /\ pool[i].seq \in Seqs /\ pool[i].since \in Times
<1>1. pool[i] \in Entry
  BY Zenon, LenProperties, ElementOfSeq
<1>2. QED
  BY Zenon, <1>1 DEF Entry

(* Session::terminate keeps the types of what it writes. *)
LEMMA TerminateType ==
  ASSUME TypeOK, NEW s \in Seqs, Terminate(s)
  PROVE  /\ closed' \in [Seqs -> BOOLEAN]
         /\ streams' \in [Seqs -> SUBSET Calls]
         /\ idle' \in [Seqs -> BOOLEAN]
BY ZenonT(30) DEF TypeOK, Terminate

(* What the steps of create_stream write has the right type, each read from *)
(* the few variables it depends on.                                         *)
LEMMA TakePopTypes ==
  ASSUME NEW c \in Calls, TakePop(c), pool # <<>>,
         cand \in [Calls -> Seqs], took \in [Calls -> [since : Times, protected : BOOLEAN]],
         SwapRemove(pool, Len(pool)) \in Seq(Entry),
         pool[Len(pool)].seq \in Seqs,
         [since |-> pool[Len(pool)].since, protected |-> Len(pool) <= MinIdle]
           \in [since : Times, protected : BOOLEAN]
  PROVE  /\ pool' \in Seq(Entry)
         /\ took' \in [Calls -> [since : Times, protected : BOOLEAN]]
         /\ cand' \in [Calls -> Seqs]
BY ZenonT(30) DEF TakePop

(* The has_stream_capacity test of the scan keeps the types of the call. *)
LEMMA ScanCapacityTypes ==
  ASSUME NEW c \in Calls, ScanCapacity(c),
         cand \in [Calls -> Seqs], todo \in [Calls -> Seq(Seqs)],
         Head(todo[c]) \in Seqs, Tail(todo[c]) \in Seq(Seqs)
  PROVE  /\ cand' \in [Calls -> Seqs]
         /\ todo' \in [Calls -> Seq(Seqs)]
         /\ \A d \in Calls \ {c} : todo'[d] = todo[d]
<1>1. <<>> \in Seq(Seqs)
  BY Zenon, EmptySeq
<1>2. QED
  BY Zenon, <1>1 DEF ScanCapacity

(* open_stream's lock section keeps the types of the call and the session. *)
LEMMA OpenTypes ==
  ASSUME NEW c \in Calls, Open(c), cand \in [Calls -> Seqs],
         streams \in [Seqs -> SUBSET Calls], idle \in [Seqs -> BOOLEAN]
  PROVE  streams' \in [Seqs -> SUBSET Calls] /\ idle' \in [Seqs -> BOOLEAN]
<1>1. cand[c] \in Seqs
  BY Zenon
<1>2. streams' \in [Seqs -> SUBSET Calls]
  BY <1>1 DEF Open
<1>3. idle' \in [Seqs -> BOOLEAN]
  BY Zenon, <1>1 DEF Open
<1>4. QED
  BY Zenon, <1>2, <1>3

(* A failed SYN takes the stream back and keeps the types. *)
LEMMA SynTypes ==
  ASSUME NEW c \in Calls, Syn(c), cand \in [Calls -> Seqs],
         att \in [Calls -> 0 .. Attempts], waiter \in [Calls -> WaiterLabels],
         streams \in [Seqs -> SUBSET Calls]
  PROVE  /\ att' \in [Calls -> 0 .. Attempts]
         /\ waiter' \in [Calls -> WaiterLabels]
         /\ streams' \in [Seqs -> SUBSET Calls]
BY SeqsFacts DEF Syn, Remaining, WaiterLabels

(* A successful dial numbers the new session and keeps the types. *)
LEMMA DialOkTypes ==
  ASSUME NEW c \in Calls, DialOk(c), att \in [Calls -> 0 .. Attempts], cand \in [Calls -> Seqs],
         nextSeq \in 0 .. MaxSessions
  PROVE  /\ att' \in [Calls -> 0 .. Attempts]
         /\ cand' \in [Calls -> Seqs]
         /\ nextSeq' \in 0 .. MaxSessions
<1>1. nextSeq \in Seqs /\ nextSeq + 1 \in 0 .. MaxSessions
  BY Zenon, SeqsFacts DEF DialOk
<1>2. att' \in [Calls -> 0 .. Attempts]
  BY Zenon, SeqsFacts DEF DialOk, ReturnErr
<1>3. cand' \in [Calls -> Seqs]
  BY Zenon, <1>1, SeqsFacts DEF DialOk, ReturnErr
<1>4. nextSeq' \in 0 .. MaxSessions
  BY Zenon, <1>1 DEF DialOk
<1>5. QED
  BY Zenon, <1>2, <1>3, <1>4

(* Every step of create_stream but the snapshot, the pop and the scan moves *)
(* the call to a label other than the capacity test, and moves no other.    *)
LEMMA CallMoves ==
  ASSUME NEW c \in Calls, pc \in [Calls -> CallLabels],
         \/ Attempt(c) \/ TakeCheck(c) \/ ScanCapacity(c) \/ DialFail(c) \/ DialOk(c) \/ Open(c) \/ Syn(c)
         \/ Scan(c) /\ todo[c] = <<>>
  PROVE  /\ pc' \in [Calls -> CallLabels]
         /\ pc'[c] # "capacity"
         /\ \A d \in Calls \ {c} : pc'[d] = pc[d]
<1>1. PICK l \in CallLabels \ {"capacity"} : pc' = [pc EXCEPT ![c] = l]
  <2> USE DEF Goto, ReturnErr, CallLabels
  <2>1. CASE Attempt(c)
    BY Zenon, <2>1 DEF Attempt
  <2>2. CASE TakeCheck(c)
    BY Zenon, <2>2 DEF TakeCheck
  <2>3. CASE ScanCapacity(c)
    BY Zenon, <2>3 DEF ScanCapacity
  <2>4. CASE DialFail(c)
    BY Zenon, <2>4 DEF DialFail
  <2>5. CASE DialOk(c)
    BY Zenon, <2>5 DEF DialOk
  <2>6. CASE Open(c)
    BY Zenon, <2>6 DEF Open
  <2>7. CASE Syn(c)
    BY Zenon, <2>7 DEF Syn
  <2>8. CASE Scan(c) /\ todo[c] = <<>>
    BY Zenon, <2>8 DEF Scan
  <2>9. QED
    BY Zenon, <2>1, <2>2, <2>3, <2>4, <2>5, <2>6, <2>7, <2>8
<1>2. QED
  BY Zenon, <1>1

(* A call that gives up, or tries again, keeps the types of its own state. *)
LEMMA GiveUpTypes ==
  ASSUME NEW c \in Calls, att \in [Calls -> 0 .. Attempts], cand \in [Calls -> Seqs],
         Attempt(c) \/ DialFail(c) \/ (Scan(c) /\ todo[c] = <<>>)
  PROVE  att' \in [Calls -> 0 .. Attempts] /\ cand' \in [Calls -> Seqs]
<1> USE SeqsFacts DEF ReturnErr
<1>1. CASE Attempt(c)
  <2>1. CASE Exhausted(c) \/ ClosedFlag
    BY Zenon, <1>1, <2>1 DEF Attempt
  <2>2. CASE ~(Exhausted(c) \/ ClosedFlag)
    <3>1. att[c] + 1 \in 0 .. Attempts
      BY Zenon, <2>2 DEF Exhausted
    <3>2. QED
      BY Zenon, <1>1, <2>2, <3>1 DEF Attempt
  <2>3. QED
    BY Zenon, <2>1, <2>2
<1>2. CASE DialFail(c)
  BY Zenon, <1>2 DEF DialFail
<1>3. CASE Scan(c) /\ todo[c] = <<>>
  BY Zenon, <1>3 DEF Scan
<1>4. QED
  BY Zenon, <1>1, <1>2, <1>3

(* A step of create_stream keeps the types. *)
LEMMA CallStepTypeInv ==
  ASSUME NEW c \in Calls, TypeInv, CallStep(c)
  PROVE  TypeInv'
<1> USE SeqsFacts DEF TypeInv, TypeOK, CleanupLock, Goto, ReturnErr, NothingTaken, CallLabels,
        WaiterLabels, callVars, sessVars, poolVars, cleanVars, closeVars
<1>1. CASE Attempt(c)
  <2>1. /\ pc' \in [Calls -> CallLabels]
        /\ pc'[c] # "capacity"
        /\ \A d \in Calls \ {c} : pc'[d] = pc[d]
    BY Zenon, <1>1, CallMoves
  <2>2. att' \in [Calls -> 0 .. Attempts] /\ cand' \in [Calls -> Seqs]
    BY Zenon, <1>1, GiveUpTypes
  <2>3. UNCHANGED <<took, todo, waiter, fin, pend, sessVars, poolVars, now, cleanVars, closeVars>>
    BY Zenon, <1>1 DEF Attempt
  <2>4. QED
    BY ZenonT(30), <2>1, <2>2, <2>3
<1>2. CASE TakePop(c)
  <2>1. CASE pool = <<>>
    BY ZenonT(30), <1>2, <2>1 DEF TakePop
  <2>2. CASE pool # <<>>
    <3>1. Len(pool) \in DOMAIN pool /\ pool[Len(pool)] \in Entry
      BY <2>2, EmptySeq, LenProperties, ElementOfSeq
    <3>2. SwapRemove(pool, Len(pool)) \in Seq(Entry)
      BY Zenon, <3>1, SwapRemoveType
    <3>3. (Len(pool) <= MinIdle) \in BOOLEAN
      OBVIOUS
    <3>4. pool[Len(pool)].seq \in Seqs /\ pool[Len(pool)].since \in Times
      BY Zenon, <3>1 DEF Entry
    <3>5. TypeOK'
      <4>1. [since |-> pool[Len(pool)].since, protected |-> Len(pool) <= MinIdle]
              \in [since : Times, protected : BOOLEAN]
        BY Zenon, <3>3, <3>4
      <4>2. /\ pool' \in Seq(Entry)
            /\ took' \in [Calls -> [since : Times, protected : BOOLEAN]]
            /\ cand' \in [Calls -> Seqs]
        BY Zenon, <1>2, <2>2, <3>2, <3>4, <4>1, TakePopTypes
      <4>3. pc' \in [Calls -> CallLabels]
        BY ZenonT(30), <1>2, <2>2 DEF TakePop
      <4>4. UNCHANGED <<att, todo, waiter, fin, pend, sessVars, active, nextSeq, now, cleanVars, closeVars>>
        BY Zenon, <1>2 DEF TakePop
      <4>5. QED
        BY Zenon, <4>2, <4>3, <4>4
    <3>6. CleanupLock'
      BY ZenonT(30), <1>2, <2>2 DEF TakePop
    <3>7. QED
      BY Zenon, <3>5, <3>6
  <2>3. QED
    BY Zenon, <2>1, <2>2
<1>3. CASE TakeCheck(c)
  <2>1. /\ pc' \in [Calls -> CallLabels]
        /\ pc'[c] # "capacity"
        /\ \A d \in Calls \ {c} : pc'[d] = pc[d]
    BY Zenon, <1>3, CallMoves
  <2>2. /\ closed' \in [Seqs -> BOOLEAN]
        /\ streams' \in [Seqs -> SUBSET Calls]
        /\ idle' \in [Seqs -> BOOLEAN]
    BY Zenon, <1>3, TerminateType DEF TakeCheck
  <2>3. QED
    BY ZenonT(30), <1>3, <2>1, <2>2 DEF TakeCheck
<1>4. CASE Snapshot(c)
  BY Zenon, <1>4 DEF Snapshot
<1>5. CASE Scan(c)
  <2>1. CASE todo[c] = <<>>
    <3>1. /\ pc' \in [Calls -> CallLabels]
          /\ pc'[c] # "capacity"
          /\ \A d \in Calls \ {c} : pc'[d] = pc[d]
      BY Zenon, <1>5, <2>1, CallMoves
    <3>2. att' \in [Calls -> 0 .. Attempts] /\ cand' \in [Calls -> Seqs]
      BY Zenon, <1>5, <2>1, GiveUpTypes
    <3>3. UNCHANGED <<took, todo, waiter, fin, pend, sessVars, poolVars, now, cleanVars, closeVars>>
      BY Zenon, <1>5, <2>1 DEF Scan
    <3>4. QED
      BY Zenon, <3>1, <3>2, <3>3
  <2>2. CASE todo[c] # <<>>
    <3>1. Tail(todo[c]) \in Seq(Seqs)
      BY ZenonT(30), <2>2, HeadTailProperties
    <3>2. QED
      BY ZenonT(30), <1>5, <2>2, <3>1 DEF Scan
  <2>3. QED
    BY Zenon, <2>1, <2>2
<1>6. CASE ScanCapacity(c)
  <2>1. todo[c] # <<>>
    BY Zenon, <1>6 DEF ScanCapacity
  <2>2. Head(todo[c]) \in Seqs /\ Tail(todo[c]) \in Seq(Seqs)
    BY Zenon, <2>1, HeadTailProperties
  <2>3. /\ pc' \in [Calls -> CallLabels]
        /\ pc'[c] # "capacity"
        /\ \A d \in Calls \ {c} : pc'[d] = pc[d]
    BY Zenon, <1>6, CallMoves
  <2>4. /\ cand' \in [Calls -> Seqs]
        /\ todo' \in [Calls -> Seq(Seqs)]
        /\ \A d \in Calls \ {c} : todo'[d] = todo[d]
    BY Zenon, <1>6, <2>2, ScanCapacityTypes
  <2>5. QED
    BY ZenonT(30), <1>6, <2>3, <2>4 DEF ScanCapacity
<1>7. CASE DialFail(c)
  <2>1. /\ pc' \in [Calls -> CallLabels]
        /\ pc'[c] # "capacity"
        /\ \A d \in Calls \ {c} : pc'[d] = pc[d]
    BY Zenon, <1>7, CallMoves
  <2>2. att' \in [Calls -> 0 .. Attempts] /\ cand' \in [Calls -> Seqs]
    BY Zenon, <1>7, GiveUpTypes
  <2>3. UNCHANGED <<took, todo, waiter, fin, pend, sessVars, poolVars, now, cleanVars, closeVars>>
    BY Zenon, <1>7 DEF DialFail
  <2>4. QED
    BY Zenon, <2>1, <2>2, <2>3
<1>8. CASE DialOk(c)
  <2>1. /\ pc' \in [Calls -> CallLabels]
        /\ pc'[c] # "capacity"
        /\ \A d \in Calls \ {c} : pc'[d] = pc[d]
    BY Zenon, <1>8, CallMoves
  <2>2. /\ att' \in [Calls -> 0 .. Attempts]
        /\ cand' \in [Calls -> Seqs]
        /\ nextSeq' \in 0 .. MaxSessions
    BY Zenon, <1>8, DialOkTypes
  <2>3. UNCHANGED <<took, todo, waiter, fin, pend, sessVars, pool, active, now, cleanVars, closeVars>>
    BY Zenon, <1>8 DEF DialOk
  <2>4. QED
    BY Zenon, <2>1, <2>2, <2>3
<1>9. CASE Insert(c)
  BY SMTT(30), <1>9 DEF Insert
<1>10. CASE Open(c)
  <2>1. /\ pc' \in [Calls -> CallLabels]
        /\ pc'[c] # "capacity"
        /\ \A d \in Calls \ {c} : pc'[d] = pc[d]
    BY Zenon, <1>10, CallMoves
  <2>2. /\ streams' \in [Seqs -> SUBSET Calls]
        /\ idle' \in [Seqs -> BOOLEAN]
    BY Zenon, <1>10, OpenTypes
  <2>3. UNCHANGED <<att, cand, took, todo, waiter, fin, pend, closed, writerUp, run, poolVars, now,
                    cleanVars, closeVars>>
    BY Zenon, <1>10 DEF Open
  <2>4. QED
    BY Zenon, <2>1, <2>2, <2>3
<1>11. CASE Syn(c)
  <2>1. /\ pc' \in [Calls -> CallLabels]
        /\ pc'[c] # "capacity"
        /\ \A d \in Calls \ {c} : pc'[d] = pc[d]
    BY Zenon, <1>11, CallMoves
  <2>2. /\ att' \in [Calls -> 0 .. Attempts]
        /\ waiter' \in [Calls -> WaiterLabels]
        /\ streams' \in [Seqs -> SUBSET Calls]
    BY Zenon, <1>11, SynTypes
  <2>3. UNCHANGED <<cand, took, todo, fin, pend, closed, writerUp, idle, run, poolVars, now, cleanVars,
                    closeVars>>
    BY Zenon, <1>11 DEF Syn
  <2>4. QED
    BY Zenon, <2>1, <2>2, <2>3
<1>12. CASE SynPublish(c)
  BY Zenon, <1>12 DEF SynPublish
<1>13. CASE Fail(c)
  BY ZenonT(30), <1>13 DEF Fail, Terminate
<1>14. QED
  BY Zenon, <1>1, <1>2, <1>3, <1>4, <1>5, <1>6, <1>7, <1>8, <1>9, <1>10, <1>11, <1>12, <1>13 DEF CallStep

(* A step of an idle-return task keeps the types. *)
LEMMA WaiterStepTypeInv ==
  ASSUME NEW c \in Calls, TypeInv, WaiterStep(c)
  PROVE  TypeInv'
<1> USE DEF TypeInv, TypeOK, CleanupLock, WaiterLabels, callVars, sessVars, poolVars, cleanVars,
        closeVars
<1>1. CASE WaiterStart(c)
  BY Zenon, <1>1 DEF WaiterStart
<1>2. CASE WaiterLook(c)
  BY Zenon, <1>2 DEF WaiterLook
<1>3. CASE WaiterWake(c)
  BY Zenon, <1>3 DEF WaiterWake
<1>4. CASE WaiterRecheck(c)
  BY Zenon, <1>4 DEF WaiterRecheck
<1>5. CASE WaiterRelook(c)
  BY Zenon, <1>5 DEF WaiterRelook
<1>6. CASE WaiterReturn(c)
  <2>1. [seq |-> cand[c], since |-> now] \in Entry
    BY Zenon DEF Entry
  <2>2. Append(pool, [seq |-> cand[c], since |-> now]) \in Seq(Entry)
    BY Zenon, <2>1, AppendProperties
  <2>3. pool' \in Seq(Entry)
    BY Zenon, <1>6, <2>2 DEF WaiterReturn
  <2>4. toRemove' = {}
    BY Zenon, <1>6 DEF WaiterReturn
  <2>5. QED
    BY Zenon, <1>6, <2>3, <2>4 DEF WaiterReturn
<1>7. QED
  BY Zenon, <1>1, <1>2, <1>3, <1>4, <1>5, <1>6 DEF WaiterStep

(* The end of a logical stream keeps the types. *)
LEMMA StreamEndTypeInv ==
  ASSUME NEW c \in Calls, TypeInv,
         LocalClose(c) \/ PeerFin(c) \/ \E by \in {"local", "peer"} : Publish(by, c)
  PROVE  TypeInv'
<1> USE DEF TypeInv, TypeOK, CleanupLock, callVars, sessVars, poolVars, cleanVars, closeVars
<1>1. ASSUME NEW by \in {"local", "peer"}, RemoveStream(c, by)
      PROVE  /\ streams' \in [Seqs -> SUBSET Calls]
             /\ pend' \in SUBSET ({"local", "peer"} \X Calls)
  BY <1>1 DEF RemoveStream, Remaining
<1>2. CASE LocalClose(c)
  BY Zenon, <1>1, <1>2 DEF LocalClose
<1>3. CASE PeerFin(c)
  BY Zenon, <1>1, <1>3 DEF PeerFin
<1>4. ASSUME NEW by \in {"local", "peer"}, Publish(by, c)
      PROVE  TypeInv'
  BY Zenon, <1>4 DEF Publish
<1>5. QED
  BY Zenon, <1>2, <1>3, <1>4

(* The run task and the writer keep the types. *)
LEMMA RunStepTypeInv ==
  ASSUME NEW s \in Seqs, TypeInv, RunEnd(s) \/ RunRemove(s) \/ WriterFail(s)
  PROVE  TypeInv'
<1> USE DEF TypeInv, TypeOK, CleanupLock, callVars, sessVars, poolVars, cleanVars, closeVars
<1>1. CASE RunEnd(s)
  BY Zenon, <1>1, TerminateType DEF RunEnd
<1>2. CASE RunRemove(s)
  <2>1. active' \in Seq(Seqs)
    BY Zenon, <1>2, SwapRemoveType DEF RunRemove
  <2>2. QED
    BY Zenon, <1>2, <2>1 DEF RunRemove
<1>3. CASE WriterFail(s)
  BY Zenon, <1>3 DEF WriterFail
<1>4. QED
  BY Zenon, <1>1, <1>2, <1>3

(* The cleanup task keeps the types; the indices it has left are below the *)
(* one it removes, so they still exist in the shorter map.                 *)
LEMMA CleanupStepTypeInv ==
  ASSUME TypeInv, CleanupStep
  PROVE  TypeInv'
<1> USE DEF TypeInv, TypeOK, CleanupLock, callVars, sessVars, poolVars, cleanVars, closeVars
<1>1. CASE CleanupScan
  <2>1. toRemove' \subseteq DOMAIN pool
    BY Zenon, <1>1 DEF CleanupScan, FirstN, TimedOut
  <2>2. DOMAIN pool \subseteq Nat
    BY LenProperties
  <2>3. QED
    BY Zenon, <1>1, <2>1, <2>2 DEF CleanupScan
<1>2. CASE CleanupRemove
  <2>1. PICK i \in toRemove :
          /\ \A j \in toRemove : j <= i
          /\ pool' = SwapRemove(pool, i)
          /\ kill' = Append(kill, pool[i].seq)
          /\ toRemove' = toRemove \ {i}
          /\ cleanup' = IF toRemove = {i} THEN "killing" ELSE "removing"
    BY Zenon, <1>2 DEF CleanupRemove, NextIndex
  <2>2. i \in DOMAIN pool /\ pool[i].seq \in Seqs
    BY Zenon, PoolEntry
  <2>3. pool' \in Seq(Entry) /\ DOMAIN pool' = 1 .. Len(pool) - 1
    BY Zenon, <2>1, <2>2, SwapRemoveType
  <2>4. kill' \in Seq(Seqs)
    BY Zenon, <2>1, <2>2, AppendProperties
  <2>5. \A j \in toRemove' : j \in DOMAIN pool'
    BY SMTT(30), <2>1, <2>2, <2>3, LenProperties
  <2>6. /\ toRemove' \in SUBSET Nat
        /\ cleanup' \in {"killing", "removing"}
        /\ cleanup' # "removing" => toRemove' = {}
    BY Zenon, <2>1
  <2>7. closer \notin {"drain", "killing", "done"}
    BY Zenon, <1>2 DEF CleanupRemove
  <2>8. UNCHANGED <<callVars, waiter, fin, pend, sessVars, active, nextSeq, now, closeVars>>
    BY Zenon, <1>2 DEF CleanupRemove
  <2>9. QED
    BY Zenon, <2>3, <2>4, <2>5, <2>6, <2>7, <2>8
<1>3. CASE CleanupKill
  <2>1. Head(kill) \in Seqs /\ Tail(kill) \in Seq(Seqs)
    BY Zenon, <1>3, HeadTailProperties DEF CleanupKill
  <2>2. /\ closed' \in [Seqs -> BOOLEAN]
        /\ streams' \in [Seqs -> SUBSET Calls]
        /\ idle' \in [Seqs -> BOOLEAN]
    BY Zenon, <1>3, <2>1, TerminateType DEF CleanupKill
  <2>3. QED
    BY Zenon, <1>3, <2>1, <2>2 DEF CleanupKill
<1>4. CASE CleanupStop
  BY Zenon, <1>4 DEF CleanupStop, ClosedFlag
<1>5. QED
  BY Zenon, <1>1, <1>2, <1>3, <1>4 DEF CleanupStep

(* Client::close keeps the types. *)
LEMMA CloseStepTypeInv ==
  ASSUME TypeInv, CloseStart \/ CloseStep
  PROVE  TypeInv'
<1> USE DEF TypeInv, TypeOK, CleanupLock, callVars, sessVars, poolVars, cleanVars, closeVars
<1>1. CASE CloseStart
  BY Zenon, <1>1 DEF CloseStart
<1>2. CASE CloseTakeActive
  <2>1. racers' \in SUBSET Seqs
    BY <1>2 DEF CloseTakeActive
  <2>2. active' \in Seq(Seqs)
    BY Zenon, <1>2, EmptySeq DEF CloseTakeActive
  <2>3. QED
    BY Zenon, <1>2, <2>1, <2>2 DEF CloseTakeActive
<1>3. CASE CloseDrain
  <2>1. /\ Len(pool) \in Nat /\ DOMAIN pool = 1 .. Len(pool)
        /\ \A i \in DOMAIN pool : pool[i].seq \in Seqs
    BY Zenon, LenProperties, PoolEntry
  <2>2. [i \in DOMAIN pool |-> pool[i].seq] \in Seq(Seqs)
    BY <2>1, SeqDef
  <2>3. closing' \in Seq(Seqs)
    BY Zenon, <1>3, <2>2, ConcatProperties DEF CloseDrain
  <2>4. pool' \in Seq(Entry)
    BY Zenon, <1>3, EmptySeq DEF CloseDrain
  <2>5. toRemove' = {}
    BY Zenon, <1>3 DEF CloseDrain
  <2>6. QED
    BY Zenon, <1>3, <2>3, <2>4, <2>5 DEF CloseDrain
<1>4. CASE CloseKill
  <2>1. CASE closing = <<>>
    BY Zenon, <1>4, <2>1 DEF CloseKill
  <2>2. CASE closing # <<>>
    <3>1. Head(closing) \in Seqs /\ Tail(closing) \in Seq(Seqs)
      BY Zenon, <2>2, HeadTailProperties
    <3>2. /\ closed' \in [Seqs -> BOOLEAN]
          /\ streams' \in [Seqs -> SUBSET Calls]
          /\ idle' \in [Seqs -> BOOLEAN]
      BY Zenon, <1>4, <2>2, <3>1, TerminateType DEF CloseKill
    <3>3. QED
      BY Zenon, <1>4, <2>2, <3>1, <3>2 DEF CloseKill
  <2>3. QED
    BY Zenon, <2>1, <2>2
<1>5. QED
  BY Zenon, <1>1, <1>2, <1>3, <1>4 DEF CloseStep

(* Every step keeps the types. *)
LEMMA NextTypeInv ==
  ASSUME TypeInv, [Next]_vars
  PROVE  TypeInv'
<1>1. CASE Tick
  BY Zenon, <1>1, SeqsFacts DEF Tick, TypeInv, TypeOK, CleanupLock, callVars, sessVars, poolVars, cleanVars,
     closeVars
<1>2. CASE UNCHANGED vars
  BY Zenon, <1>2 DEF TypeInv, TypeOK, CleanupLock, vars, callVars, sessVars, poolVars, cleanVars, closeVars
<1>3. CASE Stopped
  BY Zenon, <1>2, <1>3 DEF Stopped
<1>4. QED
  BY Zenon, <1>1, <1>2, <1>3, CallStepTypeInv, WaiterStepTypeInv, StreamEndTypeInv, RunStepTypeInv,
     CleanupStepTypeInv, CloseStepTypeInv DEF Next

(* Every reachable state is well typed, and the indices cleanup_stale still *)
(* has to remove exist in the pool.                                         *)
THEOREM TypeCorrect == Spec => [](TypeOK /\ CleanupLock)
<1>1. Init => TypeInv
  BY Zenon, InitTypeInv
<1>2. TypeInv /\ [Next]_vars => TypeInv'
  BY Zenon, NextTypeInv
<1>3. TypeInv => TypeOK /\ CleanupLock
  BY Zenon DEF TypeInv
<1>4. QED
  BY <1>1, <1>2, <1>3, PTL DEF Spec

-----------------------------------------------------------------------------
(* Streams of a session.                                                   *)

(* Session::terminate only ever takes streams away. *)
LEMMA TerminateShrinks ==
  ASSUME TypeOK, NEW s \in Seqs, Terminate(s)
  PROVE  \A r \in Seqs : streams'[r] \subseteq streams[r]
BY ZenonT(30) DEF TypeOK, Terminate

(* Only open_stream adds a stream to a session. *)
LEMMA OnlyOpenAdds ==
  ASSUME TypeInv, [Next]_vars, ~(\E c \in Calls : Open(c))
  PROVE  \A s \in Seqs : streams'[s] \subseteq streams[s]
<1> USE DEF sessVars
<1> DEFINE Shrinks == \A s \in Seqs : streams'[s] \subseteq streams[s]
<1>0. TypeOK
  BY Zenon DEF TypeInv
<1>1. ASSUME NEW c \in Calls, CallStep(c)
      PROVE  Shrinks
  <2>1. CASE TakeCheck(c)
    <3>1. cand[c] \in Seqs
      BY Zenon, <1>0 DEF TypeOK
    <3>2. QED
      BY Zenon, <1>0, <2>1, <3>1, TerminateShrinks DEF TakeCheck
  <2>2. CASE Fail(c)
    <3>1. cand[c] \in Seqs
      BY Zenon, <1>0 DEF TypeOK
    <3>2. QED
      BY Zenon, <1>0, <2>2, <3>1, TerminateShrinks DEF Fail
  <2>3. CASE Syn(c)
    <3>1. streams' = streams \/ streams' = [streams EXCEPT ![cand[c]] = @ \ {c}]
      BY Zenon, <2>3 DEF Syn, Remaining
    <3>2. streams \in [Seqs -> SUBSET Calls]
      BY Zenon, <1>0 DEF TypeOK
    <3>3. QED
      BY Zenon, <3>1, <3>2
  <2>4. CASE UNCHANGED streams
    BY Zenon, <2>4
  <2>5. QED
    BY Zenon, <1>1, <2>1, <2>2, <2>3, <2>4 DEF CallStep, Attempt, TakePop, Snapshot, Scan, ScanCapacity,
       DialFail, DialOk, Insert, SynPublish
<1>2. ASSUME NEW c \in Calls, WaiterStep(c)
      PROVE  Shrinks
  BY Zenon, <1>2 DEF WaiterStep, WaiterStart, WaiterLook, WaiterWake, WaiterRecheck, WaiterRelook, WaiterReturn
<1>3. ASSUME NEW c \in Calls, LocalClose(c) \/ PeerFin(c)
      PROVE  Shrinks
  <2>1. streams' = [streams EXCEPT ![cand[c]] = @ \ {c}]
    BY Zenon, <1>3 DEF LocalClose, PeerFin, RemoveStream, Remaining
  <2>2. streams \in [Seqs -> SUBSET Calls]
    BY Zenon, <1>0 DEF TypeOK
  <2>3. QED
    BY Zenon, <2>1, <2>2
<1>4. ASSUME NEW c \in Calls, NEW by \in {"local", "peer"}, Publish(by, c)
      PROVE  Shrinks
  BY Zenon, <1>4 DEF Publish
<1>5. ASSUME NEW s \in Seqs, RunEnd(s) \/ RunRemove(s) \/ WriterFail(s)
      PROVE  Shrinks
  BY Zenon, <1>0, <1>5, TerminateShrinks DEF RunEnd, RunRemove, WriterFail
<1>6. CASE CleanupStep
  <2>1. CASE CleanupKill
    <3>1. Head(kill) \in Seqs
      BY Zenon, <1>0, <2>1, HeadTailProperties DEF TypeOK, CleanupKill
    <3>2. QED
      BY Zenon, <1>0, <2>1, <3>1, TerminateShrinks DEF CleanupKill
  <2>2. QED
    BY Zenon, <1>6, <2>1 DEF CleanupStep, CleanupScan, CleanupRemove, CleanupStop
<1>7. CASE CloseStart \/ CloseStep
  <2>1. CASE CloseKill
    <3>1. closing # <<>> => Head(closing) \in Seqs
      BY Zenon, <1>0, HeadTailProperties DEF TypeOK
    <3>2. QED
      BY Zenon, <1>0, <2>1, <3>1, TerminateShrinks DEF CloseKill
  <2>2. QED
    BY Zenon, <1>7, <2>1 DEF CloseStart, CloseStep, CloseTakeActive, CloseDrain
<1>8. CASE Tick \/ Stopped \/ UNCHANGED vars
  BY Zenon, <1>8 DEF Tick, Stopped, vars
<1>9. QED
  BY Zenon, <1>1, <1>2, <1>3, <1>4, <1>5, <1>6, <1>7, <1>8 DEF Next

(* However many calls choose one session at once, it never holds more than *)
(* max_streams_per_session streams.                                        *)
THEOREM StreamsBoundedHolds == Spec => []StreamsBounded
<1>1. Init => StreamsBounded
  BY FS_EmptySet, BoundsAssumption DEF Init, StreamsBounded
<1>2. ASSUME TypeInv, StreamsBounded, [Next]_vars
      PROVE  StreamsBounded'
  <2>0. \A s \in Seqs : /\ streams[s] \in SUBSET Calls
                        /\ IsFiniteSet(streams[s])
                        /\ Cardinality(streams[s]) \in Nat
    BY <1>2, CallsFinite, FS_Subset, FS_CardinalityType DEF TypeInv, TypeOK
  <2>1. ASSUME NEW c \in Calls, Open(c)
        PROVE  StreamsBounded'
    <3>1. CASE UNCHANGED streams
      BY Zenon, <1>2, <3>1 DEF StreamsBounded
    <3>2. CASE /\ Cardinality(streams[cand[c]]) < MaxStreams
               /\ streams' = [streams EXCEPT ![cand[c]] = @ \cup {c}]
      <4>1. cand[c] \in Seqs /\ streams \in [Seqs -> SUBSET Calls]
        BY Zenon, <1>2 DEF TypeInv, TypeOK
      <4>2. Cardinality(streams[cand[c]] \cup {c}) <= MaxStreams
        <5>1. Cardinality(streams[cand[c]] \cup {c}) =
                IF c \in streams[cand[c]] THEN Cardinality(streams[cand[c]])
                                          ELSE Cardinality(streams[cand[c]]) + 1
          BY Zenon, <2>0, <4>1, FS_AddElement
        <5>2. Cardinality(streams[cand[c]]) \in Nat
          BY Zenon, <2>0, <4>1
        <5>3. QED
          BY <3>2, <5>1, <5>2, BoundsAssumption
      <4>3. QED
        BY Zenon, <1>2, <3>2, <4>1, <4>2 DEF StreamsBounded
    <3>3. QED
      BY Zenon, <2>1, <3>1, <3>2 DEF Open, HasCapacity
  <2>2. CASE ~(\E c \in Calls : Open(c))
    <3>1. \A s \in Seqs : streams'[s] \subseteq streams[s]
      BY Zenon, <1>2, <2>2, OnlyOpenAdds
    <3>2. ASSUME NEW s \in Seqs
          PROVE  Cardinality(streams'[s]) <= MaxStreams
      <4>1. Cardinality(streams'[s]) <= Cardinality(streams[s])
        BY Zenon, <2>0, <3>1, FS_Subset
      <4>2. Cardinality(streams'[s]) \in Nat
        BY Zenon, <2>0, <3>1, FS_Subset, FS_CardinalityType
      <4>3. QED
        BY <1>2, <2>0, <4>1, <4>2, BoundsAssumption DEF StreamsBounded
    <3>3. QED
      BY Zenon, <3>2 DEF StreamsBounded
  <2>3. QED
    BY Zenon, <2>1, <2>2
<1>3. Spec => []TypeInv
  BY Zenon, TypeCorrect DEF TypeInv
<1>4. QED
  BY <1>1, <1>2, <1>3, PTL DEF Spec

(* A call at work on or done with its stream stays there, except for the   *)
(* step that sends SYN.                                                    *)
LEMMA HolderKeepsStream ==
  ASSUME TypeInv, [Next]_vars, ~(\E c \in Calls : Syn(c))
  PROVE  \A d \in Calls : pc[d] \in {"syn", "ok"} => pc'[d] = pc[d] /\ cand'[d] = cand[d]
<1> DEFINE Keeps == \A d \in Calls : pc[d] \in {"syn", "ok"} => pc'[d] = pc[d] /\ cand'[d] = cand[d]
<1>1. ASSUME NEW c \in Calls, CallStep(c)
      PROVE  Keeps
  <2>1. pc[c] \notin {"syn", "ok"}
    BY Zenon, <1>1 DEF CallStep, Attempt, TakePop, TakeCheck, Snapshot, Scan, ScanCapacity, DialFail, DialOk,
       Insert, Open, SynPublish, Fail
  <2>2. /\ \/ UNCHANGED pc
           \/ \E l \in CallLabels : pc' = [pc EXCEPT ![c] = l]
        /\ \/ UNCHANGED cand
           \/ \E s \in Seqs : cand' = [cand EXCEPT ![c] = s]
    <3> USE DEF Goto, ReturnErr, CallLabels
    <3>0. 0 \in Seqs /\ TypeOK
      BY Zenon, SeqsFacts DEF TypeInv
    <3>1. CASE Attempt(c)
      BY Zenon, <3>0, <3>1 DEF Attempt
    <3>2. CASE TakePop(c)
      <4>1. pool # <<>> => pool[Len(pool)].seq \in Seqs
        BY <3>0, PoolEntry, EmptySeq, LenProperties DEF TypeOK
      <4>2. QED
        BY Zenon, <3>2, <4>1 DEF TakePop
    <3>3. CASE TakeCheck(c)
      BY Zenon, <3>3 DEF TakeCheck
    <3>4. CASE Snapshot(c)
      BY Zenon, <3>4 DEF Snapshot
    <3>5. CASE Scan(c)
      BY Zenon, <3>0, <3>5 DEF Scan
    <3>6. CASE ScanCapacity(c)
      <4>1. todo[c] \in Seq(Seqs) /\ todo[c] # <<>>
        BY Zenon, <3>6 DEF TypeInv, TypeOK, CleanupLock, ScanCapacity
      <4>2. Head(todo[c]) \in Seqs
        BY Zenon, <4>1, HeadTailProperties
      <4>3. QED
        BY Zenon, <3>6, <4>2 DEF ScanCapacity
    <3>7. CASE DialFail(c)
      BY Zenon, <3>0, <3>7 DEF DialFail
    <3>8. CASE DialOk(c)
      <4>1. nextSeq \in Seqs
        BY Zenon, <3>0, <3>8, SeqsFacts DEF TypeOK, DialOk
      <4>2. QED
        BY Zenon, <3>0, <3>8, <4>1 DEF DialOk
    <3>9. CASE Insert(c) \/ Open(c) \/ SynPublish(c) \/ Fail(c)
      BY Zenon, <3>9 DEF Insert, Open, SynPublish, Fail
    <3>10. QED
      BY Zenon, <1>1, <3>1, <3>2, <3>3, <3>4, <3>5, <3>6, <3>7, <3>8, <3>9 DEF CallStep
  <2>3. pc \in [Calls -> CallLabels] /\ cand \in [Calls -> Seqs]
    BY Zenon DEF TypeInv, TypeOK
  <2>4. QED
    BY Zenon, <2>1, <2>2, <2>3
<1>2. ASSUME NEW c \in Calls, WaiterStep(c)
      PROVE  Keeps
  BY Zenon, <1>2 DEF WaiterStep, WaiterStart, WaiterLook, WaiterWake, WaiterRecheck, WaiterRelook,
     WaiterReturn, callVars
<1>3. ASSUME NEW c \in Calls, LocalClose(c) \/ PeerFin(c) \/ \E by \in {"local", "peer"} : Publish(by, c)
      PROVE  Keeps
  BY Zenon, <1>3 DEF LocalClose, PeerFin, Publish, callVars
<1>4. ASSUME NEW s \in Seqs, RunEnd(s) \/ RunRemove(s) \/ WriterFail(s)
      PROVE  Keeps
  BY Zenon, <1>4 DEF RunEnd, RunRemove, WriterFail, callVars
<1>5. CASE CleanupStep
  BY Zenon, <1>5 DEF CleanupStep, CleanupScan, CleanupRemove, CleanupKill, CleanupStop, callVars
<1>6. CASE CloseStart \/ CloseStep
  BY Zenon, <1>6 DEF CloseStart, CloseStep, CloseTakeActive, CloseDrain, CloseKill, callVars
<1>7. CASE Tick \/ Stopped \/ UNCHANGED vars
  BY Zenon, <1>7 DEF Tick, Stopped, vars, callVars
<1>8. QED
  BY Zenon, <1>1, <1>2, <1>3, <1>4, <1>5, <1>6, <1>7 DEF Next

(* A create_stream that failed or moved on leaves no stream behind in any  *)
(* session's map.                                                          *)
THEOREM NoOrphanStreamHolds == Spec => []NoOrphanStream
<1>1. Init => NoOrphanStream
  BY Zenon DEF Init, NoOrphanStream
<1>2. ASSUME TypeInv, NoOrphanStream, [Next]_vars
      PROVE  NoOrphanStream'
  <2>0. /\ pc \in [Calls -> CallLabels] /\ cand \in [Calls -> Seqs]
        /\ streams \in [Seqs -> SUBSET Calls]
    BY Zenon, <1>2 DEF TypeInv, TypeOK
  <2>1. ASSUME NEW c \in Calls, Open(c)
        PROVE  NoOrphanStream'
    <3>1. UNCHANGED cand /\ pc[c] = "open"
      BY Zenon, <2>1 DEF Open
    <3>2. CASE UNCHANGED streams
      <4>1. \A d \in Calls : d # c => pc'[d] = pc[d]
        BY Zenon, <2>0, <2>1 DEF Open, Goto
      <4>2. QED
        BY Zenon, <1>2, <2>0, <3>1, <3>2, <4>1 DEF NoOrphanStream
    <3>3. CASE Goto(c, "syn") /\ streams' = [streams EXCEPT ![cand[c]] = @ \cup {c}]
      BY <1>2, <2>0, <3>1, <3>3 DEF NoOrphanStream, Goto
    <3>4. QED
      BY Zenon, <2>1, <3>2, <3>3 DEF Open
  <2>2. ASSUME NEW c \in Calls, Syn(c)
        PROVE  NoOrphanStream'
    <3>1. UNCHANGED cand
      BY Zenon, <2>2 DEF Syn
    <3>2. CASE Goto(c, "ok") /\ UNCHANGED streams
      BY Zenon, <1>2, <2>0, <3>1, <3>2 DEF NoOrphanStream, Goto
    <3>3. CASE /\ streams' = [streams EXCEPT ![cand[c]] = @ \ {c}]
               /\ \A d \in Calls : d # c => pc'[d] = pc[d]
      BY <1>2, <2>0, <3>1, <3>3 DEF NoOrphanStream
    <3>4. \A d \in Calls : d # c => pc'[d] = pc[d]
      BY Zenon, <2>0, <2>2 DEF Syn, Goto
    <3>5. QED
      BY Zenon, <2>2, <3>2, <3>3, <3>4 DEF Syn, Remaining
  <2>3. CASE ~(\E c \in Calls : Open(c)) /\ ~(\E c \in Calls : Syn(c))
    <3>1. \A s \in Seqs : streams'[s] \subseteq streams[s]
      BY Zenon, <1>2, <2>3, OnlyOpenAdds
    <3>2. \A d \in Calls : pc[d] \in {"syn", "ok"} => pc'[d] = pc[d] /\ cand'[d] = cand[d]
      BY Zenon, <1>2, <2>3, HolderKeepsStream
    <3>3. QED
      BY Zenon, <1>2, <2>0, <3>1, <3>2 DEF NoOrphanStream
  <2>4. QED
    BY Zenon, <2>1, <2>2, <2>3
<1>3. Spec => []TypeInv
  BY Zenon, TypeCorrect DEF TypeInv
<1>4. QED
  BY <1>1, <1>2, <1>3, PTL DEF Spec

-----------------------------------------------------------------------------
(* cleanup_stale.                                                          *)

(* A non-empty set of indices has a largest member. *)
LEMMA MaxIndex ==
  ASSUME NEW N \in Nat, NEW T \in SUBSET (1 .. N), T # {}
  PROVE  \E m \in T : \A i \in T : i <= m
<1> DEFINE D == {N - i : i \in T}
<1>1. \A d \in D : d \in Nat
  OBVIOUS
<1>2. D \subseteq Nat
  BY Zenon, <1>1
<1>3. D # {}
  BY Zenon
<1> HIDE DEF D
<1>4. PICK x \in D : \A y \in D : ~ (<<y, x>> \in OpToRel(<, Nat))
  BY Zenon, <1>2, <1>3, WFMin, NatLessThanWellFounded
<1>5. \A y \in D : ~ (y < x)
  BY Zenon, <1>2, <1>4 DEF OpToRel
<1>6. PICK m \in T : x = N - m
  BY Zenon DEF D
<1>7. \A i \in T : N - i \in D
  BY Zenon DEF D
<1>8. \A i \in T : i <= m
  BY <1>5, <1>6, <1>7
<1>9. QED
  BY Zenon, <1>8

(* timed_out_indices[..remove_count] holds at most remove_count indices. *)
LEMMA FirstNBound ==
  ASSUME NEW N \in Nat, NEW S \in SUBSET (1 .. N), NEW n \in Nat
  PROVE  IsFiniteSet(FirstN(S, n)) /\ Cardinality(FirstN(S, n)) <= n
<1> DEFINE T == FirstN(S, n)
           Below(i) == {j \in S : j <= i}
<1>1. T \subseteq S /\ \A i \in T : Cardinality(Below(i)) <= n
  BY Zenon DEF FirstN
<1>2. T \in SUBSET (1 .. N)
  BY Zenon, <1>1
<1> HIDE DEF T
<1>3. IsFiniteSet(S) /\ IsFiniteSet(T)
  <2>1. IsFiniteSet(1 .. N)
    BY FS_Interval
  <2>2. QED
    BY Zenon, <1>2, <2>1, FS_Subset
<1>4. CASE T = {}
  BY <1>3, <1>4, FS_EmptySet DEF T
<1>5. CASE T # {}
  <2>1. PICK m \in T : \A i \in T : i <= m
    BY Zenon, <1>2, <1>5, MaxIndex
  <2>2. T \subseteq Below(m) /\ Below(m) \subseteq S
    BY Zenon, <1>1, <2>1
  <2> HIDE DEF Below
  <2>3. IsFiniteSet(Below(m))
    BY Zenon, <1>3, <2>2, FS_Subset
  <2>4. Cardinality(T) <= Cardinality(Below(m))
    BY Zenon, <2>2, <2>3, FS_Subset
  <2>5. Cardinality(T) \in Nat /\ Cardinality(Below(m)) \in Nat
    BY Zenon, <1>3, <2>3, FS_CardinalityType
  <2>6. QED
    BY <1>1, <1>3, <2>4, <2>5 DEF T
<1>6. QED
  BY Zenon, <1>4, <1>5
(* Only the cleanup task moves itself, and nobody else touches the pool    *)
(* while it removes: it holds the pool's lock.                             *)
LEMMA OthersLeaveCleanup ==
  ASSUME TypeInv, [Next]_vars, ~CleanupStep
  PROVE  /\ UNCHANGED <<toRemove, cleanup>>
         /\ cleanup = "removing" => UNCHANGED pool
         /\ now' = now \/ now' = now + 1
<1> USE DEF poolVars, cleanVars
<1>1. ASSUME NEW c \in Calls, CallStep(c)
      PROVE  UNCHANGED <<toRemove, cleanup, now>> /\ (cleanup = "removing" => UNCHANGED pool)
  BY Zenon, <1>1 DEF CallStep, Attempt, TakePop, TakeCheck, Snapshot, Scan, ScanCapacity, DialFail, DialOk,
     Insert, Open, Syn, SynPublish, Fail
<1>2. ASSUME NEW c \in Calls, WaiterStep(c)
      PROVE  UNCHANGED <<toRemove, cleanup, now>> /\ (cleanup = "removing" => UNCHANGED pool)
  BY Zenon, <1>2 DEF WaiterStep, WaiterStart, WaiterLook, WaiterWake, WaiterRecheck, WaiterRelook, WaiterReturn
<1>3. ASSUME NEW c \in Calls, LocalClose(c) \/ PeerFin(c) \/ \E by \in {"local", "peer"} : Publish(by, c)
      PROVE  UNCHANGED <<toRemove, cleanup, now, pool>>
  BY Zenon, <1>3 DEF LocalClose, PeerFin, Publish
<1>4. ASSUME NEW s \in Seqs, RunEnd(s) \/ RunRemove(s) \/ WriterFail(s)
      PROVE  UNCHANGED <<toRemove, cleanup, now, pool>>
  BY Zenon, <1>4 DEF RunEnd, RunRemove, WriterFail
<1>5. CASE CloseStart \/ CloseStep
  BY Zenon, <1>5 DEF CloseStart, CloseStep, CloseTakeActive, CloseDrain, CloseKill, TypeInv, CleanupLock
<1>6. CASE Tick \/ Stopped \/ UNCHANGED vars
  BY Zenon, <1>6 DEF Tick, Stopped, vars
<1>7. QED
  BY Zenon, <1>1, <1>2, <1>3, <1>4, <1>5, <1>6 DEF Next

(* The indices left to remove name expired entries, and there are never    *)
(* more of them than the pool can spare.                                   *)
CleanupInv ==
  /\ CleanupIndicesValid
  /\ IsFiniteSet(toRemove)
  /\ cleanup = "removing" => Cardinality(toRemove) + MinIdle <= Len(pool)

(* Removing the largest remaining index keeps both facts. *)
LEMMA CleanupRemoveStep ==
  ASSUME TypeInv, CleanupInv, CleanupRemove
  PROVE  CleanupInv' /\ Len(pool') >= MinIdle
<1>0. /\ pool \in Seq(Entry) /\ Len(pool) \in Nat /\ DOMAIN pool = 1 .. Len(pool)
      /\ toRemove \subseteq DOMAIN pool
  BY Zenon, LenProperties DEF TypeInv, TypeOK, CleanupLock
<1>1. PICK i \in toRemove :
        /\ \A j \in toRemove : j <= i
        /\ pool' = SwapRemove(pool, i)
        /\ toRemove' = toRemove \ {i}
  BY Zenon DEF CleanupRemove, NextIndex
<1>2. cleanup = "removing" /\ UNCHANGED now
  BY Zenon DEF CleanupRemove
<1>3. /\ Len(pool') = Len(pool) - 1
      /\ DOMAIN pool' = 1 .. Len(pool) - 1
      /\ \A j \in 1 .. Len(pool) - 1 : pool'[j] = IF j = i THEN pool[Len(pool)] ELSE pool[j]
  BY ZenonT(30), <1>0, <1>1, SwapRemoveType
<1>4. /\ IsFiniteSet(toRemove')
      /\ Cardinality(toRemove') = Cardinality(toRemove) - 1
      /\ Cardinality(toRemove) \in Nat /\ Cardinality(toRemove') \in Nat
  BY Zenon, <1>1, FS_RemoveElement, FS_CardinalityType DEF CleanupInv
<1>5. Len(pool') >= MinIdle /\ Cardinality(toRemove') + MinIdle <= Len(pool')
  BY <1>0, <1>2, <1>3, <1>4, BoundsAssumption DEF CleanupInv
<1>6. ASSUME NEW j \in toRemove'
      PROVE  j \in DOMAIN pool' /\ pool'[j] = pool[j]
  BY <1>0, <1>1, <1>3, <1>6
<1>7. CleanupIndicesValid'
  BY Zenon, <1>1, <1>2, <1>6 DEF CleanupInv, CleanupIndicesValid, Expired
<1>8. QED
  BY Zenon, <1>4, <1>5, <1>7 DEF CleanupInv

(* Every step keeps them. *)
LEMMA NextCleanupInv ==
  ASSUME TypeInv, CleanupInv, [Next]_vars
  PROVE  CleanupInv'
<1>0. /\ pool \in Seq(Entry) /\ Len(pool) \in Nat /\ DOMAIN pool = 1 .. Len(pool)
      /\ cleanup # "removing" => toRemove = {}
      /\ now \in Nat /\ Timeout \in Nat
      /\ \A i \in DOMAIN pool : pool[i].since \in Nat
  BY Zenon, LenProperties, PoolEntry, SeqsFacts, BoundsAssumption DEF TypeInv, TypeOK, CleanupLock
<1>1. CASE CleanupScan
  <2>1. /\ TimedOut \in SUBSET (1 .. Len(pool))
        /\ Len(pool) - MinIdle \in Nat
    BY <1>0, <1>1, BoundsAssumption DEF CleanupScan, TimedOut, MaxRemovable
  <2>2. /\ IsFiniteSet(toRemove')
        /\ Cardinality(toRemove') <= Len(pool) - MinIdle
        /\ Cardinality(toRemove') \in Nat
    BY Zenon, <1>0, <1>1, <2>1, FirstNBound, FS_CardinalityType DEF CleanupScan, MaxRemovable
  <2>3. UNCHANGED <<pool, now>>
    BY Zenon, <1>1 DEF CleanupScan, poolVars
  <2>4. CleanupIndicesValid'
    BY Zenon, <1>1, <2>3 DEF CleanupScan, CleanupIndicesValid, FirstN, TimedOut, Expired
  <2>5. Cardinality(toRemove') + MinIdle <= Len(pool')
    BY <1>0, <2>2, <2>3, BoundsAssumption
  <2>6. QED
    BY Zenon, <2>2, <2>4, <2>5 DEF CleanupInv
<1>2. CASE CleanupRemove
  BY Zenon, <1>2, CleanupRemoveStep
<1>3. CASE CleanupKill \/ CleanupStop
  <2>1. toRemove' = {} /\ cleanup' # "removing"
    BY Zenon, <1>0, <1>3 DEF CleanupKill, CleanupStop
  <2>2. QED
    BY Zenon, <2>1, FS_EmptySet DEF CleanupInv, CleanupIndicesValid
<1>4. CASE ~CleanupStep
  <2>1. /\ UNCHANGED <<toRemove, cleanup>>
        /\ cleanup = "removing" => UNCHANGED pool
        /\ now' = now \/ now' = now + 1
    BY Zenon, <1>4, OthersLeaveCleanup
  <2>2. CASE cleanup # "removing"
    BY Zenon, <1>0, <2>1, <2>2 DEF CleanupInv, CleanupIndicesValid
  <2>3. CASE cleanup = "removing"
    <3>1. \A i \in toRemove : i \in DOMAIN pool /\ Expired(pool[i].since)
      BY Zenon DEF CleanupInv, CleanupIndicesValid
    <3>2. \A i \in toRemove : i \in DOMAIN pool' /\ Expired(pool[i].since)'
      BY <1>0, <2>1, <2>3, <3>1 DEF Expired
    <3>3. QED
      BY Zenon, <2>1, <2>3, <3>2 DEF CleanupInv, CleanupIndicesValid
  <2>4. QED
    BY Zenon, <2>2, <2>3
<1>5. QED
  BY Zenon, <1>1, <1>2, <1>3, <1>4 DEF CleanupStep

(* While cleanup_stale removes by index, every index it has left names an  *)
(* expired entry, although each removal moves the last entry.              *)
THEOREM CleanupIndicesValidHolds == Spec => []CleanupIndicesValid
<1>1. Init => CleanupInv
  BY Zenon, FS_EmptySet DEF Init, CleanupInv, CleanupIndicesValid
<1>2. TypeInv /\ CleanupInv /\ [Next]_vars => CleanupInv'
  BY Zenon, NextCleanupInv
<1>3. CleanupInv => CleanupIndicesValid
  BY Zenon DEF CleanupInv
<1>4. Spec => []TypeInv
  BY Zenon, TypeCorrect DEF TypeInv
<1>5. QED
  BY <1>1, <1>2, <1>3, <1>4, PTL DEF Spec

(* No removal of cleanup_stale leaves fewer than min_idle_sessions pooled. *)
THEOREM CleanupKeepsMinIdleHolds == Spec => CleanupKeepsMinIdle
<1>1. Init => CleanupInv
  BY Zenon, FS_EmptySet DEF Init, CleanupInv, CleanupIndicesValid
<1>2. TypeInv /\ CleanupInv /\ [Next]_vars => CleanupInv'
  BY Zenon, NextCleanupInv
<1>3. ASSUME TypeInv, CleanupInv, [Next]_vars
      PROVE  [cleanup = "removing" /\ pool' # pool => Len(pool') >= MinIdle]_vars
  <2>1. CASE CleanupRemove
    BY Zenon, <1>3, <2>1, CleanupRemoveStep
  <2>2. CASE CleanupStep /\ ~CleanupRemove
    BY Zenon, <2>2 DEF CleanupStep, CleanupScan, CleanupKill, CleanupStop
  <2>3. CASE ~CleanupStep
    BY Zenon, <1>3, <2>3, OthersLeaveCleanup
  <2>4. QED
    BY Zenon, <2>1, <2>2, <2>3
<1>4. Spec => []TypeInv
  BY Zenon, TypeCorrect DEF TypeInv
<1>5. QED
  BY <1>1, <1>2, <1>3, <1>4, PTL DEF Spec, CleanupKeepsMinIdle

-----------------------------------------------------------------------------
(* Client::close.                                                          *)

In(s, q) == \E i \in DOMAIN q : q[i] = s

Collected == closer \in {"drain", "killing", "done"}

(* A live session is in active_sessions or in close's list.  Once close    *)
(* emptied active_sessions, it is in that list or one of the racers, and   *)
(* the calls between their closed check and active_sessions are racers too. *)
CloseInv ==
  /\ closer \in {"open", "join", "done"} => closing = <<>>
  /\ \A s \in Seqs : Live(s) => In(s, active) \/ In(s, closing)
  /\ Collected =>
       /\ \A s \in Seqs : Live(s) => s \in racers \/ In(s, closing)
       /\ \A c \in Calls : pc[c] = "insert" => cand[c] \in racers

(* Session::terminate closes its session and revives none. *)
LEMMA TerminateCloses ==
  ASSUME TypeOK, NEW s \in Seqs, Terminate(s)
  PROVE  closed'[s] /\ \A r \in Seqs : closed[r] => closed'[r]
BY ZenonT(30) DEF TypeOK, Terminate

(* A step of create_stream that neither got a number for a new session nor *)
(* inserted it starts no session and leaves close's data alone.            *)
LEMMA CallLeavesClose ==
  ASSUME TypeInv, NEW c \in Calls, CallStep(c), ~Insert(c), ~DialOk(c)
  PROVE  /\ UNCHANGED <<run, active, closer, closing, racers>>
         /\ \A r \in Seqs : closed[r] => closed'[r]
         /\ \A d \in Calls : pc'[d] = "insert" => pc[d] = "insert" /\ cand'[d] = cand[d]
<1> USE DEF sessVars, poolVars, closeVars
<1>0. /\ TypeOK /\ cand[c] \in Seqs
      /\ pc \in [Calls -> CallLabels] /\ cand \in [Calls -> Seqs]
  BY Zenon DEF TypeInv, TypeOK
<1>1. CASE TakeCheck(c)
  <2>1. \A r \in Seqs : closed[r] => closed'[r]
    BY Zenon, <1>0, <1>1, TerminateCloses DEF TakeCheck
  <2>2. QED
    BY Zenon, <1>0, <1>1, <2>1 DEF TakeCheck, Goto
<1>2. CASE Fail(c)
  <2>1. \A r \in Seqs : closed[r] => closed'[r]
    BY Zenon, <1>0, <1>2, TerminateCloses DEF Fail
  <2>2. QED
    BY Zenon, <1>0, <1>2, <2>1 DEF Fail, Goto
<1>3. CASE Attempt(c) \/ DialFail(c)
  BY Zenon, <1>0, <1>3 DEF Attempt, DialFail, Goto, ReturnErr
<1>4. CASE TakePop(c)
  BY Zenon, <1>0, <1>4 DEF TakePop, Goto
<1>5. CASE Snapshot(c) \/ Scan(c)
  BY Zenon, <1>0, <1>5 DEF Snapshot, Scan, Goto, ReturnErr
<1>6. CASE ScanCapacity(c)
  BY Zenon, <1>0, <1>6 DEF ScanCapacity, Goto
<1>7. CASE Open(c)
  BY Zenon, <1>0, <1>7 DEF Open, Goto
<1>8. CASE Syn(c) \/ SynPublish(c)
  BY Zenon, <1>0, <1>8 DEF Syn, SynPublish, Goto
<1>9. QED
  BY Zenon, <1>1, <1>2, <1>3, <1>4, <1>5, <1>6, <1>7, <1>8 DEF CallStep

(* A step that starts no session, revives none and leaves close's data     *)
(* alone keeps the invariant.                                              *)
LEMMA QuietCloseInv ==
  ASSUME CloseInv,
         UNCHANGED <<active, closer, closing, racers>>,
         \A r \in Seqs : Live(r)' => Live(r),
         \A d \in Calls : pc'[d] = "insert" => pc[d] = "insert" /\ cand'[d] = cand[d]
  PROVE  CloseInv'
BY Zenon DEF CloseInv, Collected, In

(* create_stream keeps the invariant. *)
LEMMA CallCloseInv ==
  ASSUME TypeInv, CloseInv, NEW c \in Calls, CallStep(c)
  PROVE  CloseInv'
<1>0. /\ cand[c] \in Seqs /\ active \in Seq(Seqs)
      /\ pc \in [Calls -> CallLabels] /\ cand \in [Calls -> Seqs]
      /\ run \in [Seqs -> {"none", "running", "ended", "done"}]
  BY Zenon DEF TypeInv, TypeOK
<1>1. CASE Insert(c)
  <2>1. /\ UNCHANGED <<closed, closer, closing, racers, cand>>
        /\ pc[c] = "insert"
        /\ active' = Append(active, cand[c])
        /\ run' = [run EXCEPT ![cand[c]] = "running"]
        /\ \A d \in Calls : pc'[d] = "insert" => pc[d] = "insert"
    BY Zenon, <1>0, <1>1 DEF Insert, Goto, closeVars
  <2>2. In(cand[c], active') /\ \A s \in Seqs : In(s, active) => In(s, active')
    <3>1. /\ Len(active) \in Nat /\ DOMAIN active = 1 .. Len(active)
          /\ active' \in Seq(Seqs) /\ Len(active') = Len(active) + 1
          /\ \A i \in 1 .. Len(active) : active'[i] = active[i]
          /\ active'[Len(active) + 1] = cand[c]
      BY <1>0, <2>1, AppendProperties, LenProperties
    <3>2. DOMAIN active' = 1 .. Len(active) + 1
      BY Zenon, <3>1, LenProperties
    <3>3. Len(active) + 1 \in DOMAIN active' /\ \A i \in DOMAIN active : i \in DOMAIN active'
      BY <3>1, <3>2
    <3>4. QED
      BY Zenon, <3>1, <3>3 DEF In
  <2>3. \A s \in Seqs : s # cand[c] /\ Live(s)' => Live(s)
    BY Zenon, <1>0, <2>1 DEF Live
  <2>4. \A s \in Seqs : Live(s)' => In(s, active') \/ In(s, closing')
    BY Zenon, <2>1, <2>2, <2>3 DEF CloseInv
  <2>5. Collected' => \A s \in Seqs : Live(s)' => s \in racers' \/ In(s, closing')
    BY Zenon, <2>1, <2>3 DEF CloseInv, Collected
  <2>6. QED
    BY Zenon, <2>1, <2>4, <2>5 DEF CloseInv, Collected
<1>2. CASE DialOk(c)
  <2>1. UNCHANGED <<run, closed, active, closer, closing, racers>>
    BY Zenon, <1>2 DEF DialOk, sessVars, closeVars
  <2>2. CASE ClosedFlag
    <3>1. \A d \in Calls : pc'[d] = "insert" => pc[d] = "insert" /\ cand'[d] = cand[d]
      BY Zenon, <1>0, <1>2, <2>2 DEF DialOk, ReturnErr, Goto
    <3>2. QED
      BY Zenon, <2>1, <3>1, QuietCloseInv DEF Live
  <2>3. CASE ~ClosedFlag
    BY Zenon, <2>1, <2>3 DEF ClosedFlag, CloseInv, Collected, Live, In
  <2>4. QED
    BY Zenon, <2>2, <2>3
<1>3. CASE ~Insert(c) /\ ~DialOk(c)
  BY Zenon, <1>3, CallLeavesClose, QuietCloseInv DEF Live
<1>4. QED
  BY Zenon, <1>1, <1>2, <1>3

(* The run task, the cleanup task and the ends of streams keep it: they    *)
(* only end sessions, and RunRemove forgets no other session.              *)
LEMMA TaskCloseInv ==
  ASSUME TypeInv, CloseInv,
         \/ \E c \in Calls : \/ WaiterStep(c) \/ LocalClose(c) \/ PeerFin(c)
                            \/ \E by \in {"local", "peer"} : Publish(by, c)
         \/ \E s \in Seqs : RunEnd(s) \/ RunRemove(s) \/ WriterFail(s)
         \/ CleanupStep \/ Tick \/ Stopped \/ UNCHANGED vars
  PROVE  CloseInv'
<1> USE DEF callVars, sessVars, poolVars, closeVars
<1>0. TypeOK /\ active \in Seq(Seqs) /\ run \in [Seqs -> {"none", "running", "ended", "done"}]
  BY Zenon DEF TypeInv, TypeOK
<1>1. ASSUME NEW c \in Calls, WaiterStep(c) \/ LocalClose(c) \/ PeerFin(c)
                               \/ \E by \in {"local", "peer"} : Publish(by, c)
      PROVE  CloseInv'
  <2>1. UNCHANGED <<pc, cand, run, closed, active, closer, closing, racers>>
    BY Zenon, <1>1 DEF WaiterStep, WaiterStart, WaiterLook, WaiterWake, WaiterRecheck, WaiterRelook,
       WaiterReturn, LocalClose, PeerFin, Publish
  <2>2. QED
    BY Zenon, <2>1, QuietCloseInv DEF Live
<1>2. ASSUME NEW s \in Seqs, RunEnd(s)
      PROVE  CloseInv'
  <2>1. /\ UNCHANGED <<pc, cand, active, closer, closing, racers>>
        /\ \A r \in Seqs : closed[r] => closed'[r]
        /\ run' = [run EXCEPT ![s] = "ended"]
    BY Zenon, <1>0, <1>2, TerminateCloses DEF RunEnd
  <2>2. QED
    BY Zenon, <1>0, <2>1, QuietCloseInv DEF Live
<1>3. ASSUME NEW s \in Seqs, RunRemove(s)
      PROVE  CloseInv'
  <2>1. /\ UNCHANGED <<pc, cand, closed, closer, closing, racers>>
        /\ run[s] = "ended"
        /\ run' = [run EXCEPT ![s] = "done"]
    BY Zenon, <1>3 DEF RunRemove
  <2>2. \A r \in Seqs : Live(r)' => Live(r) /\ r # s
    BY Zenon, <1>0, <2>1 DEF Live
  <2>3. ASSUME NEW r \in Seqs, r # s, In(r, active)
        PROVE  In(r, active')
    <3>1. CASE ~In(s, active)
      BY Zenon, <1>3, <2>3, <3>1 DEF RunRemove, In
    <3>2. CASE In(s, active)
      <4> DEFINE i == CHOOSE i \in DOMAIN active : active[i] = s
      <4>1. i \in DOMAIN active /\ active[i] = s
        BY Zenon, <3>2 DEF In
      <4>2. active' = SwapRemove(active, i)
        BY Zenon, <1>3, <3>2 DEF RunRemove, In
      <4>3. PICK k \in DOMAIN active : active[k] = r
        BY Zenon, <2>3 DEF In
      <4> HIDE DEF i
      <4>4. k # i
        BY Zenon, <2>3, <4>1, <4>3
      <4>5. QED
        BY Zenon, <1>0, <4>1, <4>2, <4>3, <4>4, SwapRemoveKeeps DEF In
    <3>3. QED
      BY Zenon, <3>1, <3>2
  <2>4. QED
    BY Zenon, <2>1, <2>2, <2>3 DEF CloseInv, Collected
<1>4. ASSUME NEW s \in Seqs, WriterFail(s)
      PROVE  CloseInv'
  BY Zenon, <1>4, QuietCloseInv DEF WriterFail, Live
<1>5. CASE CleanupStep
  <2>1. UNCHANGED <<pc, cand, run, active, closer, closing, racers>>
    BY Zenon, <1>5 DEF CleanupStep, CleanupScan, CleanupRemove, CleanupKill, CleanupStop
  <2>2. \A r \in Seqs : closed[r] => closed'[r]
    <3>1. CASE CleanupKill
      <4>1. Head(kill) \in Seqs
        BY Zenon, <1>0, <3>1, HeadTailProperties DEF TypeOK, CleanupKill
      <4>2. QED
        BY Zenon, <1>0, <3>1, <4>1, TerminateCloses DEF CleanupKill
    <3>2. QED
      BY Zenon, <1>5, <3>1 DEF CleanupStep, CleanupScan, CleanupRemove, CleanupStop
  <2>3. QED
    BY Zenon, <2>1, <2>2, QuietCloseInv DEF Live
<1>6. CASE Tick \/ Stopped \/ UNCHANGED vars
  BY Zenon, <1>6, QuietCloseInv DEF Tick, Stopped, vars, Live
<1>7. QED
  BY Zenon, <1>1, <1>2, <1>3, <1>4, <1>5, <1>6

(* close keeps it: it moves sessions from active_sessions to its list and  *)
(* Extending a list of sessions keeps what it already holds in place. *)
LEMMA ConcatKeeps ==
  ASSUME NEW S, NEW p \in Seq(S), NEW q \in Seq(S), NEW i \in DOMAIN p
  PROVE  i \in DOMAIN (p \o q) /\ (p \o q)[i] = p[i]
<1>1. /\ Len(p) \in Nat /\ DOMAIN p = 1 .. Len(p)
      /\ Len(q) \in Nat
  BY Zenon, LenProperties
<1>2. /\ p \o q \in Seq(S)
      /\ Len(p \o q) = Len(p) + Len(q)
      /\ \A k \in 1 .. Len(p) + Len(q) : (p \o q)[k] = IF k <= Len(p) THEN p[k] ELSE q[k - Len(p)]
  BY Zenon, ConcatProperties
<1>3. DOMAIN (p \o q) = 1 .. Len(p) + Len(q)
  BY Zenon, <1>2, LenProperties
<1>4. i \in 1 .. Len(p) + Len(q) /\ i <= Len(p)
  BY <1>1
<1>5. QED
  BY Zenon, <1>2, <1>3, <1>4

(* leaves the list only by terminating.                                    *)
LEMMA CloserCloseInv ==
  ASSUME TypeInv, CloseInv, CloseStart \/ CloseStep
  PROVE  CloseInv'
<1> USE DEF callVars, sessVars, poolVars
<1>0. /\ TypeOK /\ active \in Seq(Seqs) /\ closing \in Seq(Seqs) /\ pool \in Seq(Entry)
      /\ closed \in [Seqs -> BOOLEAN]
  BY Zenon DEF TypeInv, TypeOK
<1>1. CASE CloseStart
  BY Zenon, <1>1 DEF CloseStart, CloseInv, Collected, Live, In
<1>2. CASE CloseTakeActive
  <2>1. /\ UNCHANGED <<pc, cand, run, closed>>
        /\ closing = <<>> /\ closing' = active /\ closer' = "drain"
        /\ racers' = {cand[c] : c \in {d \in Calls : pc[d] = "insert"}}
    BY Zenon, <1>2 DEF CloseTakeActive, CloseInv
  <2>2. \A s \in Seqs : ~In(s, closing)
    BY <2>1 DEF In
  <2>3. \A s \in Seqs : Live(s)' => In(s, closing')
    BY Zenon, <2>1, <2>2 DEF CloseInv, Live
  <2>4. \A c \in Calls : pc'[c] = "insert" => cand'[c] \in racers'
    BY Zenon, <2>1
  <2>5. QED
    BY Zenon, <2>1, <2>3, <2>4 DEF CloseInv, Collected
<1>3. CASE CloseDrain
  <2>1. /\ UNCHANGED <<pc, cand, run, closed, active, racers>>
        /\ closer = "drain" /\ closer' = "killing"
        /\ closing' = closing \o [i \in DOMAIN pool |-> pool[i].seq]
    BY Zenon, <1>3 DEF CloseDrain
  <2>2. [i \in DOMAIN pool |-> pool[i].seq] \in Seq(Seqs)
    BY SMTT(30), <1>0, LenProperties, PoolEntry, SeqDef
  <2>3. \A i \in DOMAIN closing : i \in DOMAIN closing' /\ closing'[i] = closing[i]
    BY Zenon, <1>0, <2>1, <2>2, ConcatKeeps
  <2>4. \A s \in Seqs : In(s, closing) => In(s, closing')
    BY Zenon, <2>3 DEF In
  <2>5. QED
    BY Zenon, <2>1, <2>4 DEF CloseInv, Collected, Live
<1>4. CASE CloseKill
  <2>1. /\ UNCHANGED <<pc, cand, run, active, racers>>
        /\ closer = "killing"
    BY Zenon, <1>4 DEF CloseKill
  <2>2. CASE closing = <<>>
    BY Zenon, <1>4, <2>1, <2>2 DEF CloseKill, CloseInv, Collected, Live
  <2>3. CASE closing # <<>>
    <3>1. /\ Head(closing) \in Seqs /\ Len(closing) \in Nat /\ DOMAIN closing = 1 .. Len(closing)
          /\ closing' = Tail(closing) /\ closing' \in Seq(Seqs)
          /\ Len(closing') = Len(closing) - 1
          /\ \A i \in 1 .. Len(closing') : closing'[i] = closing[i + 1]
          /\ closer' = closer
      <4>1. closing' = Tail(closing) /\ closer' = closer
        BY Zenon, <1>4, <2>3 DEF CloseKill
      <4>2. /\ Head(closing) \in Seqs /\ Tail(closing) \in Seq(Seqs)
            /\ Len(Tail(closing)) = Len(closing) - 1
            /\ \A i \in 1 .. Len(Tail(closing)) : Tail(closing)[i] = closing[i + 1]
        BY Zenon, <1>0, <2>3, HeadTailProperties
      <4>3. Len(closing) \in Nat /\ DOMAIN closing = 1 .. Len(closing)
        BY Zenon, <1>0, LenProperties
      <4>4. QED
        BY Zenon, <4>1, <4>2, <4>3
    <3>2. closed'[Head(closing)] /\ \A r \in Seqs : closed[r] => closed'[r]
      BY Zenon, <1>0, <1>4, <2>3, <3>1, TerminateCloses DEF CloseKill
    <3>3. \A r \in Seqs : Live(r)' => Live(r) /\ r # Head(closing)
      BY Zenon, <2>1, <3>2 DEF Live
    <3>4. ASSUME NEW r \in Seqs, r # Head(closing), In(r, closing)
          PROVE  In(r, closing')
      <4>1. PICK i \in 1 .. Len(closing) : closing[i] = r
        BY Zenon, <3>1, <3>4 DEF In
      <4>2. i # 1
        BY <1>0, <2>3, <3>4, <4>1
      <4>3. i - 1 \in 1 .. Len(closing') /\ closing'[i - 1] = r
        BY <3>1, <4>1, <4>2
      <4>4. DOMAIN closing' = 1 .. Len(closing')
        BY Zenon, <3>1, LenProperties
      <4>5. QED
        BY Zenon, <4>3, <4>4 DEF In
    <3>5. QED
      <4>1. \A s \in Seqs : Live(s)' => In(s, active') \/ In(s, closing')
        BY Zenon, <2>1, <3>3, <3>4 DEF CloseInv
      <4>2. Collected
        BY Zenon, <2>1 DEF Collected
      <4>3. \A s \in Seqs : Live(s)' => s \in racers' \/ In(s, closing')
        BY Zenon, <2>1, <3>3, <3>4, <4>2 DEF CloseInv
      <4>4. QED
        BY Zenon, <2>1, <3>1, <4>1, <4>2, <4>3 DEF CloseInv, Collected
  <2>4. QED
    BY Zenon, <2>2, <2>3
<1>5. QED
  BY Zenon, <1>1, <1>2, <1>3, <1>4 DEF CloseStep

(* Every step keeps the invariant. *)
LEMMA NextCloseInv ==
  ASSUME TypeInv, CloseInv, [Next]_vars
  PROVE  CloseInv'
BY Zenon, CallCloseInv, TaskCloseInv, CloserCloseInv DEF Next

(* A live session is never lost: close can always find it. *)
THEOREM LiveAccountedHolds == Spec => []LiveAccounted
<1>1. Init => CloseInv
  BY Zenon DEF Init, CloseInv, Live, Collected
<1>2. TypeInv /\ CloseInv /\ [Next]_vars => CloseInv'
  BY Zenon, NextCloseInv
<1>3. CloseInv => LiveAccounted
  BY Zenon DEF CloseInv, LiveAccounted, In
<1>4. Spec => []TypeInv
  BY Zenon, TypeCorrect DEF TypeInv
<1>5. QED
  BY <1>1, <1>2, <1>3, <1>4, PTL DEF Spec

(* Once close returned, only sessions that were between their closed check *)
(* and active_sessions when close emptied it can still be alive.           *)
THEOREM CloseLeavesOnlyRacersHolds == Spec => []CloseLeavesOnlyRacers
<1>1. Init => CloseInv
  BY Zenon DEF Init, CloseInv, Live, Collected
<1>2. TypeInv /\ CloseInv /\ [Next]_vars => CloseInv'
  BY Zenon, NextCloseInv
<1>3. CloseInv => CloseLeavesOnlyRacers
  BY DEF CloseInv, CloseLeavesOnlyRacers, Collected, In
<1>4. Spec => []TypeInv
  BY Zenon, TypeCorrect DEF TypeInv
<1>5. QED
  BY <1>1, <1>2, <1>3, <1>4, PTL DEF Spec
=============================================================================
