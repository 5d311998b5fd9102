------------------------- MODULE UserRegistryProofs -------------------------
(***************************************************************************)
(* The safety properties of UserRegistry hold for any number of users,     *)
(* passwords, connections and calls of replace: replace keeps the          *)
(* invariant of UserRegistryInv, so do connections, relays, quota resets   *)
(* and the clock, and the properties follow from it.                       *)
(***************************************************************************)
EXTENDS UserRegistryInv, FiniteSetTheorems, TLAPS

-----------------------------------------------------------------------------
(* UserRegistry::replace.                                                  *)

(* Products of numbers of emails and of replaces. *)
LEMMA ProductType ==
  ASSUME NEW n \in Nat, NEW a \in Nat
  PROVE  n * a \in Nat
OBVIOUS

(* They grow with the number of replaces. *)
LEMMA Products ==
  ASSUME NEW n \in Nat, NEW a \in Nat, NEW b \in Nat, a <= b
  PROVE  /\ n * a <= n * b
         /\ a >= 1 => n * (a - 1) + n = n * a
OBVIOUS

(* An entry that replace allocates is one of Entries. *)
LEMMA NextEntryFree ==
  ASSUME TypeOK, Allocated, lock = "write", next \in Emails
  PROVE  nextEntry \in Entries /\ nextEntry + 1 \in 1 .. NumEmails * MaxReplaces + 1
<1>1. NumEmails \in Nat /\ replaces \in Nat /\ MaxReplaces \in Nat /\ replaces <= MaxReplaces
  BY RegistryAssumption DEF TypeOK
<1>2. NumEmails * replaces <= NumEmails * MaxReplaces /\ NumEmails * (replaces - 1) + NumEmails = NumEmails * replaces
  BY Zenon, <1>1, Products DEF Allocated
<1>3. next <= NumEmails /\ next \in Nat
  BY <1>1 DEF Emails
<1>p. replaces - 1 \in Nat
  BY <1>1 DEF Allocated
<1>4. NumEmails * (replaces - 1) \in Nat /\ NumEmails * replaces \in Nat /\ NumEmails * MaxReplaces \in Nat
  BY <1>1, <1>p, ProductType, Zenon
<1> DEFINE before == NumEmails * (replaces - 1)
           after == NumEmails * replaces
           all == NumEmails * MaxReplaces
<1>a. nextEntry <= before + next /\ nextEntry \in 1 .. all + 1
  BY Zenon DEF TypeOK, Allocated
<1>b. before \in Nat /\ after \in Nat /\ all \in Nat /\ after <= all /\ before + NumEmails = after
  BY Zenon, <1>2, <1>4
<1> HIDE DEF before, after, all
<1>5. nextEntry <= all /\ nextEntry + 1 \in 1 .. all + 1
  BY <1>1, <1>3, <1>a, <1>b
<1>6. nextEntry \in 1 .. all
  BY <1>5, <1>a, <1>b
<1> QED BY <1>5, <1>6, Zenon DEF Entries, all

(* Publishing an entry under a new email and a new password keeps the maps *)
(* consistent.                                                             *)
LEMMA Extend ==
  ASSUME NEW em \in [Emails -> MaybeEntries], NEW ha \in [Passwords -> MaybeEntries], Consistent(em, ha),
         NEW m \in Emails, NEW p \in Passwords, NEW e \in Entries,
         em[m] = None, ha[p] = None, \A n \in Emails : em[n] # e
  PROVE  Consistent([em EXCEPT ![m] = e], [ha EXCEPT ![p] = e])
<1> DEFINE em2 == [em EXCEPT ![m] = e]
           ha2 == [ha EXCEPT ![p] = e]
<1>0. e # None
  BY Zenon, RegistryAssumption DEF Entries, None
<1>1. /\ \A n \in Emails : em2[n] = IF n = m THEN e ELSE em[n]
      /\ \A q \in Passwords : ha2[q] = IF q = p THEN e ELSE ha[q]
  BY Zenon
<1>2. \A q \in Passwords : ha[q] # e
  BY ZenonT(30), <1>0 DEF Consistent
<1> HIDE DEF em2, ha2
<1>3. \A q \in Passwords : ha2[q] # None => \E n \in Emails : em2[n] = ha2[q]
  BY <1>0, <1>1 DEF Consistent
<1>4. ASSUME NEW n \in Emails, em2[n] # None
      PROVE  \E q \in Passwords : \A r \in Passwords : ha2[r] = em2[n] <=> r = q
  <2>1. CASE n = m
    BY <1>1, <1>2, <2>1
  <2>2. CASE n # m
    <3>1. PICK q \in Passwords : \A r \in Passwords : ha[r] = em[n] <=> r = q
      BY Zenon, <1>1, <1>4, <2>2 DEF Consistent
    <3>2. q # p /\ em[n] # e
      BY Zenon, <1>1, <1>4, <2>2, <3>1
    <3> QED BY <1>1, <2>2, <3>1, <3>2
  <2> QED BY Zenon, <2>1, <2>2
<1>5. \A n, k \in Emails : em2[n] # None /\ em2[n] = em2[k] => n = k
  BY <1>0, <1>1 DEF Consistent
<1>6. Consistent(em2, ha2)
  BY Zenon, <1>3, <1>4, <1>5 DEF Consistent
<1> QED BY Zenon, <1>6 DEF em2, ha2

(* What IndexConsistent says is that the index is Consistent. *)
LEMMA ConsistentIndex ==
  ASSUME TypeOK, Consistent(byEmail, byHash)
  PROVE  IndexConsistent
BY DEF TypeOK, Consistent, IndexConsistent, Listed

(* Between two replaces, what RevokedInv says is RevokedIffUnlisted. *)
LEMMA RevokedUnlisted ==
  ASSUME TypeOK, Built, RevokedInv
  PROVE  RevokedIffUnlisted
<1> SUFFICES ASSUME lock = "free", NEW e \in 1 .. nextEntry - 1
             PROVE  revoked[e] <=> e \notin Listed
  BY Zenon DEF RevokedIffUnlisted
<1>1. InOld(e) <=> InNew(e)
  BY Zenon DEF Built, InOld, InNew
<1>2. e # None
  BY DEF TypeOK, None
<1>3. e \in Listed <=> InOld(e)
  BY Zenon, <1>2 DEF Listed, InOld
<1> QED BY Zenon, <1>1, <1>3 DEF RevokedInv

(* A replace begins with empty maps. *)
LEMMA StartRegistry ==
  ASSUME RegistryInv, ReplaceStart
  PROVE  RegistryInv'
<1> USE DEF RegistryInv, ReplaceStart, indexVars, entryVars, connVars
<1>0. NumEmails \in Nat \ {0} /\ MaxReplaces \in Nat
  BY Zenon, RegistryAssumption
<1>1. TypeOK'
  BY <1>0 DEF TypeOK, MaybeEntries
<1>2. Consistent(newEmail', newHash')
  BY Zenon DEF Consistent
<1>3. Built'
  BY DEF Built, TypeOK, Emails
<1>4. replaces' - 1 = replaces /\ replaces' >= 1
  BY DEF TypeOK
<1>5. nextEntry' <= NumEmails * (replaces' - 1) + next'
  BY Zenon, <1>4 DEF IndexInv, Allocated
<1>6. \A m \in Emails : newEmail'[m] < nextEntry'
  BY DEF TypeOK, None
<1>7. Allocated'
  BY Zenon, <1>4, <1>5, <1>6 DEF IndexInv, Allocated
<1>8. RevokedInv'
  <2>1. ASSUME NEW e \in 1 .. nextEntry - 1
        PROVE  InOld(e)' <=> InOld(e) \/ InNew(e)
    BY Zenon DEF IndexInv, Built, InOld, InNew
  <2>2. ASSUME NEW e \in 1 .. nextEntry - 1
        PROVE  ~InNew(e)'
    BY DEF InNew, None
  <2> QED BY Zenon, <2>1, <2>2 DEF RevokedInv
<1>9. GuardedInv'
  <2>1. ASSUME NEW c \in Conns, conn[c] # "new"
        PROVE  Admitted(c) => Admitted(c)'
    <3>1. ent[c] # None
      BY <2>1 DEF GuardedInv, Entries, None
    <3>2. ~InNew(ent[c])'
      BY Zenon, <3>1 DEF InNew
    <3> QED BY Zenon, <3>2 DEF Admitted
  <2> QED BY Zenon, <2>1 DEF GuardedInv, Guarded
<1>10. ConnectionsExact' /\ WindowInv'
  BY Zenon DEF ConnectionsExact, Guarded, WindowInv, WindowBehindTotals
<1> QED BY Zenon, <1>1, <1>2, <1>3, <1>7, <1>8, <1>9, <1>10 DEF IndexInv

(* A spec that is passed over changes nothing but the place in the list. *)
LEMMA SkipRegistry ==
  ASSUME RegistryInv, ReplaceSpec, Skipped(req[next].password),
         UNCHANGED <<newEmail, newHash, quota, expires, gen, racers, nextEntry>>
  PROVE  RegistryInv'
<1> USE DEF RegistryInv
<1>0. /\ next \in Emails /\ lock = "write" /\ next' = next + 1
      /\ UNCHANGED <<indexVars, lock, req, replaces, revoked, base, up, down, count, conn, ent, pass, myGen, relay,
                     reset, now>>
  BY Zenon DEF ReplaceSpec
<1>n. NumEmails \in Nat \ {0}
  BY Zenon, RegistryAssumption
<1>1. TypeOK'
  BY <1>0, <1>n DEF TypeOK, Emails, indexVars
<1>2. Built'
  <2>1. req[next].password \in Passwords => \E n \in Emails : n < next /\ req[n].password = req[next].password
    BY Zenon, <1>0 DEF Skipped, Collides, IndexInv, Built
  <2>2. \A m \in Emails : m < next + 1 <=> m < next \/ m = next
    BY <1>0, <1>n DEF Emails
  <2> QED BY <1>0, <2>1, <2>2 DEF IndexInv, Built, indexVars
<1>p. replaces - 1 \in Nat
  BY <1>0 DEF TypeOK, IndexInv, Allocated
<1>q. NumEmails * (replaces - 1) \in Nat
  BY Zenon, <1>p, <1>n, ProductType
<1>3. nextEntry' <= NumEmails * (replaces' - 1) + next'
  <2> DEFINE before == NumEmails * (replaces - 1)
  <2>1. before \in Nat /\ nextEntry <= before + next
    BY Zenon, <1>0, <1>q DEF IndexInv, Allocated
  <2>2. replaces' - 1 = replaces - 1
    BY Zenon, <1>0
  <2>3. nextEntry \in Int /\ next \in Int
    BY <1>0, <1>n DEF TypeOK
  <2> HIDE DEF before
  <2>4. nextEntry' <= before + next'
    BY <1>0, <2>1, <2>3
  <2> QED BY Zenon, <2>4, <2>2 DEF before
<1>4. Allocated'
  BY Zenon, <1>0, <1>3 DEF IndexInv, Allocated, indexVars
<1>5. Consistent(byEmail, byHash)' /\ Consistent(newEmail, newHash)' /\ RevokedInv' /\ GuardedInv'
  BY <1>0 DEF IndexInv, Consistent, RevokedInv, GuardedInv, Guarded, Admitted, InNew, InOld, indexVars
<1>6. ConnectionsExact' /\ WindowInv'
  BY Zenon, <1>0 DEF ConnectionsExact, Guarded, WindowInv, WindowBehindTotals
<1> QED BY Zenon, <1>1, <1>2, <1>4, <1>5, <1>6 DEF IndexInv

(* The entry published for a spec: that of its email, or the next one. *)
Publishes(e, p) ==
  /\ newEmail' = [newEmail EXCEPT ![next] = e]
  /\ newHash' = [newHash EXCEPT ![p] = e]
  /\ quota' = [quota EXCEPT ![e] = req[next].quota]
  /\ expires' = [expires EXCEPT ![e] = req[next].expires]
  /\ \/ /\ e = byEmail[next] /\ e # None
        /\ nextEntry' = nextEntry
        /\ IF Rekeyed(e, p)
           THEN gen' = [gen EXCEPT ![e] = NextGen(e)] /\ racers' = racers \cup Authenticating(e)
           ELSE UNCHANGED <<gen, racers>>
     \/ /\ byEmail[next] = None /\ e = nextEntry
        /\ nextEntry' = nextEntry + 1
        /\ UNCHANGED <<gen, racers>>

(* A spec is passed over, or published. *)
LEMMA SpecCases ==
  ASSUME ReplaceSpec
  PROVE  \/ /\ Skipped(req[next].password)
            /\ UNCHANGED <<newEmail, newHash, quota, expires, gen, racers, nextEntry>>
         \/ ~Skipped(req[next].password) /\ \E e : Publishes(e, req[next].password)
BY Zenon DEF ReplaceSpec, Publishes

(* What is published was not, under no email and under no password. *)
LEMMA PublishFacts ==
  ASSUME TypeOK, IndexInv, ReplaceSpec, NEW e, NEW p, p = req[next].password, ~Skipped(p), Publishes(e, p)
  PROVE  /\ e \in Entries /\ p \in Passwords
         /\ newEmail[next] = None /\ newHash[p] = None
         /\ \A m \in Emails : newEmail[m] # e
         /\ e < nextEntry'
         /\ nextEntry' \in {nextEntry, nextEntry + 1}
         /\ nextEntry' \in 1 .. NumEmails * MaxReplaces + 1
<1>0. next \in Emails /\ lock = "write"
  BY Zenon DEF ReplaceSpec
<1>n. nextEntry \in Entries /\ nextEntry + 1 \in 1 .. NumEmails * MaxReplaces + 1
  BY Zenon, <1>0, NextEntryFree DEF IndexInv
<1>1. p \in Passwords /\ newHash[p] = None
  BY Zenon DEF Skipped, Collides
<1>2. newEmail[next] = None
  BY <1>0, RegistryAssumption DEF IndexInv, Built, Emails
<1>3. CASE e = byEmail[next] /\ e # None /\ nextEntry' = nextEntry
  <2>1. e \in Entries
    BY Zenon, <1>0, <1>3 DEF TypeOK, MaybeEntries
  <2>2. ASSUME NEW m \in Emails
        PROVE  newEmail[m] # e
    BY <1>0, <1>2, <1>3, <2>2 DEF IndexInv, Built, Consistent
  <2> QED BY Zenon, <1>0, <1>1, <1>2, <1>3, <2>1, <2>2 DEF IndexInv, Allocated, TypeOK
<1>4. CASE e = nextEntry /\ nextEntry' = nextEntry + 1
  <2>1. nextEntry \in Int /\ \A m \in Emails : newEmail[m] \in Int
    BY <1>n, RegistryAssumption, ProductType DEF TypeOK, MaybeEntries, Entries, None
  <2>2. \A m \in Emails : newEmail[m] # e
    BY <1>4, <2>1 DEF IndexInv, Allocated
  <2> QED BY <1>1, <1>2, <1>4, <1>n, <2>1, <2>2
<1> QED BY Zenon, <1>3, <1>4 DEF Publishes

(* Publishing keeps the maps consistent and remembers where they come from. *)
LEMMA PublishIndex ==
  ASSUME RegistryInv, ReplaceSpec, NEW e, NEW p, p = req[next].password, ~Skipped(p), Publishes(e, p)
  PROVE  TypeOK' /\ IndexInv' /\ RevokedInv'
<1> USE DEF RegistryInv
<1>0. /\ next \in Emails /\ lock = "write" /\ next' = next + 1
      /\ UNCHANGED <<byEmail, byHash, lock, req, replaces, revoked, base, up, down, count, conn, ent, pass, myGen, relay,
                     reset, now>>
  BY Zenon DEF ReplaceSpec, indexVars
<1>n. NumEmails \in Nat \ {0}
  BY Zenon, RegistryAssumption
<1>f. /\ e \in Entries /\ p \in Passwords
      /\ newEmail[next] = None /\ newHash[p] = None
      /\ \A m \in Emails : newEmail[m] # e
      /\ e < nextEntry'
      /\ nextEntry' \in {nextEntry, nextEntry + 1}
      /\ nextEntry' \in 1 .. NumEmails * MaxReplaces + 1
  BY Zenon, PublishFacts
<1>m. newEmail' = [newEmail EXCEPT ![next] = e] /\ newHash' = [newHash EXCEPT ![p] = e]
  BY Zenon DEF Publishes
<1>1. TypeOK'
  <2>1. newEmail' \in [Emails -> MaybeEntries] /\ newHash' \in [Passwords -> MaybeEntries]
    BY Zenon, <1>f, <1>m DEF TypeOK, MaybeEntries
  <2>2. req[next].quota \in Quotas /\ req[next].expires \in Expiries
    BY <1>0, RegistryAssumption DEF TypeOK, Specs, Absent
  <2>3. quota' \in [Entries -> Quotas] /\ expires' \in [Entries -> Expiries]
    BY Zenon, <1>f, <2>2 DEF Publishes, TypeOK
  <2>g. gen' = gen \/ gen' = [gen EXCEPT ![e] = gen[e] + 1]
    BY Zenon DEF Publishes, NextGen
  <2>r. racers' = racers \/ racers' = racers \cup Authenticating(e)
    BY Zenon DEF Publishes
  <2>4. gen' \in [Entries -> Nat] /\ racers' \subseteq Conns
    BY SMTT(30), <1>f, <2>g, <2>r DEF Authenticating, TypeOK
  <2>5. next' \in 1 .. NumEmails + 1
    BY <1>0, <1>n DEF Emails
  <2> QED BY Zenon, <1>0, <1>f, <2>1, <2>3, <2>4, <2>5 DEF TypeOK
<1>2. Consistent(newEmail, newHash)' /\ Consistent(byEmail, byHash)'
  <2>1. Consistent(newEmail', newHash')
    BY Zenon, <1>0, <1>f, <1>m, Extend DEF IndexInv, TypeOK
  <2>2. Consistent(byEmail', byHash')
    BY Zenon, <1>0 DEF IndexInv
  <2> QED BY Zenon, <2>1, <2>2 DEF Consistent
<1>e. e = byEmail[next] \/ (byEmail[next] = None /\ \A n \in Emails : byEmail[n] # e)
  <2>1. e = nextEntry => \A n \in Emails : byEmail[n] # e
    BY <1>f, ProductType, RegistryAssumption DEF IndexInv, Allocated, TypeOK, MaybeEntries, Entries, None
  <2> QED BY Zenon, <2>1 DEF Publishes
<1>3. Built'
  <2>1. \A m \in Emails : m < next + 1 <=> m < next \/ m = next
    BY <1>0, <1>n DEF Emails
  <2>2. \A m \in Emails : newEmail'[m] # None =>
          /\ m < next'
          /\ newEmail'[m] = byEmail'[m] \/ (byEmail'[m] = None /\ \A n \in Emails : byEmail'[n] # newEmail'[m])
    BY ZenonT(30), <1>0, <1>m, <1>e, <2>1 DEF IndexInv, Built, TypeOK
  <2>3. \A q \in Passwords : newHash'[q] # None => \E n \in Emails : n < next' /\ req'[n].password = q
    BY ZenonT(30), <1>0, <1>m, <2>1 DEF IndexInv, Built, TypeOK
  <2>4. e # None
    BY <1>f, RegistryAssumption, ProductType DEF Entries, None
  <2>5. \A m \in Emails : m < next' /\ newEmail'[m] = None /\ req'[m].password \in Passwords =>
          \E n \in Emails : n < m /\ req'[n].password = req'[m].password
    BY ZenonT(30), <1>0, <1>m, <2>1, <2>4 DEF IndexInv, Built, TypeOK
  <2> QED BY Zenon, <1>0, <2>2, <2>3, <2>5 DEF Built
<1>p. replaces - 1 \in Nat
  BY <1>0 DEF TypeOK, IndexInv, Allocated
<1>q. NumEmails * (replaces - 1) \in Nat
  BY Zenon, <1>p, <1>n, ProductType
<1>i. nextEntry \in Nat /\ next \in Nat
  BY <1>0, <1>n DEF TypeOK, Emails
<1>4. nextEntry' <= NumEmails * (replaces' - 1) + next'
  <2> DEFINE before == NumEmails * (replaces - 1)
  <2>1. before \in Nat /\ nextEntry <= before + next
    BY Zenon, <1>0, <1>q DEF IndexInv, Allocated
  <2>2. replaces' - 1 = replaces - 1
    BY Zenon, <1>0
  <2> HIDE DEF before
  <2>4. nextEntry' <= before + next'
    BY <1>0, <1>f, <1>i, <2>1
  <2> QED BY Zenon, <2>4, <2>2 DEF before
<1>5. Allocated'
  <2>1. \A k \in Int : k < nextEntry => k < nextEntry'
    BY <1>f, <1>i
  <2>2. /\ \A m \in Emails : byEmail[m] \in Int /\ newEmail[m] \in Int
        /\ \A c \in Conns : ent[c] \in Int
        /\ \A k \in Entries : k \in Int
    BY RegistryAssumption, ProductType DEF TypeOK, MaybeEntries, Entries, None
  <2>3. \A m \in Emails : byEmail'[m] < nextEntry' /\ newEmail'[m] < nextEntry'
    BY Zenon, <1>0, <1>f, <1>m, <2>1, <2>2 DEF IndexInv, Allocated, TypeOK
  <2>4. \A c \in Conns : ent'[c] < nextEntry'
    BY Zenon, <1>0, <2>1, <2>2 DEF IndexInv, Allocated
  <2>5. \A k \in Entries : k >= nextEntry' => ~revoked'[k]
    BY <1>0, <1>f, <1>i, <2>2 DEF IndexInv, Allocated
  <2> QED BY Zenon, <1>0, <1>4, <2>3, <2>4, <2>5 DEF IndexInv, Allocated
<1>6. RevokedInv'
  <2> SUFFICES ASSUME NEW k \in 1 .. nextEntry' - 1
               PROVE  revoked[k] <=> ~InOld(k)' /\ ~InNew(k)'
    BY Zenon, <1>0 DEF RevokedInv
  <2>1. InOld(k)' <=> InOld(k)
    BY Zenon, <1>0 DEF InOld
  <2>2. InNew(k)' <=> InNew(k) \/ k = e
    <3>1. \A m \in Emails : newEmail'[m] = IF m = next THEN e ELSE newEmail[m]
      BY Zenon, <1>m DEF TypeOK
    <3>2. k # None
      BY DEF None
    <3> QED BY Zenon, <1>0, <1>f, <3>1, <3>2 DEF InNew
  <2>3. CASE k < nextEntry
    <3>1. k \in 1 .. nextEntry - 1
      BY <1>f, <1>i, <2>3
    <3>2. k = e => InOld(k)
      BY <1>0, <1>i, <2>3 DEF Publishes, InOld
    <3> QED BY Zenon, <2>1, <2>2, <3>1, <3>2 DEF RevokedInv
  <2>4. CASE k = nextEntry /\ nextEntry' = nextEntry + 1
    <3>1. e = nextEntry
      BY <1>i, <2>4 DEF Publishes
    <3>2. ~revoked[k]
      BY <1>f, <1>i, <2>4, <3>1 DEF IndexInv, Allocated
    <3> QED BY Zenon, <2>2, <2>4, <3>1, <3>2
  <2> QED BY SMTT(30), <1>f, <1>i, <2>3, <2>4
<1> QED BY Zenon, <1>1, <1>2, <1>3, <1>5, <1>6 DEF IndexInv

(* A connection whose user is re-keyed is retired or a racer; the password *)
(* of any other leads to its user in the new maps too.                     *)
LEMMA PublishGuarded ==
  ASSUME RegistryInv, ReplaceSpec, NEW e, NEW p, p = req[next].password, ~Skipped(p), Publishes(e, p)
  PROVE  GuardedInv'
<1> USE DEF RegistryInv
<1>0. next \in Emails /\ UNCHANGED <<byEmail, byHash, revoked, conn, ent, pass, myGen>>
  BY Zenon DEF ReplaceSpec, indexVars
<1>f. e \in Entries /\ p \in Passwords /\ newHash[p] = None /\ \A m \in Emails : newEmail[m] # e
  BY Zenon, PublishFacts
<1>m. /\ \A m \in Emails : newEmail'[m] = IF m = next THEN e ELSE newEmail[m]
      /\ \A q \in Passwords : newHash'[q] = IF q = p THEN e ELSE newHash[q]
  BY Zenon DEF Publishes, TypeOK
<1> SUFFICES ASSUME NEW c \in Conns, conn[c] # "new"
             PROVE  /\ ent[c] \in Entries /\ pass[c] \in Passwords
                    /\ c \in Guarded => myGen[c] <= gen'[ent[c]]
                    /\ c \notin racers' => \/ c \in Guarded /\ gen'[ent[c]] # myGen[c]
                                          \/ revoked[ent[c]]
                                          \/ Admitted(c)'
  BY Zenon, <1>0 DEF GuardedInv, Guarded
<1>1. ent[c] \in Entries /\ pass[c] \in Passwords /\ ent[c] # None /\ ent[c] < nextEntry
  BY RegistryAssumption, ProductType DEF GuardedInv, IndexInv, Allocated, Entries, None
<1>t. gen[ent[c]] \in Nat /\ myGen[c] \in Nat
  BY Zenon, <1>1 DEF TypeOK
<1>2. CASE ent[c] = e /\ Rekeyed(e, p)
  <2>1. e = byEmail[next] /\ gen'[e] = gen[e] + 1 /\ Authenticating(e) \subseteq racers'
    <3>1. e # nextEntry
      BY <1>1, <1>2, <1>f, RegistryAssumption, ProductType DEF Entries, TypeOK
    <3> QED BY Zenon, <1>2, <1>f, <3>1 DEF Publishes, NextGen, TypeOK
  <2>2. c \in Guarded \/ c \in Authenticating(e)
    BY Zenon, <1>2 DEF TypeOK, Guarded, Authenticating
  <2>3. c \in Guarded => myGen[c] <= gen[e]
    BY Zenon, <1>2 DEF GuardedInv
  <2>4. c \in Guarded => myGen[c] <= gen'[e] /\ gen'[e] # myGen[c]
    BY SMTT(30), <1>2, <1>t, <2>1, <2>3
  <2> QED BY Zenon, <1>1, <1>2, <2>1, <2>2, <2>4
<1>3. CASE ~(ent[c] = e /\ Rekeyed(e, p))
  <2>1. gen'[ent[c]] = gen[ent[c]] /\ racers \subseteq racers'
    BY Zenon, <1>3, <1>1, <1>f DEF Publishes, TypeOK
  <2>2. ASSUME Admitted(c)
        PROVE  Admitted(c)'
    <3>1. CASE ent[c] = e
      <4>1. byHash[p] = e /\ byHash[pass[c]] = e
        BY Zenon, <1>3, <2>2, <3>1 DEF Rekeyed, Admitted
      <4>2. PICK m \in Emails : byEmail[m] = e
        BY <1>1, <1>f, <3>1, <4>1 DEF IndexInv, Consistent
      <4>3. pass[c] = p
        BY <1>1, <1>f, <3>1, <4>1, <4>2 DEF IndexInv, Consistent
      <4> QED BY Zenon, <1>0, <1>f, <1>m, <3>1, <4>1, <4>3 DEF Admitted
    <3>2. CASE ent[c] # e
      <4>1. InNew(ent[c])' => InNew(ent[c])
        BY Zenon, <1>0, <1>m, <3>2 DEF InNew
      <4>2. InNew(ent[c]) => pass[c] # p
        BY Zenon, <1>1, <1>f, <2>2 DEF Admitted
      <4> QED BY Zenon, <1>0, <1>1, <1>m, <2>2, <4>1, <4>2 DEF Admitted
    <3> QED BY Zenon, <3>1, <3>2
  <2> QED BY Zenon, <1>1, <2>1, <2>2 DEF GuardedInv
<1> QED BY Zenon, <1>2, <1>3

(* One round of the loop over the specs keeps the invariant. *)
LEMMA SpecRegistry ==
  ASSUME RegistryInv, ReplaceSpec
  PROVE  RegistryInv'
<1>0. UNCHANGED <<base, up, down, count, conn, ent, reset>>
  BY Zenon DEF ReplaceSpec
<1>1. ConnectionsExact' /\ WindowInv'
  BY Zenon, <1>0 DEF RegistryInv, ConnectionsExact, Guarded, WindowInv, WindowBehindTotals
<1>2. ASSUME ~Skipped(req[next].password), NEW e, Publishes(e, req[next].password)
      PROVE  RegistryInv'
  BY Zenon, <1>1, <1>2, PublishIndex, PublishGuarded DEF RegistryInv
<1> QED BY Zenon, <1>2, SpecCases, SkipRegistry

(* The commit revokes what the new index does not list. *)
LEMMA CommitRegistry ==
  ASSUME RegistryInv, ReplaceCommit
  PROVE  RegistryInv'
<1> USE DEF RegistryInv
<1>0. /\ lock = "write" /\ next \notin Emails /\ lock' = "free"
      /\ revoked' = [e \in Entries |-> revoked[e] \/ e \in Dropped]
      /\ byEmail' = newEmail /\ byHash' = newHash
      /\ UNCHANGED <<req, next, newEmail, newHash, replaces, nextEntry, gen, quota, expires, base, up, down, count, conn,
                     ent, pass, myGen, relay, racers, reset, now>>
  BY Zenon DEF ReplaceCommit, connVars
<1>n. NumEmails \in Nat \ {0} /\ next = NumEmails + 1
  BY <1>0, RegistryAssumption DEF TypeOK, Emails
<1>1. TypeOK'
  <2>1. revoked' \in [Entries -> BOOLEAN]
    BY Zenon, <1>0 DEF TypeOK
  <2> QED BY Zenon, <1>0, <2>1 DEF TypeOK
<1>d. \A e \in Entries : e \in Dropped <=> \E m \in Emails : newEmail[m] = None /\ byEmail[m] = e
  BY Zenon DEF Dropped
<1>e. \A e \in Entries : e \in Int /\ e # None
  BY RegistryAssumption, ProductType DEF Entries, None
<1>c. Built /\ Consistent(byEmail, byHash) /\ Consistent(newEmail, newHash)
  BY Zenon DEF IndexInv
<1>2. \A e \in Entries : InNew(e) => e \notin Dropped
  <2> SUFFICES ASSUME NEW e \in Entries, InNew(e), e \in Dropped
               PROVE  FALSE
    BY Zenon
  <2>1. PICK m \in Emails : newEmail[m] = e
    BY Zenon DEF InNew
  <2>2. PICK n \in Emails : newEmail[n] = None /\ byEmail[n] = e
    BY Zenon, <1>d
  <2>3. newEmail[m] = byEmail[m]
    BY SMTT(30), <1>0, <1>c, <1>e, <2>1, <2>2 DEF Built
  <2>4. m = n
    BY SMTT(30), <1>c, <1>e, <2>1, <2>2, <2>3 DEF Consistent
  <2> QED BY Zenon, <1>e, <2>1, <2>2, <2>4
<1>3. \A e \in Entries : InOld(e) /\ ~InNew(e) => e \in Dropped
  BY Zenon, <1>0, <1>d, <1>e DEF InNew, InOld, IndexInv, Built
<1>4. Allocated'
  <2>1. nextEntry <= NumEmails * replaces + 1
    <3>1. replaces \in Nat /\ replaces >= 1 /\ nextEntry \in Int /\ nextEntry <= NumEmails * (replaces - 1) + next
      BY SMTT(30), <1>0 DEF IndexInv, Allocated, TypeOK
    <3>2. NumEmails * (replaces - 1) + NumEmails = NumEmails * replaces
      BY <1>n, <3>1, Products
    <3>3. NumEmails * (replaces - 1) \in Nat
      BY <1>n, <3>1, ProductType
    <3> DEFINE before == NumEmails * (replaces - 1)
               after == NumEmails * replaces
    <3>4. before \in Nat /\ before + NumEmails = after /\ nextEntry <= before + next
      BY Zenon, <3>1, <3>2, <3>3
    <3> HIDE DEF before, after
    <3>5. nextEntry <= after + 1
      BY <1>n, <3>1, <3>4
    <3> QED BY Zenon, <3>5 DEF after
  <2>2. \A e \in Entries : e >= nextEntry => ~revoked'[e]
    BY SMTT(30), <1>0, <1>d, <1>e DEF IndexInv, Allocated, TypeOK
  <2> QED BY Zenon, <1>0, <2>1, <2>2 DEF IndexInv, Allocated
<1>5. Built' /\ Consistent(byEmail, byHash)' /\ Consistent(newEmail, newHash)'
  <2>1. lock' = "free" /\ "free" # "write"
    BY <1>0
  <2>2. Built'
    BY SMTT(30), <1>0, <2>1 DEF Built
  <2>3. Consistent(byEmail, byHash)'
    BY SMTT(30), <1>0, <1>c DEF Consistent
  <2>4. Consistent(newEmail, newHash)'
    BY <1>0, <1>c DEF Consistent
  <2> QED BY Zenon, <2>2, <2>3, <2>4
<1>6. RevokedInv'
  <2> SUFFICES ASSUME NEW e \in 1 .. nextEntry - 1
               PROVE  revoked'[e] <=> ~InOld(e)' /\ ~InNew(e)'
    BY Zenon, <1>0 DEF RevokedInv
  <2>1. e \in Entries
    <3> DEFINE all == NumEmails * MaxReplaces
    <3>1. all \in Nat /\ nextEntry \in 1 .. all + 1
      BY Zenon, RegistryAssumption, ProductType DEF TypeOK
    <3> HIDE DEF all
    <3>2. e \in 1 .. all
      BY <3>1
    <3> QED BY Zenon, <3>2 DEF all, Entries
  <2>2. InOld(e)' <=> InNew(e)
    BY Zenon, <1>0 DEF InOld, InNew
  <2>3. InNew(e)' <=> InNew(e)
    BY Zenon, <1>0 DEF InNew
  <2> QED BY Zenon, <1>0, <1>2, <1>3, <2>1, <2>2, <2>3 DEF RevokedInv
<1>7. GuardedInv'
  <2>1. ASSUME NEW c \in Conns, conn[c] # "new", Admitted(c)
        PROVE  revoked'[ent[c]] \/ Admitted(c)'
    <3>1. ent[c] \in Entries /\ pass[c] \in Passwords
      BY Zenon, <2>1 DEF GuardedInv
    <3>2. InOld(ent[c])
      BY <1>c, <1>e, <2>1, <3>1 DEF Admitted, Consistent, InOld
    <3>3. CASE InNew(ent[c])
      BY Zenon, <1>0, <2>1, <3>3 DEF Admitted
    <3>4. CASE ~InNew(ent[c])
      BY Zenon, <1>0, <1>3, <3>1, <3>2, <3>4
    <3> QED BY Zenon, <3>3, <3>4
  <2> QED BY Zenon, <1>0, <2>1 DEF GuardedInv, Guarded
<1>8. ConnectionsExact' /\ WindowInv'
  BY Zenon, <1>0 DEF ConnectionsExact, Guarded, WindowInv, WindowBehindTotals
<1> QED BY Zenon, <1>1, <1>4, <1>5, <1>6, <1>7, <1>8 DEF IndexInv

-----------------------------------------------------------------------------
(* Connections, relays, quota resets and the clock.                        *)

(* A step that leaves the registry alone. *)
LEMMA IndexKept ==
  ASSUME RegistryInv, UNCHANGED replaceVars, \A c \in Conns : ent'[c] < nextEntry
  PROVE  IndexInv' /\ RevokedInv'
<1>1. UNCHANGED <<byEmail, byHash, lock, req, next, newEmail, newHash, replaces, nextEntry, revoked>>
  BY Zenon DEF replaceVars, indexVars, workVars
<1>2. Allocated' /\ Built'
  BY Zenon, <1>1 DEF RegistryInv, IndexInv, Allocated, Built
<1>3. Consistent(byEmail, byHash)' /\ Consistent(newEmail, newHash)' /\ RevokedInv'
  BY <1>1 DEF RegistryInv, IndexInv, Consistent, RevokedInv, InOld, InNew
<1> QED BY Zenon, <1>2, <1>3 DEF IndexInv

(* What GuardedInv says of one connection. *)
GuardedOk(c) ==
  conn[c] # "new" =>
    /\ ent[c] \in Entries /\ pass[c] \in Passwords
    /\ c \in Guarded => myGen[c] <= gen[ent[c]]
    /\ c \notin racers => (c \in Guarded /\ gen[ent[c]] # myGen[c]) \/ revoked[ent[c]] \/ Admitted(c)

(* The other connections do not move. *)
OthersStay(c) ==
  \A b \in Conns \ {c} : /\ conn'[b] = conn[b] /\ ent'[b] = ent[b]
                         /\ pass'[b] = pass[b] /\ myGen'[b] = myGen[b]
                         /\ b \in racers <=> b \in racers'

(* A step of one connection concerns no other. *)
LEMMA OneConnection ==
  ASSUME RegistryInv, UNCHANGED replaceVars, NEW c \in Conns, GuardedOk(c)', OthersStay(c)
  PROVE  GuardedInv'
<1>1. UNCHANGED <<byHash, newEmail, newHash, gen, revoked>>
  BY Zenon DEF replaceVars, indexVars, workVars
<1>2. ASSUME NEW b \in Conns, b # c
      PROVE  GuardedOk(b)'
  <2>1. GuardedOk(b)
    BY Zenon DEF RegistryInv, GuardedInv, GuardedOk
  <2>2. b \in Guarded <=> b \in Guarded'
    BY Zenon, <1>2 DEF Guarded, OthersStay
  <2>3. Admitted(b) => Admitted(b)'
    BY Zenon, <1>1, <1>2 DEF Admitted, InNew, OthersStay
  <2> QED BY Zenon, <1>1, <1>2, <2>1, <2>2, <2>3 DEF GuardedOk, OthersStay
<1> QED BY Zenon, <1>2 DEF GuardedInv, GuardedOk

(* The live guards of an entry. *)
Holders(e) == {c \in Guarded : ent[c] = e}

(* No guard comes or goes. *)
LEMMA SameHolders ==
  ASSUME RegistryInv, count' = count, \A e \in Entries : Holders(e)' = Holders(e)
  PROVE  ConnectionsExact'
BY Zenon DEF RegistryInv, ConnectionsExact, Holders

(* The relay loops change their own place and the totals of the user. *)
RelayAny(c) ==
  \/ Reject(c) \/ StartRelay(c) \/ \E d \in Dirs : Relay(c, d) \/ Written(c, d) \/ Poll(c, d) \/ EndRelay(c, d)

(* Totals only grow. *)
LEMMA RelayWindow ==
  ASSUME RegistryInv, base' = base, reset' = reset,
         up' \in [Entries -> 0 .. MaxBytes], down' \in [Entries -> 0 .. MaxBytes],
         \A e \in Entries : up[e] <= up'[e] /\ down[e] <= down'[e]
  PROVE  WindowInv'
<1>1. \A e \in Entries : base[e] \in Nat /\ up[e] \in Nat /\ down[e] \in Nat /\ up'[e] \in Nat /\ down'[e] \in Nat
  BY RegistryAssumption DEF RegistryInv, TypeOK
<1>2. WindowBehindTotals'
  BY <1>1 DEF RegistryInv, WindowInv, WindowBehindTotals
<1>3. reset.entry \in MaybeEntries /\ reset.up \in Nat
  BY RegistryAssumption DEF RegistryInv, TypeOK
<1>4. reset'.entry # None => reset'.up <= up'[reset'.entry]
  BY <1>1, <1>3 DEF RegistryInv, WindowInv, MaybeEntries
<1> QED BY Zenon, <1>2, <1>4 DEF WindowInv

(* A relay loop keeps the invariant. *)
LEMMA RelayRegistry ==
  ASSUME RegistryInv, NEW c \in Conns, RelayAny(c)
  PROVE  RegistryInv'
<1>0. UNCHANGED <<indexVars, workVars, nextEntry, gen, revoked, quota, expires, base, count, conn, ent, pass, myGen, racers,
                  reset, now>>
  BY Zenon DEF RelayAny, Reject, StartRelay, Relay, Written, Poll, EndRelay, vars, entryVars, connVars
<1>1. relay' \in [Conns -> [Dirs -> {"none", "select", "write"}]]
  <2>1. CASE Reject(c)
    BY Zenon, <2>1 DEF Reject, RegistryInv, TypeOK, vars, connVars
  <2>s. CASE StartRelay(c)
    <3>1. [d \in Dirs |-> "select"] \in [Dirs -> {"none", "select", "write"}]
      BY Zenon
    <3> QED BY Zenon, <2>s, <3>1 DEF StartRelay, RegistryInv, TypeOK
  <2>2. ASSUME NEW d \in Dirs, Relay(c, d) \/ Written(c, d) \/ Poll(c, d) \/ EndRelay(c, d)
        PROVE  \E r \in {"none", "select", "write"} : relay' = [relay EXCEPT ![c][d] = r]
    BY Zenon, <2>2 DEF Relay, Written, Poll, EndRelay
  <2>3. ASSUME NEW d \in Dirs, NEW r \in {"none", "select", "write"}
        PROVE  [relay EXCEPT ![c][d] = r] \in [Conns -> [Dirs -> {"none", "select", "write"}]]
    BY Zenon DEF RegistryInv, TypeOK
  <2> QED BY <2>1, <2>s, <2>2, <2>3 DEF RelayAny
<1>2. /\ up' \in [Entries -> 0 .. MaxBytes] /\ down' \in [Entries -> 0 .. MaxBytes]
      /\ \A e \in Entries : up[e] <= up'[e] /\ down[e] <= down'[e]
  <2>0. up \in [Entries -> 0 .. MaxBytes] /\ down \in [Entries -> 0 .. MaxBytes] /\ MaxBytes \in Nat
    BY Zenon, RegistryAssumption DEF RegistryInv, TypeOK
  <2>1. CASE UNCHANGED <<up, down>>
    BY <2>0, <2>1
  <2>2. CASE up[ent[c]] < MaxBytes /\ up' = [up EXCEPT ![ent[c]] = @ + 1] /\ down' = down
    <3>1. \A e \in Entries : up'[e] = IF e = ent[c] THEN up[e] + 1 ELSE up[e]
      BY Zenon, <2>0, <2>2
    <3>2. \A e \in Entries : up[e] \in 0 .. MaxBytes /\ down[e] \in 0 .. MaxBytes
      BY Zenon, <2>0
    <3>3. \A e \in Entries : up'[e] \in 0 .. MaxBytes /\ up[e] <= up'[e] /\ down[e] <= down'[e]
      BY <2>0, <2>2, <3>1, <3>2
    <3> QED BY Zenon, <2>0, <2>2, <3>3
  <2>3. CASE down[ent[c]] < MaxBytes /\ down' = [down EXCEPT ![ent[c]] = @ + 1] /\ up' = up
    <3>1. \A e \in Entries : down'[e] = IF e = ent[c] THEN down[e] + 1 ELSE down[e]
      BY Zenon, <2>0, <2>3
    <3>2. \A e \in Entries : up[e] \in 0 .. MaxBytes /\ down[e] \in 0 .. MaxBytes
      BY Zenon, <2>0
    <3>3. \A e \in Entries : down'[e] \in 0 .. MaxBytes /\ up[e] <= up'[e] /\ down[e] <= down'[e]
      BY <2>0, <2>3, <3>1, <3>2
    <3> QED BY Zenon, <2>0, <2>3, <3>3
  <2> QED BY Zenon, <2>1, <2>2, <2>3 DEF RelayAny, Reject, StartRelay, Relay, Written, Poll, EndRelay, vars, entryVars
<1>3. TypeOK'
  BY Zenon, <1>0, <1>1, <1>2 DEF RegistryInv, TypeOK, indexVars, workVars
<1>4. IndexInv' /\ RevokedInv'
  <2>1. \A b \in Conns : ent'[b] < nextEntry
    BY Zenon, <1>0 DEF RegistryInv, IndexInv, Allocated
  <2> QED BY Zenon, <1>0, <2>1, IndexKept DEF replaceVars
<1>5. GuardedInv'
  BY Zenon, <1>0 DEF RegistryInv, GuardedInv, Guarded, Admitted, InNew, indexVars, workVars
<1>6. ConnectionsExact' /\ WindowInv'
  BY Zenon, <1>0, <1>2, RelayWindow, SameHolders DEF Holders, Guarded
<1> QED BY Zenon, <1>3, <1>4, <1>5, <1>6 DEF RegistryInv

(* What the steps of a connection that do not relay leave alone. *)
LEMMA ConnFrame ==
  ASSUME RegistryInv, UNCHANGED <<indexVars, workVars, nextEntry, entryVars, relay, reset, now>>,
         conn' \in [Conns -> {"new", "check", "guard", "padding", "session", "gone"}],
         ent' \in [Conns -> MaybeEntries], pass' \in [Conns -> Passwords \cup {NoPassword}],
         myGen' \in [Conns -> Nat], racers' \subseteq Conns, count' \in [Entries -> Nat],
         \A c \in Conns : ent'[c] < nextEntry
  PROVE  TypeOK' /\ IndexInv' /\ RevokedInv' /\ WindowInv' /\ UNCHANGED replaceVars
<1>1. UNCHANGED replaceVars
  BY Zenon DEF replaceVars, entryVars
<1>2. TypeOK'
  BY Zenon DEF RegistryInv, TypeOK, indexVars, workVars, entryVars
<1>3. WindowInv'
  BY Zenon DEF RegistryInv, WindowInv, WindowBehindTotals, entryVars
<1> QED BY Zenon, <1>1, <1>2, <1>3, IndexKept

(* A lookup under the lock finds a user listed under the password. *)
LEMMA LookupRegistry ==
  ASSUME RegistryInv, NEW c \in Conns, Lookup(c)
  PROVE  RegistryInv'
<1>0. PICK p \in Passwords : byHash[p] # None /\ ent' = [ent EXCEPT ![c] = byHash[p]] /\ pass' = [pass EXCEPT ![c] = p]
  BY Zenon DEF Lookup
<1>t. TypeOK /\ IndexInv /\ count' = count /\ racers' = racers /\ myGen' = myGen
  BY Zenon DEF RegistryInv, Lookup
<1>1. byHash[p] \in Entries /\ byHash[p] < nextEntry
  BY <1>0, <1>t DEF TypeOK, MaybeEntries, IndexInv, Consistent, Allocated
<1>c. conn[c] = "new" /\ conn' = [conn EXCEPT ![c] = "check"]
  BY Zenon DEF Lookup
<1>2. /\ conn' \in [Conns -> {"new", "check", "guard", "padding", "session", "gone"}]
      /\ ent' \in [Conns -> MaybeEntries] /\ pass' \in [Conns -> Passwords \cup {NoPassword}]
  BY Zenon, <1>0, <1>1, <1>c, <1>t DEF TypeOK, MaybeEntries
<1>3. \A b \in Conns : ent'[b] < nextEntry
  BY Zenon, <1>0, <1>1, <1>t DEF TypeOK, IndexInv, Allocated
<1>4. TypeOK' /\ IndexInv' /\ RevokedInv' /\ WindowInv' /\ UNCHANGED replaceVars
  BY Zenon, <1>2, <1>3, <1>t, ConnFrame DEF Lookup, TypeOK
<1>5. conn'[c] = "check" /\ ent'[c] = byHash[p] /\ pass'[c] = p
  BY Zenon, <1>0, <1>c, <1>t DEF TypeOK
<1>6. Admitted(c)'
  <2>1. newHash' = byHash /\ byHash' = byHash
    BY Zenon, <1>t DEF Lookup, IndexInv, Built, workVars, indexVars
  <2> QED BY Zenon, <1>5, <2>1 DEF Admitted
<1>7. GuardedOk(c)'
  BY Zenon, <1>1, <1>5, <1>6 DEF GuardedOk, Guarded
<1>8. OthersStay(c)
  BY Zenon, <1>0, <1>c, <1>t DEF TypeOK, OthersStay
<1>9. GuardedInv'
  BY Zenon, <1>4, <1>7, <1>8, OneConnection
<1>10. \A e \in Entries : Holders(e)' = Holders(e)
  BY Zenon, <1>5, <1>8, <1>c DEF Holders, Guarded, OthersStay
<1> QED BY Zenon, <1>4, <1>9, <1>10, <1>t, SameHolders DEF RegistryInv

(* A slot that is freed is as good as new. *)
LEMMA FreedFacts ==
  ASSUME RegistryInv, NEW c \in Conns, Freed(c)
  PROVE  /\ conn' \in [Conns -> {"new", "check", "guard", "padding", "session", "gone"}]
         /\ ent' \in [Conns -> MaybeEntries] /\ pass' \in [Conns -> Passwords \cup {NoPassword}]
         /\ myGen' \in [Conns -> Nat] /\ racers' \subseteq Conns
         /\ \A b \in Conns : ent'[b] < nextEntry
         /\ conn'[c] = "new" /\ GuardedOk(c)' /\ OthersStay(c)
<1> USE DEF RegistryInv, Freed
<1>1. /\ conn' \in [Conns -> {"new", "check", "guard", "padding", "session", "gone"}]
      /\ pass' \in [Conns -> Passwords \cup {NoPassword}] /\ conn'[c] = "new"
  BY Zenon DEF TypeOK
<1>2. ent' \in [Conns -> MaybeEntries] /\ myGen' \in [Conns -> Nat] /\ racers' \subseteq Conns
  BY Zenon DEF TypeOK, MaybeEntries
<1>3. None < nextEntry
  BY DEF TypeOK, None
<1>4. \A b \in Conns : ent'[b] < nextEntry
  BY Zenon, <1>3 DEF TypeOK, IndexInv, Allocated
<1>5. OthersStay(c)
  BY Zenon DEF TypeOK, OthersStay
<1> QED BY Zenon, <1>1, <1>2, <1>4, <1>5 DEF GuardedOk

(* deny_reason lets the connection go on, or frees its slot. *)
LEMMA CheckRegistry ==
  ASSUME RegistryInv, NEW c \in Conns, Check(c)
  PROVE  RegistryInv'
<1>t. TypeOK /\ count' = count /\ conn[c] = "check"
  BY Zenon DEF RegistryInv, Check
<1>1. CASE Freed(c)
  <2>1. TypeOK' /\ IndexInv' /\ RevokedInv' /\ WindowInv' /\ UNCHANGED replaceVars
    BY Zenon, <1>1, <1>t, FreedFacts, ConnFrame DEF Check, TypeOK
  <2>f. conn'[c] = "new" /\ GuardedOk(c)' /\ OthersStay(c)
    BY Zenon, <1>1, FreedFacts
  <2>2. GuardedInv'
    BY Zenon, <2>1, <2>f, OneConnection
  <2>3. \A e \in Entries : Holders(e)' = Holders(e)
    BY Zenon, <1>t, <2>f DEF Holders, Guarded, OthersStay
  <2> QED BY Zenon, <2>1, <2>2, <2>3, <1>t, SameHolders DEF RegistryInv
<1>2. CASE conn' = [conn EXCEPT ![c] = "guard"] /\ UNCHANGED <<ent, pass, myGen, racers>>
  <2>1. \A b \in Conns : ent'[b] < nextEntry
    BY Zenon, <1>2 DEF RegistryInv, IndexInv, Allocated
  <2>2. TypeOK' /\ IndexInv' /\ RevokedInv' /\ WindowInv' /\ UNCHANGED replaceVars
    BY Zenon, <1>2, <1>t, <2>1, ConnFrame DEF Check, TypeOK
  <2>3. \A b \in Conns : (b \in Guarded' <=> b \in Guarded) /\ (conn'[b] = "new" <=> conn[b] = "new")
    BY Zenon, <1>2, <1>t DEF TypeOK, Guarded
  <2>4. UNCHANGED <<byHash, newEmail, newHash, gen, revoked>>
    BY Zenon, <2>2 DEF replaceVars, indexVars, workVars
  <2>5. GuardedInv'
    BY Zenon, <1>2, <2>3, <2>4 DEF RegistryInv, GuardedInv, Admitted, InNew
  <2>6. \A e \in Entries : Holders(e)' = Holders(e)
    BY Zenon, <1>2, <2>3 DEF Holders, Guarded
  <2> QED BY Zenon, <1>t, <2>2, <2>5, <2>6, SameHolders DEF RegistryInv
<1> QED BY Zenon, <1>1, <1>2 DEF Check

(* The guards of an entry are finitely many. *)
LEMMA HoldersFinite ==
  ASSUME NEW e
  PROVE  IsFiniteSet(Holders(e)) /\ Cardinality(Holders(e)) \in Nat
BY Zenon, FS_Subset, FS_CardinalityType, RegistryAssumption DEF Holders, Guarded

(* AuthedUser::new reads the generation of now, and counts one more. *)
LEMMA GuardRegistry ==
  ASSUME RegistryInv, NEW c \in Conns, Guard(c)
  PROVE  RegistryInv'
<1> DEFINE u == ent[c]
<1>t. TypeOK /\ conn[c] = "guard" /\ UNCHANGED <<ent, pass, racers>>
  BY Zenon DEF RegistryInv, Guard
<1>1. u \in Entries /\ pass[c] \in Passwords /\ (c \notin racers => revoked[u] \/ Admitted(c))
  BY Zenon, <1>t DEF RegistryInv, GuardedInv, Guarded
<1>2. /\ conn' = [conn EXCEPT ![c] = "padding"] /\ myGen' = [myGen EXCEPT ![c] = gen[u]]
      /\ count' = [count EXCEPT ![u] = count[u] + 1]
  BY Zenon DEF Guard, More
<1>3. /\ conn' \in [Conns -> {"new", "check", "guard", "padding", "session", "gone"}]
      /\ myGen' \in [Conns -> Nat] /\ count' \in [Entries -> Nat]
  BY <1>1, <1>2, <1>t DEF TypeOK
<1>4. \A b \in Conns : ent'[b] < nextEntry
  BY Zenon, <1>t DEF RegistryInv, IndexInv, Allocated
<1>5. TypeOK' /\ IndexInv' /\ RevokedInv' /\ WindowInv' /\ UNCHANGED replaceVars
  BY Zenon, <1>3, <1>4, <1>t, ConnFrame DEF Guard, TypeOK
<1>6. conn'[c] = "padding" /\ myGen'[c] = gen[u] /\ OthersStay(c)
  BY Zenon, <1>2, <1>t DEF TypeOK, OthersStay
<1>7. GuardedOk(c)'
  <2>1. UNCHANGED <<byHash, newEmail, newHash, gen, revoked>>
    BY Zenon, <1>5 DEF replaceVars, indexVars, workVars
  <2>2. Admitted(c) => Admitted(c)'
    BY Zenon, <1>t, <2>1 DEF Admitted, InNew
  <2>3. gen[u] \in Nat
    BY Zenon, <1>1, <1>t DEF TypeOK
  <2> QED BY <1>1, <1>6, <1>t, <2>1, <2>2, <2>3 DEF GuardedOk
<1>8. GuardedInv'
  BY Zenon, <1>5, <1>6, <1>7, OneConnection
<1>9. ConnectionsExact'
  <2> SUFFICES ASSUME NEW e \in Entries
               PROVE  count'[e] = Cardinality(Holders(e)')
    BY Zenon DEF ConnectionsExact, Holders
  <2>0. count[e] = Cardinality(Holders(e)) /\ IsFiniteSet(Holders(e))
    BY Zenon, HoldersFinite DEF RegistryInv, ConnectionsExact, Holders
  <2>1. CASE e = u
    <3>1. Holders(e)' = Holders(e) \cup {c} /\ c \notin Holders(e)
      BY Zenon, <1>6, <1>t, <2>1 DEF Holders, Guarded, OthersStay
    <3>2. Cardinality(Holders(e)') = Cardinality(Holders(e)) + 1
      BY Zenon, <2>0, <3>1, FS_AddElement
    <3> QED BY Zenon, <1>1, <1>2, <1>t, <2>0, <2>1, <3>2 DEF TypeOK
  <2>2. CASE e # u
    <3>1. Holders(e)' = Holders(e)
      BY Zenon, <1>6, <1>t, <2>2 DEF Holders, Guarded, OthersStay
    <3> QED BY Zenon, <1>1, <1>2, <1>t, <2>0, <2>2, <3>1 DEF TypeOK
  <2> QED BY Zenon, <2>1, <2>2
<1> QED BY Zenon, <1>5, <1>8, <1>9 DEF RegistryInv

(* AuthedUser::drop counts one less, of at least one. *)
LEMMA DropRegistry ==
  ASSUME RegistryInv, NEW c \in Conns, c \in Guarded, DropGuard(c),
         UNCHANGED <<indexVars, workVars, nextEntry, entryVars, relay, reset, now>>
  PROVE  RegistryInv'
<1>t. TypeOK
  BY Zenon DEF RegistryInv
<1>f. conn'[c] = "new" /\ GuardedOk(c)' /\ OthersStay(c)
  BY Zenon, FreedFacts DEF DropGuard
<1>1. PICK u \in Entries : u = ent[c]
  BY Zenon DEF RegistryInv, GuardedInv, Guarded
<1>2. count' = [count EXCEPT ![u] = count[u] - 1]
  BY Zenon, <1>1 DEF DropGuard
<1>h. \A e \in Entries : count[e] = Cardinality(Holders(e)) /\ IsFiniteSet(Holders(e)) /\ Cardinality(Holders(e)) \in Nat
  BY Zenon, HoldersFinite DEF RegistryInv, ConnectionsExact, Holders
<1>3. Holders(u)' = Holders(u) \ {c} /\ c \in Holders(u)
  BY Zenon, <1>1, <1>f DEF Holders, Guarded, OthersStay
<1>4. Cardinality(Holders(u)') = Cardinality(Holders(u)) - 1 /\ Cardinality(Holders(u)') \in Nat
  BY <1>1, <1>3, <1>h, FS_RemoveElement, FS_CardinalityType
<1>p. \A e \in Entries : count'[e] = IF e = u THEN count[e] - 1 ELSE count[e]
  BY Zenon, <1>2, <1>t DEF TypeOK
<1>5. count' \in [Entries -> Nat]
  <2>1. count[u] - 1 \in Nat
    BY Zenon, <1>1, <1>4, <1>h
  <2> QED BY Zenon, <1>2, <2>1, <1>t DEF TypeOK
<1>6. TypeOK' /\ IndexInv' /\ RevokedInv' /\ WindowInv' /\ UNCHANGED replaceVars
  BY Zenon, <1>5, FreedFacts, ConnFrame DEF DropGuard
<1>7. GuardedInv'
  BY Zenon, <1>6, <1>f, OneConnection
<1>8. ConnectionsExact'
  <2> SUFFICES ASSUME NEW e \in Entries
               PROVE  count'[e] = Cardinality(Holders(e)')
    BY Zenon DEF ConnectionsExact, Holders
  <2>1. CASE e = u
    BY Zenon, <1>p, <1>4, <1>h, <2>1
  <2>2. CASE e # u
    <3>1. Holders(e)' = Holders(e)
      BY Zenon, <1>1, <1>f, <2>2 DEF Holders, Guarded, OthersStay
    <3> QED BY Zenon, <1>p, <1>h, <2>2, <3>1
  <2> QED BY Zenon, <2>1, <2>2
<1> QED BY Zenon, <1>6, <1>7, <1>8 DEF RegistryInv

(* A guarded connection that moves on stays guarded. *)
LEMMA MoveRegistry ==
  ASSUME RegistryInv, NEW c \in Conns, c \in Guarded, NEW l \in {"session", "gone"},
         conn' = [conn EXCEPT ![c] = l],
         UNCHANGED <<indexVars, workVars, nextEntry, entryVars, count, ent, pass, myGen, racers, relay, reset, now>>
  PROVE  RegistryInv'
<1>t. TypeOK
  BY Zenon DEF RegistryInv
<1>1. conn' \in [Conns -> {"new", "check", "guard", "padding", "session", "gone"}]
  BY Zenon, <1>t DEF TypeOK
<1>2. \A b \in Conns : ent'[b] < nextEntry
  BY Zenon DEF RegistryInv, IndexInv, Allocated
<1>3. TypeOK' /\ IndexInv' /\ RevokedInv' /\ WindowInv' /\ UNCHANGED replaceVars
  BY Zenon, <1>1, <1>2, <1>t, ConnFrame DEF TypeOK
<1>4. \A b \in Conns : (b \in Guarded' <=> b \in Guarded) /\ (conn'[b] = "new" <=> conn[b] = "new")
  BY Zenon, <1>t DEF TypeOK, Guarded
<1>5. UNCHANGED <<byHash, newEmail, newHash, gen, revoked>>
  BY Zenon, <1>3 DEF replaceVars, indexVars, workVars
<1>6. GuardedInv'
  BY ZenonT(30), <1>4, <1>5 DEF RegistryInv, GuardedInv, Admitted, InNew
<1>7. \A e \in Entries : Holders(e)' = Holders(e)
  BY Zenon, <1>4 DEF Holders, Guarded
<1> QED BY Zenon, <1>3, <1>6, <1>7, SameHolders DEF RegistryInv

(* Every step of a connection keeps the invariant. *)
LEMMA ConnRegistry ==
  ASSUME RegistryInv, NEW c \in Conns, ConnStep(c)
  PROVE  RegistryInv'
<1>1. CASE Approve(c)
  <2>1. c \in Guarded
    BY Zenon, <1>1 DEF Approve, Guarded
  <2>2. CASE DropGuard(c)
    BY Zenon, <1>1, <2>1, <2>2, DropRegistry DEF Approve
  <2>3. CASE conn' = [conn EXCEPT ![c] = "session"] /\ UNCHANGED <<ent, pass, myGen, racers, count>>
    BY Zenon, <1>1, <2>1, <2>3, MoveRegistry DEF Approve
  <2> QED BY Zenon, <1>1, <2>2, <2>3 DEF Approve
<1>2. CASE Disconnect(c)
  BY Zenon, <1>2, MoveRegistry DEF Disconnect, Guarded
<1>3. CASE Release(c)
  BY Zenon, <1>3, DropRegistry DEF Release, Guarded
<1> QED BY Zenon, <1>1, <1>2, <1>3, LookupRegistry, CheckRegistry, GuardRegistry, RelayRegistry DEF ConnStep, RelayAny

(* reset-quota reads and stores totals that only grow meanwhile. *)
LEMMA ResetRegistry ==
  ASSUME RegistryInv, (\E m \in Emails : ResetStart(m)) \/ ResetStore
  PROVE  RegistryInv'
<1>0. UNCHANGED <<indexVars, workVars, nextEntry, gen, revoked, quota, expires, up, down, count, conn, ent, pass, myGen,
                  relay, racers, now>>
  BY Zenon DEF ResetStart, ResetStore, entryVars, connVars
<1>t. TypeOK
  BY Zenon DEF RegistryInv
<1>m. MaxBytes \in Nat /\ \A e \in Entries : up[e] \in 0 .. MaxBytes /\ down[e] \in 0 .. MaxBytes
  BY Zenon, <1>t, RegistryAssumption DEF TypeOK
<1> DEFINE Goal == reset' \in [entry : MaybeEntries, up : 0 .. MaxBytes] /\ base' \in [Entries -> Nat] /\ WindowInv'
<1>1. Goal
  <2>1. ASSUME NEW m \in Emails, ResetStart(m)
        PROVE  Goal
    <3>1. byEmail[m] \in Entries /\ reset' = [entry |-> byEmail[m], up |-> up[byEmail[m]]] /\ base' = base
      BY Zenon, <1>t, <2>1 DEF ResetStart, entryVars, TypeOK, MaybeEntries
    <3>2. reset' \in [entry : MaybeEntries, up : 0 .. MaxBytes]
      BY Zenon, <1>m, <3>1 DEF MaybeEntries
    <3>3. reset'.up <= up'[reset'.entry]
      BY <1>0, <1>m, <3>1
    <3> QED BY Zenon, <1>0, <1>t, <3>1, <3>2, <3>3 DEF RegistryInv, WindowInv, WindowBehindTotals, TypeOK
  <2>2. CASE ResetStore
    <3>1. reset.entry \in Entries /\ reset.up \in 0 .. MaxBytes
      BY Zenon, <1>t, <2>2 DEF ResetStore, TypeOK, MaybeEntries
    <3>2. reset.up <= up[reset.entry]
      BY Zenon, <2>2 DEF ResetStore, RegistryInv, WindowInv
    <3>3. base' = [base EXCEPT ![reset.entry] = reset.up + down[reset.entry]]
      BY Zenon, <2>2 DEF ResetStore, NewBase
    <3>4. reset.up + down[reset.entry] \in Nat
      BY <1>m, <3>1
    <3>5. base' \in [Entries -> Nat]
      BY Zenon, <1>t, <3>3, <3>4 DEF TypeOK
    <3>6. \A e \in Entries : base'[e] = IF e = reset.entry THEN reset.up + down[reset.entry] ELSE base[e]
      BY Zenon, <1>t, <3>3 DEF TypeOK
    <3>7. WindowBehindTotals'
      BY <1>0, <1>m, <3>1, <3>2, <3>6 DEF RegistryInv, WindowInv, WindowBehindTotals
    <3>8. reset' = [entry |-> None, up |-> 0]
      BY Zenon, <2>2 DEF ResetStore
    <3> QED BY <1>m, <3>5, <3>7, <3>8 DEF WindowInv, MaybeEntries
  <2> QED BY Zenon, <2>1, <2>2
<1>2. TypeOK'
  BY Zenon, <1>0, <1>1, <1>t DEF TypeOK, indexVars, workVars
<1>3. IndexInv' /\ RevokedInv'
  <2>1. \A b \in Conns : ent'[b] < nextEntry
    BY Zenon, <1>0 DEF RegistryInv, IndexInv, Allocated
  <2> QED BY Zenon, <1>0, <2>1, IndexKept DEF replaceVars
<1>4. GuardedInv'
  BY Zenon, <1>0 DEF RegistryInv, GuardedInv, Guarded, Admitted, InNew, indexVars, workVars
<1>5. ConnectionsExact'
  BY Zenon, <1>0, SameHolders DEF Holders, Guarded
<1> QED BY Zenon, <1>1, <1>2, <1>3, <1>4, <1>5 DEF RegistryInv

(* Time passes, or nothing moves. *)
LEMMA TickRegistry ==
  ASSUME RegistryInv, Tick \/ UNCHANGED vars
  PROVE  RegistryInv'
<1>0. UNCHANGED <<indexVars, workVars, nextEntry, entryVars, count, conn, ent, pass, myGen, relay, racers, reset>>
  BY Zenon DEF Tick, vars, connVars
<1>1. now' \in 0 .. MaxTime
  BY RegistryAssumption DEF RegistryInv, TypeOK, Tick, vars
<1>2. TypeOK'
  BY Zenon, <1>0, <1>1 DEF RegistryInv, TypeOK, indexVars, workVars, entryVars
<1>3. IndexInv' /\ RevokedInv'
  <2>1. \A b \in Conns : ent'[b] < nextEntry
    BY Zenon, <1>0 DEF RegistryInv, IndexInv, Allocated
  <2> QED BY Zenon, <1>0, <2>1, IndexKept DEF replaceVars, entryVars
<1>4. GuardedInv'
  BY Zenon, <1>0 DEF RegistryInv, GuardedInv, Guarded, Admitted, InNew, indexVars, workVars, entryVars
<1>5. ConnectionsExact' /\ WindowInv'
  BY Zenon, <1>0, SameHolders DEF Holders, Guarded, RegistryInv, WindowInv, WindowBehindTotals, entryVars
<1> QED BY Zenon, <1>2, <1>3, <1>4, <1>5 DEF RegistryInv

-----------------------------------------------------------------------------
(* The invariant, and the properties.                                      *)

(* An empty registry without connections. *)
LEMMA InitRegistry == Init => RegistryInv
<1> SUFFICES ASSUME Init
             PROVE  RegistryInv
  BY Zenon
<1>1. NumEmails * MaxReplaces \in Nat /\ NumEmails * 0 + 1 = 1 /\ NumEmails \in Nat \ {0}
  BY RegistryAssumption, ProductType
<1>2. nextEntry \in 1 .. NumEmails * MaxReplaces + 1
  BY <1>1 DEF Init
<1>3. TypeOK
  BY <1>1, <1>2, RegistryAssumption DEF Init, TypeOK, MaybeEntries, Specs
<1>4. Allocated /\ Built /\ RevokedInv
  BY <1>1 DEF Init, Allocated, Built, RevokedInv, None, Entries
<1>5. Consistent(byEmail, byHash) /\ Consistent(newEmail, newHash)
  BY Zenon DEF Init, Consistent
<1>6. GuardedInv /\ WindowInv
  BY DEF Init, GuardedInv, WindowInv, WindowBehindTotals
<1>7. \A e \in Entries : {c \in Guarded : ent[c] = e} = {}
  BY Zenon DEF Init, Guarded
<1>8. ConnectionsExact
  BY Zenon, <1>7, FS_EmptySet DEF Init, ConnectionsExact
<1> QED BY Zenon, <1>3, <1>4, <1>5, <1>6, <1>8 DEF RegistryInv, IndexInv

(* Every step keeps the invariant. *)
LEMMA NextRegistry == RegistryInv /\ [Next]_vars => RegistryInv'
BY Zenon, StartRegistry, SpecRegistry, CommitRegistry, ConnRegistry, ResetRegistry, TickRegistry DEF Next

(* The invariant holds in every state. *)
THEOREM RegistryInvariant == Spec => []RegistryInv
BY InitRegistry, NextRegistry, PTL DEF Spec

(* Every variable of the registry, of its entries and of its connections   *)
(* keeps its type (UserEntry, Index, AuthedUser).                          *)
THEOREM RegistryTypes == Spec => []TypeOK
<1>1. RegistryInv => TypeOK
  BY Zenon DEF RegistryInv
<1> QED BY <1>1, RegistryInvariant, PTL

(* replace leaves an index in which emails, entries and passwords agree.   *)
THEOREM IndexAgrees == Spec => []IndexConsistent
<1>1. RegistryInv => IndexConsistent
  BY Zenon, ConsistentIndex DEF RegistryInv, IndexInv
<1> QED BY <1>1, RegistryInvariant, PTL

(* Between two replaces, the revoked entries are those no longer listed.   *)
THEOREM RevokedExactly == Spec => []RevokedIffUnlisted
<1>1. RegistryInv => RevokedIffUnlisted
  BY Zenon, RevokedUnlisted DEF RegistryInv, IndexInv
<1> QED BY <1>1, RegistryInvariant, PTL

(* connections counts the live guards of every entry.                      *)
THEOREM CountsExact == Spec => []ConnectionsExact
<1>1. RegistryInv => ConnectionsExact
  BY Zenon DEF RegistryInv
<1> QED BY <1>1, RegistryInvariant, PTL

(* A reset never puts the quota window ahead of the totals.                *)
THEOREM WindowBehind == Spec => []WindowBehindTotals
<1>1. RegistryInv => WindowBehindTotals
  BY Zenon DEF RegistryInv, WindowInv
<1> QED BY <1>1, RegistryInvariant, PTL

(* A connection that outlives a change of its user's password, neither     *)
(* retired nor revoked, was authenticating when the password changed.      *)
THEOREM RekeyRetires == Spec => []OnlyRacersOutliveRekey
<1>1. RegistryInv => OnlyRacersOutliveRekey
  <2> SUFFICES ASSUME RegistryInv, NEW c \in Guarded \ racers
               PROVE  gen[ent[c]] # myGen[c] \/ revoked[ent[c]] \/ byHash[pass[c]] = ent[c]
    BY Zenon DEF OnlyRacersOutliveRekey
  <2>1. c \in Conns /\ conn[c] # "new"
    BY Zenon DEF Guarded
  <2> QED BY Zenon, <2>1 DEF RegistryInv, GuardedInv, Admitted
<1> QED BY <1>1, RegistryInvariant, PTL

(* A guarded connection keeps its user and generation until it is freed. *)
LEMMA GuardKept ==
  ASSUME RegistryInv, [Next]_vars, NEW c \in Guarded, conn'[c] # "new"
  PROVE  ent'[c] = ent[c] /\ myGen'[c] = myGen[c]
<1>t. TypeOK /\ c \in Conns /\ conn[c] \in {"padding", "session", "gone"}
  BY Zenon DEF RegistryInv, Guarded
<1>1. CASE UNCHANGED <<ent, myGen>>
  BY Zenon, <1>1
<1>2. ASSUME NEW b \in Conns, Freed(b)
      PROVE  ent'[c] = ent[c] /\ myGen'[c] = myGen[c]
  BY Zenon, <1>t, <1>2 DEF Freed, TypeOK
<1>3. ASSUME NEW b \in Conns, Lookup(b) \/ Guard(b)
      PROVE  ent'[c] = ent[c] /\ myGen'[c] = myGen[c]
  BY ZenonT(30), <1>t, <1>3 DEF Lookup, Guard, TypeOK
<1>4. ASSUME NEW b \in Conns, ConnStep(b)
      PROVE  ent'[c] = ent[c] /\ myGen'[c] = myGen[c]
  BY Zenon, <1>1, <1>2, <1>3, <1>4 DEF ConnStep, Check, Approve, Release, DropGuard, Reject, StartRelay, Disconnect, Relay,
     Written, Poll, EndRelay, vars, connVars
<1>5. CASE ReplaceStart \/ ReplaceSpec \/ ReplaceCommit \/ (\E m \in Emails : ResetStart(m)) \/ ResetStore \/ Tick
           \/ UNCHANGED vars
  BY Zenon, <1>1, <1>5 DEF ReplaceStart, ReplaceSpec, ReplaceCommit, ResetStart, ResetStore, Tick, vars, connVars
<1> QED BY Zenon, <1>4, <1>5 DEF Next

(* Only a round of replace changes a generation. *)
LEMMA GenKept ==
  ASSUME [Next]_vars, ~ReplaceSpec
  PROVE  gen' = gen
BY ZenonT(30) DEF Next, ReplaceStart, ReplaceCommit, ConnStep, Lookup, Reject, Check, Guard, Approve, StartRelay,
   Disconnect, Release, Relay, Written, Poll, EndRelay, ResetStart, ResetStore, Tick, vars, entryVars

(* It changes the generation of the entry of its own email, by one, and    *)
(* only if the password is another one.                                    *)
LEMMA GenGrows ==
  ASSUME RegistryInv, ReplaceSpec, NEW e \in Entries, gen'[e] # gen[e]
  PROVE  gen'[e] = gen[e] + 1 /\ e = byEmail[next] /\ byHash[req[next].password] # e
<1>1. ~Skipped(req[next].password) /\ \E u : Publishes(u, req[next].password)
  BY Zenon, SpecCases
<1>2. PICK u : Publishes(u, req[next].password)
  BY Zenon, <1>1
<1>3. u = byEmail[next] /\ Rekeyed(u, req[next].password) /\ gen' = [gen EXCEPT ![u] = gen[u] + 1]
  BY Zenon, <1>2 DEF Publishes, NextGen
<1> QED BY Zenon, <1>3 DEF Rekeyed, RegistryInv, TypeOK

(* A retired connection stays retired for as long as it lasts: generations *)
(* only grow, and a guard read one that was current.                       *)
THEOREM RetiredStays == Spec => RetiredForGood
<1> DEFINE Stays == \A c \in Guarded : gen[ent[c]] # myGen[c] /\ conn'[c] # "new" => (gen[ent[c]] # myGen[c])'
<1>1. RegistryInv /\ [Next]_vars => Stays
  <2> SUFFICES ASSUME RegistryInv, [Next]_vars, NEW c \in Guarded, gen[ent[c]] # myGen[c], conn'[c] # "new"
               PROVE  (gen[ent[c]] # myGen[c])'
    BY Zenon
  <2>1. ent'[c] = ent[c] /\ myGen'[c] = myGen[c]
    BY Zenon, GuardKept
  <2>2. c \in Conns /\ conn[c] # "new"
    BY Zenon DEF Guarded
  <2>3. ent[c] \in Entries /\ myGen[c] <= gen[ent[c]] /\ gen[ent[c]] \in Nat /\ myGen[c] \in Nat
    BY Zenon, <2>2 DEF RegistryInv, GuardedInv, TypeOK
  <2>4. gen'[ent[c]] = gen[ent[c]] \/ gen'[ent[c]] = gen[ent[c]] + 1
    BY Zenon, <2>3, GenKept, GenGrows
  <2>5. gen'[ent[c]] # myGen[c]
    BY <2>3, <2>4
  <2> QED BY Zenon, <2>1, <2>5
<1>2. RegistryInv /\ [Next]_vars => [Stays]_vars
  BY Zenon, <1>1
<1> HIDE DEF Stays
<1>3. Spec => [][Stays]_vars
  BY <1>2, RegistryInvariant, PTL DEF Spec
<1> QED BY Zenon, <1>3 DEF RetiredForGood, Stays

(* A replace neither retires nor revokes a user whose password it leaves   *)
(* alone, unless a user applied earlier takes that password.               *)
THEOREM UntouchedStay == Spec => UntouchedKeep
<1> DEFINE Kept(m) == gen'[byEmail[m]] = gen[byEmail[m]] /\ revoked'[byEmail[m]] = revoked[byEmail[m]]
           Stay == lock = "write" => \A m \in Emails : Keeps(m) => Kept(m)
<1>1. RegistryInv /\ [Next]_vars => Stay
  <2> SUFFICES ASSUME RegistryInv, [Next]_vars, lock = "write", NEW m \in Emails, Keeps(m)
               PROVE  Kept(m)
    BY Zenon
  <2>t. TypeOK /\ IndexInv
    BY Zenon DEF RegistryInv
  <2>1. byEmail[m] \in Entries /\ \A n \in Emails : byEmail[n] = byEmail[m] => n = m
    <3>1. byEmail[m] \in MaybeEntries /\ byEmail[m] # None /\ Consistent(byEmail, byHash)
      BY Zenon, <2>t DEF Keeps, TypeOK, IndexInv
    <3> QED BY <3>1 DEF MaybeEntries, Consistent
  <2>2. gen'[byEmail[m]] = gen[byEmail[m]]
    <3>1. CASE ReplaceSpec
      <4>1. next \in Emails
        BY Zenon, <3>1 DEF ReplaceSpec
      <4> QED BY Zenon, <2>1, <3>1, <4>1, GenGrows DEF Keeps
    <3> QED BY Zenon, <3>1, GenKept
  <2>3. CASE ReplaceCommit
    <3>1. m < next
      <4>1. next \notin Emails /\ next \in 1 .. NumEmails + 1
        BY Zenon, <2>3, <2>t DEF ReplaceCommit, TypeOK
      <4> QED BY <4>1, RegistryAssumption DEF Emails
    <3>2. req[m].password \in Passwords
      <4>1. req[m] \in Specs /\ req[m].password # NoPassword
        BY Zenon, <2>t DEF Keeps, TypeOK
      <4> QED BY <4>1 DEF Specs, Absent
    <3>3. newEmail[m] # None
      <4> SUFFICES ASSUME newEmail[m] = None
                   PROVE  FALSE
        BY Zenon
      <4>1. PICK n \in Emails : n < m /\ req[n].password = req[m].password
        BY Zenon, <2>t, <3>1, <3>2 DEF IndexInv, Built
      <4>2. n \in 1 .. m - 1
        BY <4>1, RegistryAssumption DEF Emails
      <4> QED BY Zenon, <4>1, <4>2 DEF Keeps
    <3>4. byEmail[m] \notin Dropped
      BY Zenon, <2>1, <3>3 DEF Dropped
    <3>5. revoked' = [e \in Entries |-> revoked[e] \/ e \in Dropped] /\ revoked[byEmail[m]] \in BOOLEAN
      BY Zenon, <2>1, <2>3, <2>t DEF ReplaceCommit, TypeOK
    <3> QED BY Zenon, <2>1, <2>2, <3>4, <3>5
  <2>4. CASE ~ReplaceCommit
    <3>1. revoked' = revoked
      BY ZenonT(30), <2>4 DEF Next, ReplaceStart, ReplaceSpec, ConnStep, Lookup, Reject, Check, Guard, Approve, StartRelay,
         Disconnect, Release, Relay, Written, Poll, EndRelay, ResetStart, ResetStore, Tick, vars, entryVars
    <3> QED BY Zenon, <2>2, <3>1
  <2> QED BY Zenon, <2>3, <2>4
<1>2. RegistryInv /\ [Next]_vars => [Stay]_vars
  BY Zenon, <1>1
<1> HIDE DEF Stay
<1>3. Spec => [][Stay]_vars
  BY <1>2, RegistryInvariant, PTL DEF Spec
<1> QED BY Zenon, <1>3 DEF UntouchedKeep, Stay
=============================================================================
