-------------------------- MODULE UserRegistryInv ---------------------------
(***************************************************************************)
(* The inductive invariant of UserRegistry.                                *)
(*                                                                         *)
(* It follows a replace from its first spec to its commit: the maps it     *)
(* builds are consistent at every step, what they list is what the index   *)
(* lists under the same email or an entry that is new, and a connection    *)
(* either will find its user under its password in the new index as well,  *)
(* or is retired, revoked or a racer.                                      *)
(***************************************************************************)
EXTENDS UserRegistry

(* The entry of an email has one password, the entry of a password one     *)
(* email.                                                                  *)
Consistent(em, ha) ==
  /\ \A p \in Passwords : ha[p] # None => \E m \in Emails : em[m] = ha[p]
  /\ \A m \in Emails : em[m] # None => \E p \in Passwords : \A q \in Passwords : ha[q] = em[m] <=> q = p
  /\ \A m, n \in Emails : em[m] # None /\ em[m] = em[n] => m = n

(* Entries are allocated in turn, and only those are referred to. *)
Allocated ==
  /\ lock = "write" => replaces >= 1 /\ nextEntry <= NumEmails * (replaces - 1) + next
  /\ lock = "free" => nextEntry <= NumEmails * replaces + 1
  /\ \A m \in Emails : byEmail[m] < nextEntry /\ newEmail[m] < nextEntry
  /\ \A c \in Conns : ent[c] < nextEntry
  /\ \A e \in Entries : e >= nextEntry => ~revoked[e]

(* Where the entries of the new maps come from. *)
Built ==
  /\ lock = "free" => newEmail = byEmail /\ newHash = byHash
  /\ lock = "write" =>
       /\ \A m \in Emails : newEmail[m] # None =>
            m < next /\ (newEmail[m] = byEmail[m] \/ (byEmail[m] = None /\ \A n \in Emails : byEmail[n] # newEmail[m]))
       /\ \A p \in Passwords : newHash[p] # None => \E n \in Emails : n < next /\ req[n].password = p
       /\ \A m \in Emails : m < next /\ newEmail[m] = None /\ req[m].password \in Passwords =>
            \E n \in Emails : n < m /\ req[n].password = req[m].password

IndexInv == Allocated /\ Built /\ Consistent(byEmail, byHash) /\ Consistent(newEmail, newHash)

InNew(e) == \E m \in Emails : newEmail[m] = e
InOld(e) == \E m \in Emails : byEmail[m] = e

(* Only an entry that neither index lists is revoked. *)
RevokedInv == \A e \in 1 .. nextEntry - 1 : revoked[e] <=> ~InOld(e) /\ ~InNew(e)

(* The password of c leads to its user, in the new index too. *)
Admitted(c) == byHash[pass[c]] = ent[c] /\ (InNew(ent[c]) => newHash[pass[c]] = ent[c])

GuardedInv ==
  \A c \in Conns : conn[c] # "new" =>
    /\ ent[c] \in Entries /\ pass[c] \in Passwords
    /\ c \in Guarded => myGen[c] <= gen[ent[c]]
    /\ c \notin racers => (c \in Guarded /\ gen[ent[c]] # myGen[c]) \/ revoked[ent[c]] \/ Admitted(c)

WindowInv == WindowBehindTotals /\ (reset.entry # None => reset.up <= up[reset.entry])

RegistryInv == TypeOK /\ IndexInv /\ RevokedInv /\ GuardedInv /\ ConnectionsExact /\ WindowInv

replaceVars == <<indexVars, workVars, nextEntry, gen, revoked>>
=============================================================================
