SPECIFICATION Spec
CONSTANTS
  NumEmails = 2
  Passwords = {p1, p2}
  NoPassword = NoPassword
  Conns = {c1, c2}
  Quotas = {0}
  Expiries = {0}
  MaxReplaces = 3
  MaxBytes = 0
  MaxTime = 0
SYMMETRY Symmetry
INVARIANT TypeOK
INVARIANT IndexConsistent
INVARIANT RevokedIffUnlisted
INVARIANT ConnectionsExact
INVARIANT OnlyRacersOutliveRekey
PROPERTY RetiredForGood
PROPERTY UntouchedKeep
