SPECIFICATION FairSpec
CONSTANTS
  NumEmails = 1
  Passwords = {p1, p2}
  NoPassword = NoPassword
  Conns = {c1}
  Quotas = {0, 1}
  Expiries = {0, 1}
  MaxReplaces = 2
  MaxBytes = 1
  MaxTime = 1
INVARIANT WindowBehindTotals
PROPERTY DeniedRelaysEnd
