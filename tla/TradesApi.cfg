CONSTANTS
  c1 = c1
  e1 = e1
  e2 = e2
  pw1 = pw1
  pw2 = pw2
  None = None
  Deleted = Deleted
  Users = {1, 2}
  Emails = {e1, e2}
  Passwords = {pw1, pw2}
  Trades = {1, 2, 3}
  Clients = {c1}
  Lifetime = 1
  MaxTime = 1
  PageSize = 1
SPECIFICATION ApiSpec
SYMMETRY Interchangeable
CHECK_DEADLOCK FALSE
INVARIANTS
  ApiTypeOK
  LateNeverServed
  OnlyOwnTrades
  WalkMissesNothing
  TotalNotAhead
