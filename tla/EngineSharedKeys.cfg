CONSTANTS
  s1 = s1
  u1 = u1
  u2 = u2
  v1 = v1
  NoEntry = NoEntry
  NoUser = NoUser
  Users = {u1, u2}
  SeatKeys = {s1}
  QueueKeys = {}
  GenericKeys = {s1}
  Literals = {v1}
  HoldSeconds = {0, 1, 2}
  ExpireSeconds <- SignedSeconds
  MaxTime = 2
SPECIFICATION Spec
PROPERTIES LazyImplementsEager ExpireHonoursOption
SYMMETRY Symmetry
