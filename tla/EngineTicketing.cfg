CONSTANTS
  s1 = s1
  q1 = q1
  u1 = u1
  u2 = u2
  u3 = u3
  NoEntry = NoEntry
  NoUser = NoUser
  Users = {u1, u2, u3}
  SeatKeys = {s1}
  QueueKeys = {q1}
  GenericKeys = {}
  Literals = {}
  HoldSeconds = {0, 1}
  ExpireSeconds = {}
  MaxTime = 1
SPECIFICATION Spec
INVARIANTS TypeOK QueueNoDuplicates
PROPERTIES HoldProtected ConfirmedIsKept NobodyOvertakes
SYMMETRY Symmetry
