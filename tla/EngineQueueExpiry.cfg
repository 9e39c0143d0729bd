CONSTANTS
  q1 = q1
  u1 = u1
  u2 = u2
  NoEntry = NoEntry
  NoUser = NoUser
  Users = {u1, u2}
  SeatKeys = {}
  QueueKeys = {q1}
  GenericKeys = {q1}
  Literals = {}
  HoldSeconds = {}
  ExpireSeconds = {1}
  MaxTime = 2
SPECIFICATION Spec
PROPERTIES ExpiredQueueIsGone
