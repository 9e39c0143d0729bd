CONSTANTS
  None = None
  UnknownSeat = UnknownSeat
  Reconciler = Reconciler
  t1 = t1
  l1 = l1
  s1 = s1
  u1 = u1
  p1 = p1
  p2 = p2
  Threads = {t1}
  LateCalls = {l1}
  ReservationIds = {1}
  Seats = {s1}
  Users = {u1}
  PaymentIds = {p1, p2}
  HoldSeconds = {1}
  Limit = 1
  Ops = {"purchase", "reconcile"}
  FaultKinds = {"timeout", "db", "redis", "late", "crash"}
  MaxFaults = 3
  MaxTime = 1
SPECIFICATION FairSpec
INVARIANTS TypeOK
PROPERTIES SaleReachesRedis
