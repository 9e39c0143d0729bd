CONSTANTS
  None = None
  UnknownSeat = UnknownSeat
  Reconciler = Reconciler
  t1 = t1
  t2 = t2
  l1 = l1
  s1 = s1
  u1 = u1
  u2 = u2
  p1 = p1
  p2 = p2
  Threads = {t1, t2}
  LateCalls = {l1}
  ReservationIds = {1, 2}
  Seats = {s1}
  Users = {u1, u2}
  PaymentIds = {p1, p2}
  HoldSeconds = {1}
  Limit = 2
  Ops = {"hold", "purchase", "confirm", "cancel", "reconcile"}
  FaultKinds = {"timeout", "redis"}
  MaxFaults = 1
  MaxTime = 1
SPECIFICATION Spec
INVARIANTS ConfirmedAfterSale OneBuyerPerSeat SoldStaysSold ReconcilerLives
SYMMETRY Symmetry
