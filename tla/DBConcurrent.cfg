CONSTANTS
  None = None
  UnknownSeat = UnknownSeat
  c1 = c1
  c2 = c2
  k1 = k1
  k2 = k2
  p1 = p1
  p2 = p2
  r1 = r1
  r2 = r2
  s1 = s1
  u1 = u1
  Clients = {c1, c2}
  ReservationIds = {r1, r2}
  Seats = {s1}
  Users = {u1}
  HoldTokens = {k1, k2}
  PaymentIds = {p1, p2}
  MaxTime = 1
SPECIFICATION Spec
INVARIANTS TypeOK OneConfirmedPerSeat ConfirmedIsPaid
SYMMETRY Symmetry
