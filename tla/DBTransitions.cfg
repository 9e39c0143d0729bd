CONSTANTS
  None = None
  UnknownSeat = UnknownSeat
  c1 = c1
  c2 = c2
  k1 = k1
  p1 = p1
  r1 = r1
  s1 = s1
  u1 = u1
  Clients = {c1, c2}
  ReservationIds = {r1}
  Seats = {s1}
  Users = {u1}
  HoldTokens = {k1}
  PaymentIds = {p1}
  MaxTime = 1
SPECIFICATION Spec
PROPERTIES OnlyHeldRowsMove
