----------------------------- MODULE TicketingDB -----------------------------
(***************************************************************************)
(* The ticketing DB service (ticketing_api/): reservations and payments in *)
(* SQLite behind an HTTP API.  FastAPI runs the endpoints in a thread      *)
(* pool and every repository method opens its own connection and commits   *)
(* its own transaction, so a request is a sequence of transactions that    *)
(* interleaves with those of other requests: one action per transaction.   *)
(***************************************************************************)
EXTENDS Integers, FiniteSets

CONSTANTS
  Clients,         \* requests the API serves at the same time
  ReservationIds,
  Seats,           \* seats of the catalogue (event and seat id together)
  UnknownSeat,     \* an event, seat or user that is not in the catalogue
  Users,
  HoldTokens,
  PaymentIds,
  MaxTime,         \* bound on the clock
  None             \* SQL NULL, a row that does not exist

Statuses == {"HELD", "CONFIRMED", "CANCELLED", "EXPIRED"}
Time     == 0..MaxTime

Reservation == [seat: Seats, user: Users, status: Statuses, hold_token: HoldTokens,
                expires_at: Nat, confirmed_at: Nat \cup {None}]
Payment     == [payment_id: PaymentIds, status: {"SUCCEEDED", "FAILED"}]

(* Payloads of POST /reservations/held and .../cancel; that of .../confirm *)
(* is a payment id.  A cancelled payment is recorded like a failed one.    *)
HeldPayload   == [seat: Seats \cup {UnknownSeat}, user: Users, hold_token: HoldTokens,
                  expires_at: Nat]
CancelPayload == [payment_id: PaymentIds \cup {None}, status: {"FAILED"}] \cup {None}

(* _validate_cancel_payment_payload: all payment fields are sent, or none. *)
CancelComplete(p) == p = None \/ p.payment_id # None

ASSUME NoneAssumption == /\ None \notin Nat
                         /\ None \notin Reservation
                         /\ None \notin Payment
ASSUME SeatAssumption == UnknownSeat \notin Seats
ASSUME TimeAssumption == MaxTime \in Nat

VARIABLES
  reservations,  \* table reservations, by reservation id
  payments,      \* table payments, by its UNIQUE reservation_id
  call,          \* the request each client has under way
  now            \* current_timestamp()

vars == <<reservations, payments, call, now>>

Idle == [op |-> "none", pc |-> "idle", rid |-> None, payload |-> None,
         reply |-> "none"]

Init == /\ reservations = [r \in ReservationIds |-> None]
        /\ payments = [r \in ReservationIds |-> None]
        /\ call = [c \in Clients |-> Idle]
        /\ now = 0

-----------------------------------------------------------------------------
(* Queries and conditions. *)

HasStatus(r, status) == reservations[r] # None /\ reservations[r].status = status

(* The rows that expire_stale_reservations updates. *)
Stale(r) == HasStatus(r, "HELD") /\ reservations[r].expires_at =< now

(* has_confirmed_reservation *)
SeatConfirmed(seat) ==
  \E r \in ReservationIds : HasStatus(r, "CONFIRMED") /\ reservations[r].seat = seat

(* idx_reservations_confirmed_seat lets row r become CONFIRMED. *)
ConfirmIndexAllows(r) ==
  \A q \in ReservationIds \ {r} :
    ~(HasStatus(q, "CONFIRMED") /\ reservations[q].seat = reservations[r].seat)

(* payments.payment_id is a primary key: no other row may use the id. *)
PaymentIdFree(r, id) ==
  \A q \in ReservationIds \ {r} : payments[q] # None => payments[q].payment_id # id

(* hold_token is UNIQUE and reservation_id the primary key. *)
InsertAllowed(r, token) ==
  /\ reservations[r] = None
  /\ \A q \in ReservationIds : reservations[q] # None => reservations[q].hold_token # token

(* _held_request_matches: the retry of a request that was already served. *)
HeldMatches(r, p) == /\ reservations[r].seat = p.seat
                     /\ reservations[r].user = p.user
                     /\ reservations[r].hold_token = p.hold_token
                     /\ reservations[r].expires_at = p.expires_at

(* _confirm_request_matches; amount and provider follow the payment id. *)
ConfirmMatches(r, id) ==
  payments[r] = [payment_id |-> id, status |-> "SUCCEEDED"]

-----------------------------------------------------------------------------
(* Control of a request: which transaction is next, or the answer. *)

At(c, op, pc) == call[c].op = op /\ call[c].pc = pc

Goto(c, pc) == call' = [call EXCEPT ![c].pc = pc]

Answer(c, reply) == call' = [call EXCEPT ![c].pc = "done", ![c].reply = reply]

Submit(c, op, r, payload) ==
  /\ call[c].pc = "idle"
  /\ call' = [call EXCEPT ![c] = [op |-> op, pc |-> "sweep", rid |-> r,
                                  payload |-> payload, reply |-> "none"]]
  /\ UNCHANGED <<reservations, payments, now>>

Collect(c) == /\ call[c].pc = "done"
              /\ call' = [call EXCEPT ![c] = Idle]
              /\ UNCHANGED <<reservations, payments, now>>

Swept == [r \in ReservationIds |->
            IF Stale(r) THEN [reservations[r] EXCEPT !.status = "EXPIRED"]
            ELSE reservations[r]]

(* _expire_stale_reservations, the first transaction of every request.     *)
(* A listing answers after it: what it reads does not matter here.         *)
Sweep(c) ==
  /\ call[c].pc = "sweep"
  /\ reservations' = Swept
  /\ IF call[c].op = "list" THEN Answer(c, "ok") ELSE Goto(c, "read")
  /\ UNCHANGED <<payments, now>>

(* A transaction finds the database locked, or raises: nothing is written. *)
TransactionFails(c) ==
  /\ call[c].pc \in {"sweep", "read", "check", "write"}
  /\ Answer(c, "error")
  /\ UNCHANGED <<reservations, payments, now>>

-----------------------------------------------------------------------------
(* POST /reservations/held *)

CreateReadNoSeatCheck(c) ==
  LET r == call[c].rid
  IN /\ At(c, "create", "read")
     /\ \/ reservations[r] # None /\ Answer(c, "conflict")
        \/ reservations[r] = None /\ Goto(c, "check")
     /\ UNCHANGED <<reservations, payments, now>>

CreateRead(c) ==
  LET r == call[c].rid
      p == call[c].payload
  IN /\ At(c, "create", "read")
     /\ \/ p.seat = UnknownSeat /\ Answer(c, "not_found")
        \/ /\ p.seat # UnknownSeat /\ reservations[r] # None
           /\ Answer(c, IF HeldMatches(r, p) THEN "ok" ELSE "conflict")
        \/ p.seat # UnknownSeat /\ reservations[r] = None /\ Goto(c, "check")
     /\ UNCHANGED <<reservations, payments, now>>

CreateCheck(c) ==
  /\ At(c, "create", "check")
  /\ IF SeatConfirmed(call[c].payload.seat) THEN Answer(c, "conflict") ELSE Goto(c, "write")
  /\ UNCHANGED <<reservations, payments, now>>

CreateWrite(c) ==
  LET r == call[c].rid
      p == call[c].payload
  IN /\ At(c, "create", "write")
     /\ IF InsertAllowed(r, p.hold_token)
        THEN /\ reservations' = [reservations EXCEPT ![r] =
                  [seat |-> p.seat, user |-> p.user, status |-> "HELD",
                   hold_token |-> p.hold_token, expires_at |-> p.expires_at,
                   confirmed_at |-> None]]
             /\ Answer(c, "ok")
        ELSE Answer(c, "conflict") /\ UNCHANGED reservations
     /\ UNCHANGED <<payments, now>>

-----------------------------------------------------------------------------
(* POST /reservations/{id}/confirm *)

ConfirmRead(c) ==
  LET r == call[c].rid
  IN /\ At(c, "confirm", "read")
     /\ \/ reservations[r] = None /\ Answer(c, "not_found")
        \/ /\ HasStatus(r, "CONFIRMED")
           /\ Answer(c, IF ConfirmMatches(r, call[c].payload) THEN "ok" ELSE "conflict")
        \/ HasStatus(r, "CANCELLED") /\ Answer(c, "conflict")
        \/ HasStatus(r, "EXPIRED") /\ Answer(c, "conflict")
        \/ HasStatus(r, "HELD") /\ Goto(c, "write")
     /\ UNCHANGED <<reservations, payments, now>>

ConfirmWriteNoIndex(c) ==
  LET r == call[c].rid
  IN /\ At(c, "confirm", "write")
     /\ payments' = [payments EXCEPT ![r] =
          [payment_id |-> call[c].payload, status |-> "SUCCEEDED"]]
     /\ reservations' = [reservations EXCEPT ![r].status = "CONFIRMED",
                                             ![r].confirmed_at = now]
     /\ Answer(c, "ok")
     /\ UNCHANGED now

ConfirmWriteKeepsPayment(c) ==
  LET r == call[c].rid
  IN /\ At(c, "confirm", "write")
     /\ ConfirmIndexAllows(r)
     /\ payments' = [payments EXCEPT ![r] =
          IF @ = None THEN [payment_id |-> call[c].payload, status |-> "SUCCEEDED"] ELSE @]
     /\ reservations' = [reservations EXCEPT ![r].status = "CONFIRMED",
                                             ![r].confirmed_at = now]
     /\ Answer(c, "ok")
     /\ UNCHANGED now

(* One transaction upserts the payment and sets the status, whatever the   *)
(* status has become since it was read; an integrity error rolls back both.*)
(* The write methods read the row back after the commit.  Should that read *)
(* fail, the caller gets an error for what is done: the answer of one that *)
(* stops waiting (Ticketing's LateCalls), so it has no step of its own.    *)
ConfirmWrite(c) ==
  LET r == call[c].rid
  IN /\ At(c, "confirm", "write")
     /\ IF ConfirmIndexAllows(r) /\ PaymentIdFree(r, call[c].payload)
        THEN /\ payments' = [payments EXCEPT ![r] =
                  [payment_id |-> call[c].payload, status |-> "SUCCEEDED"]]
             /\ reservations' = [reservations EXCEPT ![r].status = "CONFIRMED",
                                                     ![r].confirmed_at = now]
             /\ Answer(c, "ok")
        ELSE Answer(c, "conflict") /\ UNCHANGED <<reservations, payments>>
     /\ UNCHANGED now

-----------------------------------------------------------------------------
(* POST /reservations/{id}/cancel and /expire *)

ReleaseReadAnyStatus(c, op, final, complete) ==
  LET r == call[c].rid
  IN /\ At(c, op, "read")
     /\ IF reservations[r] = None THEN Answer(c, "not_found") ELSE Goto(c, "write")
     /\ UNCHANGED <<reservations, payments, now>>

(* The status checks of both: final is the status the operation leads to,  *)
(* complete says whether the payload is acceptable.                        *)
ReleaseRead(c, op, final, complete) ==
  LET r == call[c].rid
  IN /\ At(c, op, "read")
     /\ \/ reservations[r] = None /\ Answer(c, "not_found")
        \/ HasStatus(r, final) /\ Answer(c, "ok")
        \/ /\ \E s \in Statuses \ {"HELD", final} : HasStatus(r, s)
           /\ Answer(c, "conflict")
        \/ HasStatus(r, "HELD") /\ ~complete /\ Answer(c, "conflict")
        \/ HasStatus(r, "HELD") /\ complete /\ Goto(c, "write")
     /\ UNCHANGED <<reservations, payments, now>>

CancelRead(c) ==
  ReleaseRead(c, "cancel", "CANCELLED", CancelComplete(call[c].payload))
ExpireRead(c) == ReleaseRead(c, "expire", "EXPIRED", TRUE)

(* A payment id that another reservation uses makes the upsert raise; the  *)
(* cancel endpoint does not catch that.                                    *)
CancelWrite(c) ==
  LET r == call[c].rid
      p == call[c].payload
  IN /\ At(c, "cancel", "write")
     /\ IF p # None /\ ~PaymentIdFree(r, p.payment_id)
        THEN Answer(c, "error") /\ UNCHANGED <<reservations, payments>>
        ELSE /\ payments' = [payments EXCEPT ![r] = IF p = None THEN @ ELSE p]
             /\ reservations' = [reservations EXCEPT ![r].status = "CANCELLED"]
             /\ Answer(c, "ok")
     /\ UNCHANGED now

ExpireWrite(c) ==
  /\ At(c, "expire", "write")
  /\ reservations' = [reservations EXCEPT ![call[c].rid].status = "EXPIRED"]
  /\ Answer(c, "ok")
  /\ UNCHANGED <<payments, now>>

-----------------------------------------------------------------------------
Transaction(c) == \/ Sweep(c)
                  \/ CreateRead(c)
                  \/ CreateCheck(c)
                  \/ CreateWrite(c)
                  \/ ConfirmRead(c)
                  \/ ConfirmWrite(c)
                  \/ CancelRead(c)
                  \/ CancelWrite(c)
                  \/ ExpireRead(c)
                  \/ ExpireWrite(c)

Step(c) == Transaction(c) \/ TransactionFails(c)

(* Requests the API's clients may send: a hold lies in the future when it  *)
(* is sent.                                                                *)
Requests(c) ==
  \/ \E r \in ReservationIds, s \in Seats \cup {UnknownSeat}, u \in Users,
        k \in HoldTokens, t \in Time :
       /\ t > now
       /\ Submit(c, "create", r, [seat |-> s, user |-> u, hold_token |-> k,
                                  expires_at |-> t])
  \/ \E r \in ReservationIds, id \in PaymentIds : Submit(c, "confirm", r, id)
  \/ \E r \in ReservationIds, p \in CancelPayload : Submit(c, "cancel", r, p)
  \/ \E r \in ReservationIds : Submit(c, "expire", r, None)
  \/ Submit(c, "list", None, None)

Tick == /\ now < MaxTime
        /\ now' = now + 1
        /\ UNCHANGED <<reservations, payments, call>>

Next == \/ \E c \in Clients : Requests(c) \/ Step(c) \/ Collect(c)
        \/ Tick

Spec == Init /\ [][Next]_vars

-----------------------------------------------------------------------------
(* Properties. *)

(* A request of a kind, at one of its transactions. *)
CallOf(op, pcs, rids, payloads) ==
  [op: {op}, pc: pcs, rid: rids, payload: payloads,
   reply: {"none", "ok", "conflict", "not_found", "error"}]
Call == {Idle}
  \cup CallOf("list", {"sweep", "done"}, {None}, {None})
  \cup CallOf("create", {"sweep", "read", "done"}, ReservationIds, HeldPayload)
  \cup CallOf("create", {"check", "write"}, ReservationIds,
              {p \in HeldPayload : p.seat # UnknownSeat})
  \cup CallOf("confirm", {"sweep", "read", "write", "done"}, ReservationIds, PaymentIds)
  \cup CallOf("cancel", {"sweep", "read", "write", "done"}, ReservationIds, CancelPayload)
  \cup CallOf("expire", {"sweep", "read", "write", "done"}, ReservationIds, {None})

(* Type invariant: the rows have the columns of ticketing_api/database.py  *)
(* and every request under way is at one of its transactions.              *)
TypeOK == /\ reservations \in [ReservationIds -> Reservation \cup {None}]
          /\ payments \in [ReservationIds -> Payment \cup {None}]
          /\ call \in [Clients -> Call]
          /\ now \in Nat

(* No seat is sold twice: at most one reservation of a seat is CONFIRMED,  *)
(* however the transactions of concurrent requests interleave.             *)
OneConfirmedPerSeat ==
  \A q, r \in ReservationIds :
    (HasStatus(q, "CONFIRMED") /\ HasStatus(r, "CONFIRMED")
     /\ reservations[q].seat = reservations[r].seat) => q = r

(* A confirmed reservation is paid for, also when a cancel with a failed   *)
(* payment or a second confirm runs at the same time.                      *)
ConfirmedIsPaid ==
  \A r \in ReservationIds :
    HasStatus(r, "CONFIRMED") => payments[r] # None /\ payments[r].status = "SUCCEEDED"

(* docs/redis-integration-handoff.md: the transitions are HELD to          *)
(* CONFIRMED, CANCELLED and EXPIRED, and no others.  A sale is final, and  *)
(* a reservation that expired or was cancelled is never sold.              *)
OnlyHeldRowsMove ==
  [][\A r \in ReservationIds :
       (reservations[r] # None /\ ~HasStatus(r, "HELD"))
       => reservations'[r].status = reservations[r].status]_vars
=============================================================================
