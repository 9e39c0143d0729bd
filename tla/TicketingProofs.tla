--------------------------- MODULE TicketingProofs ---------------------------
(***************************************************************************)
(* Theorems about the ticketing application for any number of app server   *)
(* threads, late calls, seats, users and reservations, and any number of   *)
(* failures.  The DB service is the one TicketingDBProofs is about; what   *)
(* its transactions do is taken from there.                                *)
(***************************************************************************)
EXTENDS Ticketing, TLAPS

DBP == INSTANCE TicketingDBProofs WITH Clients <- Callers, HoldTokens <- ReservationIds

-----------------------------------------------------------------------------
(* The inductive invariant. *)

(* The DB service on its own: types, no seat sold twice, sales paid for.   *)
DBInv == DBP!IInv /\ DBP!OneConfirmedPerSeat /\ DBP!ConfirmedIsPaid

(* A row with a payment that SUCCEEDED, and the sale it records. *)
PaidRow(r) == reservations[r] # None /\ payments[r] # None /\ payments[r].status = "SUCCEEDED"
Paid(s, u) == \E r \in ReservationIds : PaidRow(r) /\ SeatOf(r) = s /\ UserOf(r) = u

(* Redis: a FORCE_CONFIRM_SEAT is sent for paid seats only, so it is sound *)
(* to execute it late, twice, or never.                                    *)
Reads == [name: {"SEAT_STATUS"}, seat: Seats, user: {None}, seconds: {0}]
Sound(c) == c.name = "FORCE_CONFIRM_SEAT" => Paid(c.seat, c.user)
Known(c) == c \in Writes \cup Reads /\ Sound(c)
Owing(x) == \/ x = None
            \/ DOMAIN x = {"reply"} /\ x.reply.items \in {3, 4}
            \/ DOMAIN x = {"command"} /\ Known(x.command)
RedisInv == /\ redis \in [Seats -> Redis!Slot]
            /\ ConfirmedAfterSale
            /\ \A c \in wire : c \in Writes /\ Sound(c)
            /\ DOMAIN unread = Links /\ \A link \in Links : Owing(unread[link])

(* A thread waits for the DB request of the step it is at, and what it     *)
(* knows of its reservation fits the step.                                 *)
Asking == {"create", "confirm", "cancel", "undo", "expire"}
OpAt(pc) == IF pc = "undo" THEN "cancel" ELSE pc
Holding == {"find", "reserve", "create", "view_held"}
Fit(x, y) ==
  /\ x.pc \notin {"idle", "done"} => x.user \in Users
  /\ x.pc = "find" => x.seat \in Seats \cup {UnknownSeat}
  /\ x.pc \notin {"idle", "done", "find"} => x.seat \in Seats
  /\ x.pc \in {"idle", "find", "reserve"} => x.rid = None
  /\ x.pc = "create" /\ y.pc = "idle" => x.rid = None
  /\ x.pc \in Confirming \cup {"view_held", "cancel", "undo"} => x.rid # None
  /\ x.pc = "done" /\ x.reply = "ok" /\ x.op \in {"confirm", "purchase"} => x.rid # None
  /\ x.pc \in Holding => x.op \in {"hold", "purchase"}
  /\ x.pc \in {"cancel", "view_cancelled"} => x.op = "cancel"
  /\ y.pc # "idle" => x.pc \in Asking /\ x.rid # None /\ y.op = OpAt(x.pc) /\ y.rid = x.rid
Threaded(t) == /\ Fit(thread[t], call[t])
               /\ thread[t].pc = "finalize" => Paid(thread[t].seat, thread[t].user)

(* The answers of the DB service, and what is sent to it. *)
CallsInv == \A c \in Callers :
  /\ call[c].op = "cancel" => call[c].payload = None
  /\ (call[c].op = "confirm" /\ call[c].pc = "done" /\ call[c].reply = "ok")
       => PaidRow(call[c].rid)

(* An id belongs to the thread that made it, for good: a row and the       *)
(* request that creates it carry the seat and the user of every thread     *)
(* with that id.                                                           *)
Owned(r) == \E t \in Threads : thread[t].rid = r
OwnedInv == /\ \A r \in ReservationIds : reservations[r] # None => Owned(r)
            /\ \A c \in Callers : call[c].op = "create" => Owned(call[c].rid)
Named(t) ==
  LET x == thread[t]
  IN x.rid # None =>
       /\ reservations[x.rid] # None => SeatOf(x.rid) = x.seat /\ UserOf(x.rid) = x.user
       /\ \A c \in Callers : (call[c].op = "create" /\ call[c].rid = x.rid)
            => call[c].payload.seat = x.seat /\ call[c].payload.user = x.user

(* The reconciler: the rows it works on exist, those it expires are not    *)
(* HELD beyond their time, those it repairs are paid for.                  *)
Lapsed(r) == reservations[r] # None /\ (DB!HasStatus(r, "HELD") => DB!Stale(r))
Listed(w) == w.todo \cup ({w.row} \ {None})
Sane(w) == /\ \A r \in Listed(w) \cup w.expired : reservations[r] # None
           /\ w.pc \in {"expiring", "releasing", "repairing"} => w.row # None
           /\ w.pc \in {"expire", "expiring"} => \A r \in Listed(w) : Lapsed(r)
           /\ w.pc \in {"repair", "repairing"} => \A r \in Listed(w) : PaidRow(r)
WorkerInv == Sane(worker)
ExpiryInv ==
  LET x == call[Reconciler]
  IN x.pc # "idle" =>
       /\ worker.pc = "expiring" /\ x.op = "expire" /\ x.rid = worker.row
       /\ x.pc \in {"sweep", "read", "done"}
       /\ x.pc = "read" => ~DB!HasStatus(x.rid, "HELD")
       /\ x.pc = "done" /\ "db" \notin FaultKinds => x.reply \in {"ok", "conflict"}

(* A user's cancel or expire, late or not, that is about to write found    *)
(* its row HELD.  If the row is CONFIRMED by now, it was sold in a race.   *)
(* The reconciler expires no row that can be sold; nothing else undoes a   *)
(* sale.                                                                   *)
Undoing(c, r) == call[c].op \in {"cancel", "expire"} /\ call[c].pc = "write" /\ call[c].rid = r
RaceInv ==
  /\ raced \subseteq ReservationIds
  /\ \A c \in Threads \cup LateCalls, r \in ReservationIds :
       Undoing(c, r) /\ DB!HasStatus(r, "CONFIRMED") => r \in raced
Bought(t) == \/ thread[t].pc \in {"finalize", "view_sold"}
             \/ Sold(t)
             \/ thread[t].pc = "confirm" /\ call[t].pc = "done" /\ call[t].reply = "ok"
SaleInv(t) ==
  Bought(t) => DB!HasStatus(thread[t].rid, "CONFIRMED") \/ thread[t].rid \in raced
SalesInv == RaceInv /\ \A t \in Threads : SaleInv(t)

(* All of it. *)
ControlInv == /\ thread \in [Threads -> Requests]
              /\ worker \in Passes
              /\ faults \in 0..MaxFaults
              /\ \A t \in Threads : Threaded(t)
IdInv == OwnedInv /\ \A t \in Threads : Named(t)
IInv == /\ DBInv /\ RedisInv /\ ControlInv /\ CallsInv /\ IdInv
        /\ WorkerInv /\ ExpiryInv /\ ReconcilerLives
        /\ SalesInv

-----------------------------------------------------------------------------
(* The DB service, instantiated twice, is one: what holds of DBP holds of  *)
(* DB.  TicketingDBProofs' assumptions on its constants hold here.         *)

(* What TicketingDBProofs assumes of its constants holds here. *)
LEMMA DBAssumptions ==
  /\ None \notin Nat /\ None \notin DBP!Reservation /\ None \notin DBP!Payment
  /\ UnknownSeat \notin Seats
  /\ MaxTime \in Nat
BY NoneAssumption, SeatAssumption, BoundAssumption
   DEF DB!Reservation, DBP!Reservation, DB!Payment, DBP!Payment, DB!Statuses, DBP!Statuses

(* Both instances mean the same by a well-typed state, a status, a sweep. *)
LEMMA SameStates ==
  /\ DB!TypeOK <=> DBP!TypeOK
  /\ DB!Idle = DBP!Idle
  /\ DB!Swept = DBP!Swept
  /\ \A r, s : DB!HasStatus(r, s) <=> DBP!HasStatus(r, s)
  /\ \A r : DB!Stale(r) <=> DBP!Stale(r)
<1>1. DB!TypeOK <=> DBP!TypeOK
  BY DEF DB!TypeOK, DBP!TypeOK, DB!Reservation, DBP!Reservation, DB!Payment, DBP!Payment,
         DB!Call, DBP!Call, DB!CallOf, DBP!CallOf, DB!Statuses, DBP!Statuses, DB!HeldPayload,
         DBP!HeldPayload, DB!CancelPayload, DBP!CancelPayload, DB!Idle, DBP!Idle
<1> QED
  BY <1>1 DEF DB!Idle, DBP!Idle, DB!Swept, DBP!Swept, DB!HasStatus, DBP!HasStatus, DB!Stale,
              DBP!Stale

(* And by a transaction. *)
LEMMA SameSteps ==
  ASSUME NEW c \in Callers
  PROVE  /\ DB!Transaction(c) <=> DBP!Transaction(c)
         /\ DB!TransactionFails(c) <=> DBP!TransactionFails(c)
BY DEF DB!Transaction, DBP!Transaction, DB!Sweep, DBP!Sweep, DB!Swept, DBP!Swept, DB!Stale,
       DBP!Stale, DB!HasStatus, DBP!HasStatus, DB!Answer, DBP!Answer, DB!Goto, DBP!Goto,
       DB!CreateRead, DBP!CreateRead, DB!At, DBP!At, DB!HeldMatches, DBP!HeldMatches,
       DB!CreateCheck, DBP!CreateCheck, DB!SeatConfirmed, DBP!SeatConfirmed,
       DB!CreateWrite, DBP!CreateWrite, DB!InsertAllowed, DBP!InsertAllowed,
       DB!ConfirmRead, DBP!ConfirmRead, DB!ConfirmMatches, DBP!ConfirmMatches,
       DB!ConfirmWrite, DBP!ConfirmWrite, DB!ConfirmIndexAllows, DBP!ConfirmIndexAllows,
       DB!PaymentIdFree, DBP!PaymentIdFree, DB!CancelRead, DBP!CancelRead,
       DB!ReleaseRead, DBP!ReleaseRead, DB!CancelComplete, DBP!CancelComplete,
       DB!CancelWrite, DBP!CancelWrite, DB!ExpireRead, DBP!ExpireRead,
       DB!ExpireWrite, DBP!ExpireWrite, DB!Statuses, DBP!Statuses,
       DB!TransactionFails, DBP!TransactionFails

(* What every step keeps: rows and their columns, sales, time. *)
TableStep == /\ \A r \in ReservationIds :
                  /\ reservations[r] # None => DBP!RowKept(reservations', r)
                  /\ PaidRow(r) => PaidRow(r)'
             /\ now \in Nat /\ now' \in Nat /\ now' >= now

(* So a sale, and with it a command that is sound, stays one, and a row    *)
(* whose time is over is not HELD again.                                   *)
LEMMA TableStepKeeps ==
  ASSUME DBInv, TableStep
  PROVE  /\ \A s, u : Paid(s, u) => Paid(s, u)'
         /\ \A c : Sound(c) => /\ c.name = "FORCE_CONFIRM_SEAT" => Paid(c.seat, c.user)'
         /\ \A r \in ReservationIds : /\ Lapsed(r) => Lapsed(r)'
                                      /\ reservations[r] # None => reservations'[r] # None
                                      /\ reservations[r] # None /\ ~DB!HasStatus(r, "HELD")
                                           => ~DB!HasStatus(r, "HELD")'
<1>1. \A s, u : Paid(s, u) => Paid(s, u)'
  BY DEF TableStep, Paid, PaidRow, DBP!RowKept, SeatOf, UserOf
<1>2. ASSUME NEW r \in ReservationIds
      PROVE  /\ Lapsed(r) => Lapsed(r)'
             /\ reservations[r] # None => reservations'[r] # None
             /\ reservations[r] # None /\ ~DB!HasStatus(r, "HELD") => ~DB!HasStatus(r, "HELD")'
  <2>1. reservations[r] # None => reservations[r].expires_at \in Nat
    BY DEF DBInv, DBP!IInv, DBP!TypeOK, DBP!Reservation
  <2> QED  BY <1>2, <2>1 DEF TableStep, Lapsed, DBP!RowKept, DB!HasStatus, DB!Stale
<1> QED  BY <1>1, <1>2 DEF Sound

(* The names of a request that a transaction leaves alone. *)
SameRequest(x, y) == x.op = y.op /\ x.rid = y.rid /\ x.payload = y.payload

(* What a transaction of request c does, as far as callers can see. *)
ServeStep(c) ==
  /\ TableStep
  /\ call[c].pc \in {"sweep", "read", "check", "write"} /\ call'[c].pc # "idle"
  /\ SameRequest(call'[c], call[c])
  /\ \A d \in Callers \ {c} : call'[d] = call[d]
  /\ \A r \in ReservationIds :
       /\ (reservations[r] = None /\ reservations'[r] # None) =>
             /\ call[c].op = "create" /\ call[c].rid = r
             /\ reservations'[r].seat = call[c].payload.seat
             /\ reservations'[r].user = call[c].payload.user
       /\ (DB!HasStatus(r, "CONFIRMED") /\ ~DB!HasStatus(r, "CONFIRMED")') =>
             call[c].rid = r /\ call[c].pc = "write" /\ call[c].op \in {"cancel", "expire"}
  /\ (call[c].op = "confirm" /\ call'[c].pc = "done" /\ call'[c].reply = "ok")
       => DB!HasStatus(call[c].rid, "CONFIRMED")'
  /\ Undoing(c, call[c].rid)' => ~DB!HasStatus(call[c].rid, "CONFIRMED")'

(* The transactions of the DB service do that, and keep its invariant. *)
LEMMA ServeEffect ==
  ASSUME DBInv, CallsInv, NEW c \in Callers, Serve(c)
  PROVE  DBInv' /\ ServeStep(c)
<1> USE DBAssumptions
<1>1. DBP!Step(c)
  BY SameSteps DEF Serve, DBP!Step
<1>2. DBP!IInv /\ DBP!IInv'
  BY <1>1, DBP!StepPreserves DEF DBInv
<1>3. DBP!RowStep
  BY <1>1, <1>2, DBP!EveryRowStep DEF DBP!Next
<1>4. DBInv'
  BY <1>2, <1>3, DBP!RowStepSellsOnce DEF DBInv, DBP!RowStep, DBP!ConfirmedIsPaid
<1>5. \A q \in ReservationIds : DBP!RowEffect(c, q)
  BY <1>1, <1>2, DBP!StepEffect
<1>6. /\ call[c].pc \in {"sweep", "read", "check", "write"}
      /\ call'[c].pc \in {"read", "check", "write", "done"}
      /\ call'[c].op = call[c].op /\ call'[c].rid = call[c].rid
      /\ call'[c].payload = call[c].payload
      /\ \A d \in Callers \ {c} : call'[d] = call[d]
  BY <1>1, <1>2, DBP!CallMoves
<1>7. now' = now /\ now \in Nat
  BY <1>1, <1>2 DEF DBP!Step, DBP!Transaction, DBP!TransactionFails, DBP!Sweep, DBP!CreateRead,
     DBP!CreateCheck, DBP!CreateWrite, DBP!ConfirmRead, DBP!ConfirmWrite, DBP!CancelRead,
     DBP!CancelWrite, DBP!ExpireRead, DBP!ExpireWrite, DBP!ReleaseRead, DBP!IInv, DBP!TypeOK
<1>8. TableStep
  <2>1. ASSUME NEW r \in ReservationIds
        PROVE  /\ reservations[r] # None => DBP!RowKept(reservations', r)
               /\ PaidRow(r) => PaidRow(r)'
    BY <1>5, <2>1 DEF DBP!RowEffect, DBP!RowKept, PaidRow, CallsInv
  <2> QED  BY <1>7, <2>1 DEF TableStep
<1>9. ASSUME call[c].op = "confirm", call'[c].pc = "done", call'[c].reply = "ok"
      PROVE  DB!HasStatus(call[c].rid, "CONFIRMED")'
  BY <1>1, <1>2, <1>9, DBP!ConfirmAnswer, SameStates DEF DB!HasStatus, DBP!HasStatus
<1>10. ASSUME NEW r \in ReservationIds
       PROVE  /\ (reservations[r] = None /\ reservations'[r] # None) =>
                   /\ call[c].op = "create" /\ call[c].rid = r
                   /\ reservations'[r].seat = call[c].payload.seat
                   /\ reservations'[r].user = call[c].payload.user
              /\ (DB!HasStatus(r, "CONFIRMED") /\ ~DB!HasStatus(r, "CONFIRMED")') =>
                   call[c].rid = r /\ call[c].pc = "write" /\ call[c].op \in {"cancel", "expire"}
  BY <1>5, <1>10 DEF DBP!RowEffect, DB!HasStatus, DBP!HasStatus
<1>11. ASSUME Undoing(c, call[c].rid)' PROVE ~DB!HasStatus(call[c].rid, "CONFIRMED")'
  BY <1>1, <1>2, <1>6, <1>11, DBP!UndoChecks, SameStates DEF Undoing, DB!HasStatus, DBP!HasStatus
<1> QED  BY <1>4, <1>6, <1>8, <1>9, <1>10, <1>11 DEF ServeStep, SameRequest

(* The requests that are sent. *)
Fresh(x) == x \in DBP!Call /\ x.pc = "sweep"

(* What a caller does to the requests: nothing, it sends one, takes an     *)
(* answer, or gives up waiting.                                            *)
CallStep(c) == \/ call' = call
               \/ \E x : (Fresh(x) \/ x = DB!Idle) /\ call' = [call EXCEPT ![c] = x]
               \/ \E l \in LateCalls : call' = [call EXCEPT ![c] = DB!Idle, ![l] = call[c]]
QuietTables == /\ reservations' \in {reservations, DB!Swept}
               /\ payments' = payments /\ raced' = raced
               /\ now' \in {now, now + 1}

(* Between transactions the tables are quiet: at most a sweep. *)
LEMMA QuietEffect ==
  ASSUME DBInv, QuietTables, NEW c \in Callers, CallStep(c)
  PROVE  /\ DBInv' /\ TableStep
         /\ \A r \in ReservationIds :
              /\ reservations[r] = None => reservations'[r] = None
              /\ DB!HasStatus(r, "CONFIRMED")' <=> DB!HasStatus(r, "CONFIRMED")
<1> USE DBAssumptions
<1>1. call \in [Callers -> DBP!Call] /\ now \in Nat /\ DBP!IInv
  BY DEF DBInv, DBP!IInv, DBP!TypeOK
<1>2. DB!Idle \in DBP!Call /\ DB!Idle.pc # "write"
  BY DBP!CallIntro, SameStates DEF DBP!Idle
<1> DEFINE CallsOK ==
             /\ call' \in [Callers -> DBP!Call]
             /\ \A d \in Callers : call'[d].pc = "write" => \E e \in Callers : call'[d] = call[e]
<1>3. CallsOK
  <2>1. CASE call' = call
    BY <1>1, <2>1
  <2>2. ASSUME NEW x, Fresh(x) \/ x = DB!Idle, call' = [call EXCEPT ![c] = x]
        PROVE  CallsOK
    <3>1. x \in DBP!Call /\ x.pc # "write"
      BY <1>2, <2>2 DEF Fresh
    <3> QED  BY <1>1, <2>2, <3>1
  <2>3. ASSUME NEW l \in LateCalls, call' = [call EXCEPT ![c] = DB!Idle, ![l] = call[c]]
        PROVE  CallsOK
    <3>1. \A d \in Callers : call'[d] \in {DB!Idle, call[c], call[d]}
      BY <1>1, <2>3
    <3>2. call' \in [Callers -> DBP!Call]
      BY <1>1, <1>2, <2>3
    <3> QED  BY <1>1, <1>2, <3>1, <3>2
  <2> QED  BY <2>1, <2>2, <2>3 DEF CallStep
<1>4. DBP!Between
  BY <1>1, <1>3, SameStates DEF DBP!Between, QuietTables
<1>5. /\ \A r \in ReservationIds :
            /\ reservations[r] # None => DBP!RowKept(reservations', r)
            /\ reservations[r] = None => reservations'[r] = None
            /\ DBP!HasStatus(r, "CONFIRMED")' <=> DBP!HasStatus(r, "CONFIRMED")
      /\ DBP!IInv'
      /\ DBP!RowStep
  BY <1>1, <1>4, DBP!BetweenKeeps
<1>6. DBInv'
  BY <1>5, DBP!RowStepSellsOnce DEF DBInv, DBP!RowStep, DBP!ConfirmedIsPaid
<1>7. TableStep
  BY <1>1, <1>5 DEF TableStep, QuietTables, PaidRow, DBP!RowKept
<1> QED  BY <1>5, <1>6, <1>7 DEF DB!HasStatus, DBP!HasStatus

-----------------------------------------------------------------------------
(* The control of a request. *)

PCs == {"idle", "done", "reserve", "create", "cancel", "undo", "release_check", "release"}
         \cup Confirming \cup Views

(* Thread t goes on, and its request is about what it was about. *)
Kept(x, y) == y.op = x.op /\ y.seat = x.seat /\ y.user = x.user /\ y.rid = x.rid
Moved(t) == /\ thread' \in [Threads -> Requests]
            /\ Kept(thread[t], thread'[t])
            /\ \A v \in Threads \ {t} : thread'[v] = thread[v]

(* Going on, finishing and failing are moves of the request. *)
LEMMA Moves ==
  ASSUME thread \in [Threads -> Requests], NEW t \in Threads
  PROVE  /\ \A q \in PCs : Goto(t, q) => Moved(t) /\ thread'[t].pc = q
         /\ \A reply \in Failures \cup {"ok"} : Finish(t, reply) =>
              Moved(t) /\ thread'[t].pc = "done" /\ thread'[t].reply = reply
         /\ \A reply \in Failures : Raise(t, reply) =>
              /\ Moved(t)
              /\ \/ thread'[t].pc = "undo" /\ thread[t].pc \in Confirming
                 \/ thread'[t].pc = "done" /\ thread'[t].reply # "ok"
<1>1. ASSUME NEW q \in PCs, Goto(t, q) PROVE Moved(t) /\ thread'[t].pc = q
  <2> DEFINE y == [thread[t] EXCEPT !.pc = q]
  <2>1. y \in Requests /\ y.pc = q /\ Kept(thread[t], y)
    BY <1>1 DEF Requests, PCs, Kept
  <2>2. thread' = [thread EXCEPT ![t] = y]
    BY <1>1 DEF Goto
  <2> HIDE DEF y
  <2> QED  BY <2>1, <2>2 DEF Moved
<1>2. ASSUME NEW reply \in Failures \cup {"ok"}, Finish(t, reply)
      PROVE  Moved(t) /\ thread'[t].pc = "done" /\ thread'[t].reply = reply
  <2> DEFINE y == [thread[t] EXCEPT !.pc = "done", !.reply = reply]
  <2>1. y \in Requests /\ y.pc = "done" /\ y.reply = reply /\ Kept(thread[t], y)
    BY <1>2 DEF Requests, PCs, Kept
  <2>2. thread' = [thread EXCEPT ![t] = y]
    BY <1>2 DEF Finish
  <2> HIDE DEF y
  <2> QED  BY <2>1, <2>2 DEF Moved
<1>3. ASSUME NEW reply \in Failures, Raise(t, reply)
      PROVE  /\ Moved(t)
             /\ \/ thread'[t].pc = "undo" /\ thread[t].pc \in Confirming
                \/ thread'[t].pc = "done" /\ thread'[t].reply # "ok"
  <2>1. CASE thread[t].op = "purchase" /\ thread[t].pc \in Confirming
    <3>1. Goto(t, "undo") /\ "undo" \in PCs
      BY <1>3, <2>1 DEF Raise, PCs
    <3> QED  BY <1>1, <2>1, <3>1
  <2>2. CASE ~(thread[t].op = "purchase" /\ thread[t].pc \in Confirming)
    <3>1. Finish(t, reply) /\ reply # "ok"
      BY <1>3, <2>2 DEF Raise, Failures
    <3> QED  BY <1>2, <3>1
  <2> QED  BY <2>1, <2>2
<1> QED  BY <1>1, <1>2, <1>3

(* The program of a request: from x to y, when z is its DB request. *)
Edge(x, y, z) ==
  \/ y.pc = "reserve" /\ x.pc = "find" /\ x.seat # UnknownSeat
  \/ y.pc = "create" /\ x.pc = "reserve"
  \/ y.pc = "view_held" /\ x.pc = "create" /\ z.pc = "done" /\ z.reply = "ok"
  \/ y.pc = "find_held" /\ x.pc = "view_held"
  \/ y.pc = "status" /\ x.pc = "find_held"
  \/ y.pc \in {"expire", "confirm"} /\ x.pc = "status"
  \/ y.pc = "finalize" /\ x.pc = "confirm" /\ z.pc = "done" /\ z.reply = "ok"
  \/ y.pc \in {"finalize", "view_sold"} /\ x.pc = "finalize"
  \/ y.pc = "undo" /\ x.pc \in Confirming
  \/ y.pc = "release_check" /\ x.pc \in {"create", "cancel", "undo"}
  \/ y.pc = "release" /\ x.pc = "release_check"
  \/ y.pc = "view_cancelled" /\ x.pc \in {"release_check", "release"} /\ x.op = "cancel"
  \/ /\ y.pc = "done" /\ x.pc # "idle"
     /\ y.reply = "ok" => x.pc = "view_sold" \/ x.op \notin {"confirm", "purchase"}

(* The steps of a thread: its request starts, *)
StartStep(t) == \E y \in Requests :
  /\ thread[t].pc = "idle" /\ thread' = [thread EXCEPT ![t] = y] /\ call' = call
  /\ y.user \in Users
  /\ \/ /\ y.pc = "find" /\ y.op \in {"hold", "purchase"}
        /\ y.rid = None /\ y.seat \in Seats \cup {UnknownSeat}
     \/ /\ (y.pc = "find_held" /\ y.op = "confirm") \/ (y.pc = "cancel" /\ y.op = "cancel")
        /\ y.rid \in ReservationIds /\ reservations[y.rid] # None
        /\ y.seat = SeatOf(y.rid) /\ y.user = UserOf(y.rid) /\ y.seat \in Seats
(* sends a DB request, *)
SendStep(t) == \E x :
  /\ Fresh(x) /\ x.op = OpAt(thread[t].pc)
  /\ x.op = "cancel" => x.payload = None
  /\ thread[t].pc \in Asking /\ call[t].pc = "idle" /\ call' = [call EXCEPT ![t] = x]
  /\ \/ x.op # "create" /\ x.rid = thread[t].rid /\ thread' = thread
     \/ /\ x.op = "create" /\ x.rid \in ReservationIds /\ FreshId(x.rid)
        /\ x.payload.seat = thread[t].seat /\ x.payload.user = thread[t].user
        /\ thread' = [thread EXCEPT ![t].rid = x.rid]
(* or goes on, after it took the answer, or gave up waiting.               *)
MoveStep(t) ==
  /\ Moved(t) /\ Edge(thread[t], thread'[t], call[t])
  /\ \/ thread[t].pc \notin Asking /\ call' = call
     \/ call[t].pc = "done" /\ call' = [call EXCEPT ![t] = DB!Idle]
     \/ /\ call[t].pc \notin {"idle", "done"}
        /\ \E l \in LateCalls : call' = [call EXCEPT ![t] = DB!Idle, ![l] = call[t]]

(* The requests that start. *)
LEMMA Starts ==
  ASSUME DBInv, ControlInv, NEW t \in Threads, StartHold(t) \/ StartConfirm(t) \/ StartCancel(t)
  PROVE  StartStep(t)
<1>a. thread[t] \in Requests
  BY DEF ControlInv
<1>1. ASSUME NEW op \in {"hold", "purchase", "confirm", "cancel"}, NEW pc \in PCs,
             NEW s \in Seats \cup {UnknownSeat}, NEW u \in Users,
             NEW r \in ReservationIds \cup {None}, NEW n \in HoldSeconds \cup {0},
             At(t, "idle"), Start(t, op, pc, s, u, r, n)
      PROVE  \E y \in Requests : /\ thread' = [thread EXCEPT ![t] = y] /\ call' = call
                                 /\ y.op = op /\ y.pc = pc /\ y.seat = s /\ y.user = u
                                 /\ y.rid = r /\ thread[t].pc = "idle"
  <2> DEFINE y == [op |-> op, pc |-> pc, seat |-> s, user |-> u, rid |-> r,
                   seconds |-> n, tries |-> 0, reply |-> "none"]
  <2>1. y \in Requests /\ y.op = op /\ y.pc = pc /\ y.seat = s /\ y.user = u /\ y.rid = r
    BY <1>1, <1>a DEF Requests, PCs, Failures, Attempts
  <2>2. thread' = [thread EXCEPT ![t] = y] /\ call' = call /\ thread[t].pc = "idle"
    BY <1>1 DEF Start, At
  <2> QED  BY <2>1, <2>2
<1>2. CASE StartHold(t)
  <2>1. "find" \in PCs
    BY DEF PCs, Views
  <2> QED  BY <1>1, <1>2, <2>1 DEF StartHold, StartStep
<1>3. CASE StartConfirm(t)
  <2>1. PICK r \in ReservationIds :
          /\ reservations[r] # None
          /\ Start(t, "confirm", "find_held", SeatOf(r), UserOf(r), r, 0)
    BY <1>3 DEF StartConfirm
  <2>2. SeatOf(r) \in Seats /\ UserOf(r) \in Users
    BY <2>1 DEF DBInv, DBP!IInv, DBP!TypeOK, DBP!Reservation, SeatOf, UserOf
  <2>3. "find_held" \in PCs
    BY DEF PCs, Views
  <2> QED  BY <1>1, <1>3, <2>1, <2>2, <2>3 DEF StartConfirm, StartStep
<1>4. CASE StartCancel(t)
  <2>1. PICK r \in ReservationIds :
          /\ reservations[r] # None
          /\ Start(t, "cancel", "cancel", SeatOf(r), UserOf(r), r, 0)
    BY <1>4 DEF StartCancel
  <2>2. SeatOf(r) \in Seats /\ UserOf(r) \in Users
    BY <2>1 DEF DBInv, DBP!IInv, DBP!TypeOK, DBP!Reservation, SeatOf, UserOf
  <2>3. "cancel" \in PCs
    BY DEF PCs
  <2> QED  BY <1>1, <1>4, <2>1, <2>2, <2>3 DEF StartCancel, StartStep
<1> QED  BY <1>2, <1>3, <1>4

(* The DB requests they send are ones the service accepts. *)
LEMMA Sends ==
  ASSUME DBInv, ControlInv, NEW t \in Threads, Send(t)
  PROVE  SendStep(t)
<1> DEFINE x == thread[t]
           Sent(op, r, load) == [op |-> op, pc |-> "sweep", rid |-> r, payload |-> load,
                                 reply |-> "none"]
<1>a. /\ x \in Requests /\ Threaded(t) /\ now \in Nat
      /\ x.rid \in ReservationIds \cup {None}
  BY DEF ControlInv, DBInv, DBP!IInv, DBP!TypeOK, Requests
<1>1. ASSUME NEW r \in ReservationIds, FreshId(r), x.pc = "create",
             DB!Submit(t, "create", r, [seat |-> x.seat, user |-> x.user, hold_token |-> r,
                                        expires_at |-> now + x.seconds]),
             thread' = [thread EXCEPT ![t].rid = r]
      PROVE  SendStep(t)
  <2> DEFINE load == [seat |-> x.seat, user |-> x.user, hold_token |-> r,
                      expires_at |-> now + x.seconds]
             y == Sent("create", r, load)
  <2>1. x.seat \in Seats /\ x.user \in Users /\ now + x.seconds \in Nat
    BY <1>1, <1>a, HoldAssumption DEF Threaded, Fit, Requests
  <2>2. load \in DBP!HeldPayload
    BY <2>1 DEF DBP!HeldPayload
  <2>3. y \in DBP!CallOf("create", {"sweep", "read", "done"}, ReservationIds, DBP!HeldPayload)
    BY <2>2 DEF DBP!CallOf
  <2>4. y \in DBP!Call
    BY <2>3, DBP!CallIntro, DBAssumptions
  <2>5. load.seat = x.seat /\ load.user = x.user
    OBVIOUS
  <2>6. call[t].pc = "idle" /\ call' = [call EXCEPT ![t] = y]
    BY <1>1 DEF DB!Submit
  <2> HIDE DEF load
  <2>7. Fresh(y) /\ y.op = "create" /\ y.rid = r /\ y.payload = load
    BY <2>4 DEF Fresh
  <2> HIDE DEF y
  <2> QED  BY <1>1, <2>5, <2>6, <2>7 DEF SendStep, OpAt, Asking
<1>2. ASSUME NEW op \in {"confirm", "cancel", "expire"}, NEW load, x.pc \in Asking,
             op = OpAt(x.pc), x.rid \in ReservationIds, DB!Submit(t, op, x.rid, load),
             op = "confirm" => load \in PaymentIds, op # "confirm" => load = None,
             thread' = thread
      PROVE  SendStep(t)
  <2> DEFINE y == Sent(op, x.rid, load)
             Q == {"sweep", "read", "write", "done"}
  <2>1. \/ y \in DBP!CallOf("confirm", Q, ReservationIds, PaymentIds)
        \/ y \in DBP!CallOf("cancel", Q, ReservationIds, DBP!CancelPayload)
        \/ y \in DBP!CallOf("expire", Q, ReservationIds, {None})
    BY <1>2 DEF DBP!CallOf, DBP!CancelPayload
  <2>2. y \in DBP!Call
    BY <2>1, DBP!CallIntro, DBAssumptions
  <2>3. call[t].pc = "idle" /\ call' = [call EXCEPT ![t] = y]
    BY <1>2 DEF DB!Submit
  <2>4. Fresh(y) /\ y.op = op /\ y.rid = x.rid /\ y.payload = load
    BY <2>2 DEF Fresh
  <2> HIDE DEF y
  <2> QED  BY <1>2, <2>3, <2>4 DEF SendStep
<1>3. CASE x.pc = "create"
  BY <1>1, <1>3 DEF Send
<1>4. CASE x.pc = "confirm"
  <2>1. x.rid \in ReservationIds
    BY <1>4, <1>a DEF Threaded, Fit, Confirming
  <2> QED  BY <1>2, <1>4, <2>1 DEF Send, OpAt, Asking
<1>5. CASE x.pc \in {"cancel", "undo"}
  <2>1. x.rid \in ReservationIds
    BY <1>5, <1>a DEF Threaded, Fit, Confirming
  <2> QED  BY <1>2, <1>5, <2>1 DEF Send, OpAt, Asking
<1>6. CASE x.pc = "expire"
  <2>1. x.rid \in ReservationIds
    BY <1>6, <1>a DEF Threaded, Fit, Confirming
  <2> QED  BY <1>2, <1>6, <2>1 DEF Send, OpAt, Asking
<1> QED  BY <1>3, <1>4, <1>5, <1>6 DEF Send

(* The handlers go on as their program says: after a DB request. *)
LEMMA Receives ==
  ASSUME ControlInv, NEW t \in Threads, Receive(t)
  PROVE  MoveStep(t)
<1>a. thread \in [Threads -> Requests] /\ Threaded(t)
  BY DEF ControlInv
<1>b. {"view_held", "release_check", "finalize", "undo"} \subseteq PCs
  BY DEF PCs, Views, SeatViews, Confirming
<1>1. PICK reply \in Failures \cup {"ok"} :
        /\ Answered(t, reply)
        /\ HoldCreate(t, reply) \/ ConfirmExpire(t, reply) \/ ConfirmInDb(t, reply)
             \/ CancelInDb(t, reply) \/ Undo(t, reply)
  BY DEF Receive
<1>c. {"conflict", "error"} \subseteq Failures /\ (reply # "ok" => reply \in Failures)
  BY <1>1 DEF Failures
<1>2. /\ Moved(t)
      /\ \/ thread'[t].pc = "view_held" /\ thread[t].pc = "create" /\ reply = "ok"
         \/ thread'[t].pc = "finalize" /\ thread[t].pc = "confirm" /\ reply = "ok"
         \/ thread'[t].pc = "release_check" /\ thread[t].pc \in {"create", "cancel", "undo"}
         \/ thread'[t].pc = "undo" /\ thread[t].pc \in Confirming
         \/ thread'[t].pc = "done" /\ thread[t].pc # "idle" /\ thread'[t].reply # "ok"
  <2>1. CASE HoldCreate(t, reply)
    BY <1>a, <1>b, <2>1, Moves DEF HoldCreate, At
  <2>2. CASE ConfirmExpire(t, reply)
    BY <1>a, <1>c, <2>2, Moves DEF ConfirmExpire, At
  <2>3. CASE ConfirmInDb(t, reply)
    BY <1>a, <1>b, <1>c, <2>3, Moves DEF ConfirmInDb, At
  <2>4. CASE CancelInDb(t, reply)
    BY <1>a, <1>b, <1>c, <2>4, Moves DEF CancelInDb, At
  <2>5. CASE Undo(t, reply)
    BY <1>a, <1>b, <2>5, Moves DEF Undo, At
  <2> QED  BY <1>1, <2>1, <2>2, <2>3, <2>4, <2>5
<1>3. CASE call[t].pc = "done" /\ reply = call[t].reply /\ call' = [call EXCEPT ![t] = DB!Idle]
  BY <1>2, <1>3 DEF MoveStep, Edge
<1>4. CASE /\ call[t].pc \notin {"idle", "done"} /\ reply = "error"
           /\ \E l \in LateCalls : call' = [call EXCEPT ![t] = DB!Idle, ![l] = call[t]]
  BY <1>2, <1>4 DEF MoveStep, Edge
<1> QED  BY <1>1, <1>3, <1>4 DEF Answered

(* After a listing of the seats. *)
LEMMA Viewing ==
  ASSUME ControlInv, NEW t \in Threads, View(t) \/ ViewSeat(t)
  PROVE  MoveStep(t)
<1>a. thread \in [Threads -> Requests] /\ Threaded(t)
  BY DEF ControlInv
<1>b. {"reserve", "find_held", "status"} \subseteq PCs
  BY DEF PCs, Confirming
<1>c. {"error", "not_found"} \subseteq Failures
  BY DEF Failures
<1>1. PICK reply \in {"ok", "error"} : Viewed(t, reply)
  BY DEF View, ViewSeat
<1>2. thread[t].pc \in Views /\ thread[t].pc \notin Asking /\ call' = call
  BY DEF View, ViewSeat, Views, SeatViews, Asking
<1>3. Moved(t) /\ Edge(thread[t], thread'[t], call[t])
  <2>1. CASE HoldFind(t, reply)
    <3>1. Moved(t) /\ \/ thread'[t].pc = "reserve" /\ thread[t].seat # UnknownSeat
                      \/ thread'[t].pc = "done" /\ thread'[t].reply # "ok"
      BY <1>1, <1>a, <1>b, <1>c, <2>1, Moves DEF HoldFind
    <3> QED  BY <2>1, <3>1 DEF HoldFind, At, Edge
  <2>2. CASE HoldView(t, reply)
    <3>1. thread[t].op \in {"hold", "purchase"} /\ thread[t].pc = "view_held"
      BY <1>a, <2>2 DEF HoldView, At, Threaded, Fit, Holding
    <3>2. Moved(t) /\ \/ thread'[t].pc = "find_held" /\ thread[t].op = "purchase"
                      \/ thread'[t].pc = "done" /\ (thread'[t].reply # "ok" \/ thread[t].op # "purchase")
      BY <1>1, <1>a, <1>b, <1>c, <2>2, Moves DEF HoldView
    <3> QED  BY <3>1, <3>2 DEF Edge
  <2>3. CASE ConfirmFind(t, reply)
    <3>1. Moved(t) /\ \/ thread'[t].pc = "status"
                      \/ thread'[t].pc = "undo" /\ thread[t].pc \in Confirming
                      \/ thread'[t].pc = "done" /\ thread'[t].reply # "ok"
      BY <1>1, <1>a, <1>b, <1>c, <2>3, Moves DEF ConfirmFind
    <3> QED  BY <2>3, <3>1 DEF ConfirmFind, At, Edge
  <2>4. CASE ConfirmView(t, reply)
    <3>1. Moved(t) /\ \/ thread'[t].pc = "undo" /\ thread[t].pc \in Confirming
                      \/ thread'[t].pc = "done"
      BY <1>1, <1>a, <1>b, <1>c, <2>4, Moves DEF ConfirmView
    <3> QED  BY <2>4, <3>1 DEF ConfirmView, At, Edge
  <2>5. CASE CancelView(t, reply)
    <3>1. Moved(t) /\ thread'[t].pc = "done"
      BY <1>1, <1>a, <1>b, <1>c, <2>5, Moves DEF CancelView
    <3>2. thread[t].op = "cancel" /\ thread[t].pc = "view_cancelled"
      BY <1>a, <2>5 DEF CancelView, At, Threaded, Fit
    <3> QED  BY <3>1, <3>2 DEF Edge
  <2> QED  BY <1>1, <2>1, <2>2, <2>3, <2>4, <2>5 DEF Viewed
<1> QED  BY <1>2, <1>3 DEF MoveStep

(* After a Redis command. *)
Commanding(t) == HoldReserve(t) \/ ConfirmStatus(t) \/ Finalize(t) \/ ReleaseCheck(t) \/ Release(t)

(* A thread that got the reply to a command goes on by its program. *)
LEMMA Commands ==
  ASSUME ControlInv, NEW t \in Threads, Commanding(t)
  PROVE  MoveStep(t)
<1>a. thread \in [Threads -> Requests] /\ Threaded(t)
  BY DEF ControlInv
<1>b. {"create", "expire", "confirm", "finalize", "view_sold", "release", "view_cancelled"}
        \subseteq PCs
  BY DEF PCs, Views, SeatViews, Confirming
<1>c. {"error", "conflict"} \subseteq Failures
  BY DEF Failures
<1>1. call' = call /\ thread[t].pc \notin Asking
  BY DEF Commanding, HoldReserve, ConfirmStatus, Finalize, Finalized, ReleaseCheck, Release, At, Asking
<1>2. ASSUME Released(t), thread[t].pc \in {"release_check", "release"}
      PROVE  Moved(t) /\ Edge(thread[t], thread'[t], call[t])
  <2>1. /\ Moved(t)
        /\ \/ thread'[t].pc = "view_cancelled" /\ thread[t].op = "cancel"
           \/ thread'[t].pc = "done" /\ thread'[t].reply # "ok"
    BY <1>a, <1>b, <1>c, <1>2, Moves DEF Released
  <2> QED  BY <1>2, <2>1 DEF Edge
<1>3. Moved(t) /\ Edge(thread[t], thread'[t], call[t])
  <2>1. CASE HoldReserve(t)
    <3>1. Finish(t, "error") \/ Goto(t, "create") \/ Finish(t, "conflict")
      BY <2>1 DEF HoldReserve
    <3>2. Moved(t) /\ (thread'[t].pc = "create" \/ (thread'[t].pc = "done" /\ thread'[t].reply # "ok"))
      BY <1>a, <1>b, <1>c, <3>1, Moves
    <3> QED  BY <2>1, <3>2 DEF HoldReserve, At, Edge
  <2>2. CASE ConfirmStatus(t)
    <3>1. Raise(t, "error") \/ Goto(t, "expire") \/ Raise(t, "conflict") \/ Goto(t, "confirm")
      BY <2>2 DEF ConfirmStatus
    <3>2. /\ Moved(t)
          /\ \/ thread'[t].pc \in {"expire", "confirm"}
             \/ thread'[t].pc = "undo" /\ thread[t].pc \in Confirming
             \/ thread'[t].pc = "done" /\ thread'[t].reply # "ok"
      BY <1>a, <1>b, <1>c, <3>1, Moves
    <3> QED  BY <2>2, <3>2 DEF ConfirmStatus, At, Edge
  <2>3. CASE Finalize(t)
    <3>1. \/ Goto(t, "view_sold")
          \/ thread[t].tries + 1 < Attempts /\ thread' = [thread EXCEPT ![t].tries = @ + 1]
          \/ Raise(t, "error")
      BY <2>3 DEF Finalize, Finalized
    <3>2. ASSUME thread[t].tries + 1 < Attempts, thread' = [thread EXCEPT ![t].tries = @ + 1]
          PROVE  Moved(t) /\ thread'[t].pc = thread[t].pc
      <4> DEFINE y == [thread[t] EXCEPT !.tries = @ + 1]
      <4>1. y \in Requests /\ y.pc = thread[t].pc /\ Kept(thread[t], y)
        BY <1>a, <3>2 DEF Requests, Kept, Attempts
      <4>2. thread' = [thread EXCEPT ![t] = y]
        BY <3>2
      <4> HIDE DEF y
      <4> QED  BY <1>a, <4>1, <4>2 DEF Moved
    <3>3. /\ Moved(t)
          /\ \/ thread'[t].pc \in {"view_sold", thread[t].pc}
             \/ thread'[t].pc = "undo" /\ thread[t].pc \in Confirming
             \/ thread'[t].pc = "done" /\ thread'[t].reply # "ok"
      BY <1>a, <1>b, <1>c, <3>1, <3>2, Moves
    <3> QED  BY <2>3, <3>3 DEF Finalize, Finalized, At, Edge
  <2>4. CASE ReleaseCheck(t)
    <3>1. Goto(t, "release") \/ Released(t)
      BY <2>4 DEF ReleaseCheck
    <3>2. thread[t].pc = "release_check"
      BY <2>4 DEF ReleaseCheck, At
    <3>3. Goto(t, "release") => Moved(t) /\ thread'[t].pc = "release"
      BY <1>a, <1>b, Moves
    <3> QED  BY <1>2, <3>1, <3>2, <3>3 DEF Edge
  <2>5. CASE Release(t)
    BY <1>2, <2>5 DEF Release, At
  <2> QED  BY <2>1, <2>2, <2>3, <2>4, <2>5 DEF Commanding
<1> QED  BY <1>1, <1>3 DEF MoveStep

-----------------------------------------------------------------------------
(* A step of a thread preserves the invariant. *)

ThreadStep(t) == /\ StartStep(t) \/ SendStep(t) \/ MoveStep(t)
                 /\ QuietTables /\ worker' = worker

(* A request under way has a transaction to come. *)
LEMMA IdleCall ==
  ASSUME NEW x \in DBP!Call, x.pc = "idle"
  PROVE  x = DB!Idle
BY DBP!CallCases, DBAssumptions, SameStates DEF DBP!CallOf

(* Requests to the DB service are well typed; None is no reservation id. *)
LEMMA CallTypes ==
  ASSUME DBInv
  PROVE  /\ call \in [Callers -> DBP!Call]
         /\ \A r \in ReservationIds : r # None
BY DBAssumptions, IdAssumption DEF DBInv, DBP!IInv, DBP!TypeOK

(* A thread that goes on waits for nothing; a request it gave up waiting   *)
(* for is a late call now.                                                 *)
LEMMA MoveCalls ==
  ASSUME DBInv, ControlInv, NEW t \in Threads, MoveStep(t)
  PROVE  /\ call'[t] = DB!Idle
         /\ \A c \in Callers \ {t} :
              \/ call'[c] = call[c]
              \/ /\ c \in LateCalls /\ call'[c] = call[t]
                 /\ call[t].pc \notin {"idle", "done"}
<1>a. call \in [Callers -> DBP!Call] /\ t \in Callers /\ t \notin LateCalls
  BY CallTypes, CallersAssumption DEF Callers
<1>1. CASE thread[t].pc \notin Asking /\ call' = call
  <2>1. call[t].pc = "idle"
    BY <1>1 DEF ControlInv, Threaded, Fit
  <2> QED  BY <1>1, <1>a, <2>1, IdleCall
<1>2. CASE call[t].pc = "done" /\ call' = [call EXCEPT ![t] = DB!Idle]
  BY <1>2, <1>a
<1>3. ASSUME NEW l \in LateCalls, call[t].pc \notin {"idle", "done"},
             call' = [call EXCEPT ![t] = DB!Idle, ![l] = call[t]]
      PROVE  /\ call'[t] = DB!Idle
             /\ \A c \in Callers \ {t} :
                  \/ call'[c] = call[c]
                  \/ /\ c \in LateCalls /\ call'[c] = call[t]
                     /\ call[t].pc \notin {"idle", "done"}
  BY <1>3, <1>a DEF Callers
<1> QED  BY <1>1, <1>2, <1>3 DEF MoveStep

(* Threads and calls before and after a step of thread t, in the terms     *)
(* the invariant is about.                                                 *)
StartsAs(t, y) ==
  /\ thread[t].pc = "idle" /\ thread'[t] = y /\ y \in Requests
  /\ \A c \in Callers : call'[c] = call[c]
  /\ y.user \in Users
  /\ \/ /\ y.pc = "find" /\ y.op \in {"hold", "purchase"}
        /\ y.rid = None /\ y.seat \in Seats \cup {UnknownSeat}
     \/ /\ (y.pc = "find_held" /\ y.op = "confirm") \/ (y.pc = "cancel" /\ y.op = "cancel")
        /\ y.rid \in ReservationIds /\ reservations[y.rid] # None
        /\ y.seat = SeatOf(y.rid) /\ y.user = UserOf(y.rid) /\ y.seat \in Seats
SendsAs(t, x) ==
  /\ x.op = OpAt(thread[t].pc) /\ x.pc = "sweep"
  /\ x.op = "cancel" => x.payload = None
  /\ thread[t].pc \in Asking /\ call[t].pc = "idle" /\ call'[t] = x
  /\ \A c \in Callers \ {t} : call'[c] = call[c]
  /\ thread'[t].pc = thread[t].pc /\ thread'[t].reply = thread[t].reply
  /\ thread'[t].op = thread[t].op
  /\ thread'[t].seat = thread[t].seat /\ thread'[t].user = thread[t].user
  /\ thread'[t].rid = x.rid
  /\ x.op # "create" => thread[t].rid = x.rid
  /\ x.op = "create" => /\ x.rid \in ReservationIds /\ FreshId(x.rid)
                        /\ x.payload.seat = thread[t].seat /\ x.payload.user = thread[t].user
MovesOn(t) ==
  /\ Kept(thread[t], thread'[t]) /\ Edge(thread[t], thread'[t], call[t])
  /\ call'[t] = DB!Idle
  /\ \A c \in Callers \ {t} :
       \/ call'[c] = call[c]
       \/ /\ c \in LateCalls /\ call'[c] = call[t]
          /\ call[t].pc \notin {"idle", "done"}

(* Each step of a thread is one of the three. *)
LEMMA ThreadCases ==
  ASSUME DBInv, ControlInv, NEW t \in Threads, ThreadStep(t)
  PROVE  /\ CallStep(t)
         /\ thread' \in [Threads -> Requests]
         /\ \A v \in Threads \ {t} : thread'[v] = thread[v]
         /\ (\E y : StartsAs(t, y)) \/ (\E x : SendsAs(t, x)) \/ MovesOn(t)
<1>a. /\ call \in [Callers -> DBP!Call] /\ t \in Callers
      /\ thread \in [Threads -> Requests]
  BY CallTypes DEF Callers, ControlInv
<1>1. CASE StartStep(t)
  <2>1. PICK y \in Requests :
          /\ thread[t].pc = "idle" /\ thread' = [thread EXCEPT ![t] = y] /\ call' = call
          /\ y.user \in Users
          /\ \/ /\ y.pc = "find" /\ y.op \in {"hold", "purchase"}
                /\ y.rid = None /\ y.seat \in Seats \cup {UnknownSeat}
             \/ /\ \/ y.pc = "find_held" /\ y.op = "confirm"
                   \/ y.pc = "cancel" /\ y.op = "cancel"
                /\ y.rid \in ReservationIds /\ reservations[y.rid] # None
                /\ y.seat = SeatOf(y.rid) /\ y.user = UserOf(y.rid) /\ y.seat \in Seats
    BY <1>1 DEF StartStep
  <2>2. /\ thread' \in [Threads -> Requests] /\ thread'[t] = y
        /\ \A v \in Threads \ {t} : thread'[v] = thread[v]
    BY <1>a, <2>1
  <2>3. StartsAs(t, y)
    BY <2>1, <2>2 DEF StartsAs
  <2> QED  BY <2>1, <2>2, <2>3 DEF CallStep
<1>2. CASE SendStep(t)
  <2>1. PICK x :
          /\ Fresh(x) /\ x.op = OpAt(thread[t].pc)
          /\ x.op = "cancel" => x.payload = None
          /\ thread[t].pc \in Asking /\ call[t].pc = "idle" /\ call' = [call EXCEPT ![t] = x]
          /\ \/ x.op # "create" /\ x.rid = thread[t].rid /\ thread' = thread
             \/ /\ x.op = "create" /\ x.rid \in ReservationIds /\ FreshId(x.rid)
                /\ x.payload.seat = thread[t].seat /\ x.payload.user = thread[t].user
                /\ thread' = [thread EXCEPT ![t].rid = x.rid]
    BY <1>2 DEF SendStep
  <2>2. /\ thread' \in [Threads -> Requests] /\ thread'[t].rid = x.rid
        /\ thread'[t].pc = thread[t].pc /\ thread'[t].reply = thread[t].reply
        /\ thread'[t].op = thread[t].op
        /\ thread'[t].seat = thread[t].seat /\ thread'[t].user = thread[t].user
        /\ \A v \in Threads \ {t} : thread'[v] = thread[v]
    <3>1. CASE thread' = thread /\ x.rid = thread[t].rid
      BY <1>a, <3>1
    <3>2. CASE x.rid \in ReservationIds /\ thread' = [thread EXCEPT ![t].rid = x.rid]
      <4> DEFINE y == [thread[t] EXCEPT !.rid = x.rid]
      <4>1. /\ y \in Requests /\ y.rid = x.rid /\ y.pc = thread[t].pc
            /\ y.reply = thread[t].reply /\ y.op = thread[t].op
            /\ y.seat = thread[t].seat /\ y.user = thread[t].user
        BY <1>a, <3>2 DEF Requests
      <4>2. thread' = [thread EXCEPT ![t] = y]
        BY <3>2
      <4> HIDE DEF y
      <4> QED  BY <1>a, <4>1, <4>2
    <3> QED  BY <2>1, <3>1, <3>2
  <2>3. call'[t] = x /\ \A c \in Callers \ {t} : call'[c] = call[c]
    BY <1>a, <2>1
  <2>4. SendsAs(t, x)
    BY <2>1, <2>2, <2>3 DEF SendsAs, Fresh
  <2> QED  BY <2>1, <2>2, <2>4 DEF CallStep
<1>3. CASE MoveStep(t)
  <2>1. MovesOn(t)
    <3>1. Kept(thread[t], thread'[t]) /\ Edge(thread[t], thread'[t], call[t])
      BY <1>3 DEF MoveStep, Moved
    <3> QED  BY <1>3, <3>1, MoveCalls DEF MovesOn
  <2>2. CallStep(t)
    BY <1>3 DEF MoveStep, CallStep
  <2> QED  BY <1>3, <2>1, <2>2 DEF MoveStep, Moved
<1> QED  BY <1>1, <1>2, <1>3 DEF ThreadStep

(* The program of a request keeps what its steps rely on. *)
LEMMA EdgeFits ==
  ASSUME NEW x, NEW y, NEW z, NEW w, Fit(x, z), Kept(x, y), Edge(x, y, z), w.pc = "idle"
  PROVE  Fit(y, w)
BY DEF Fit, Kept, Edge, Confirming, Holding, Asking, OpAt

(* A request that is sent belongs to the step its thread is at. *)
LEMMA SendFits ==
  ASSUME DBInv, NEW t \in Threads, NEW x, SendsAs(t, x), Fit(thread[t], call[t])
  PROVE  Fit(thread'[t], call'[t])
<1>1. x.op = "create" => thread[t].pc = "create" /\ x.rid # None
  BY CallTypes DEF SendsAs, OpAt, Asking
<1> QED  BY <1>1 DEF SendsAs, Fit, OpAt, Asking, Confirming, Holding

(* A request starts with what its first step needs. *)
LEMMA StartFits ==
  ASSUME DBInv, NEW t \in Threads, NEW y, StartsAs(t, y), Fit(thread[t], call[t])
  PROVE  Fit(thread'[t], call'[t])
<1>1. call'[t].pc = "idle"
  BY DEF StartsAs, Fit, Asking, Callers
<1>2. y.rid \in ReservationIds => y.rid # None
  BY CallTypes
<1> QED  BY <1>1, <1>2 DEF StartsAs, Fit, Confirming, Holding

(* Reservation ids, seats and users of threads never change. *)
LEMMA RidsStay ==
  ASSUME DBInv, ControlInv, NEW t \in Threads, ThreadStep(t)
  PROVE  \A v \in Threads : thread[v].rid # None =>
           /\ thread'[v].rid = thread[v].rid
           /\ thread'[v].seat = thread[v].seat /\ thread'[v].user = thread[v].user
<1>1. Fit(thread[t], call[t])
  BY DEF ControlInv, Threaded
<1>2. ASSUME thread[t].rid # None
      PROVE  /\ thread'[t].rid = thread[t].rid
             /\ thread'[t].seat = thread[t].seat /\ thread'[t].user = thread[t].user
  <2>1. CASE \E y : StartsAs(t, y)
    BY <1>1, <1>2, <2>1 DEF StartsAs, Fit
  <2>2. CASE \E x : SendsAs(t, x)
    <3>1. PICK x : SendsAs(t, x)
      BY <2>2
    <3>2. x.op # "create"
      BY <1>1, <1>2, <3>1 DEF SendsAs, Fit, OpAt, Asking
    <3> QED  BY <3>1, <3>2 DEF SendsAs
  <2>3. CASE MovesOn(t)
    BY <2>3 DEF MovesOn, Kept
  <2> QED  BY <2>1, <2>2, <2>3, ThreadCases
<1> QED  BY <1>2, ThreadCases

(* A thread that is going to finalize a sale has made it. *)
LEMMA MovesToFinalize ==
  ASSUME DBInv, CallsInv, IdInv, NEW t \in Threads, Threaded(t), MovesOn(t),
         thread'[t].pc = "finalize"
  PROVE  Paid(thread'[t].seat, thread'[t].user)
<1>1. CASE thread[t].pc = "finalize"
  BY <1>1 DEF Threaded, MovesOn, Kept
<1>2. CASE thread[t].pc = "confirm" /\ call[t].pc = "done" /\ call[t].reply = "ok"
  <2>1. call[t].op = "confirm" /\ call[t].rid = thread[t].rid
    BY <1>2 DEF Threaded, Fit, OpAt
  <2>2. t \in Callers /\ call[t] \in DBP!Call
    BY CallTypes DEF Callers
  <2>3. PaidRow(thread[t].rid)
    BY <1>2, <2>1, <2>2 DEF CallsInv
  <2>4. thread[t].rid \in ReservationIds /\ thread[t].rid # None
    BY <2>1, <2>2, DBP!CallFields, DBAssumptions, CallTypes
  <2>5. SeatOf(thread[t].rid) = thread[t].seat /\ UserOf(thread[t].rid) = thread[t].user
    BY <2>3, <2>4 DEF IdInv, Named, PaidRow
  <2> QED  BY <2>3, <2>4, <2>5 DEF Paid, MovesOn, Kept
<1> QED  BY <1>1, <1>2 DEF MovesOn, Edge

(* The DB service under a step of a thread. *)
LEMMA ThreadQuiet ==
  ASSUME DBInv, ControlInv, NEW t \in Threads, ThreadStep(t)
  PROVE  /\ DBInv' /\ TableStep
         /\ \A r \in ReservationIds :
              /\ reservations[r] = None => reservations'[r] = None
              /\ DB!HasStatus(r, "CONFIRMED")' <=> DB!HasStatus(r, "CONFIRMED")
BY ThreadCases, QuietEffect DEF ThreadStep, Callers

(* Threads stay in step with their programs. *)
LEMMA ThreadKeepsControl ==
  ASSUME DBInv, ControlInv, CallsInv, IdInv, NEW t \in Threads, ThreadStep(t)
  PROVE  thread' \in [Threads -> Requests] /\ \A v \in Threads : Threaded(v)'
<1>1. TableStep
  BY ThreadQuiet
<1>2. \A v \in Threads : Threaded(v)
  BY DEF ControlInv
<1>3. ASSUME NEW v \in Threads \ {t}
      PROVE  Threaded(v)'
  <2>1. thread'[v] = thread[v]
    BY <1>3, ThreadCases
  <2>2. v \in Callers \ {t} /\ v \notin LateCalls
    BY <1>3, CallersAssumption DEF Callers
  <2>3. call'[v] = call[v]
    BY <2>2, ThreadCases DEF StartsAs, SendsAs, MovesOn
  <2>4. ASSUME thread'[v].pc = "finalize"
        PROVE  Paid(thread[v].seat, thread[v].user)'
    <3>1. Paid(thread[v].seat, thread[v].user)
      BY <1>2, <1>3, <2>1, <2>4 DEF Threaded
    <3> QED  BY <1>1, <2>1, <3>1, TableStepKeeps DEF Paid, PaidRow, SeatOf, UserOf
  <2> QED  BY <1>2, <1>3, <2>1, <2>3, <2>4 DEF Threaded
<1>4. Threaded(t)'
  <2>1. CASE \E y : StartsAs(t, y)
    <3>1. Fit(thread'[t], call'[t])
      BY <1>2, <2>1, StartFits DEF Threaded
    <3>2. thread'[t].pc # "finalize"
      BY <2>1 DEF StartsAs
    <3> QED  BY <3>1, <3>2 DEF Threaded
  <2>2. CASE \E x : SendsAs(t, x)
    <3>1. Fit(thread'[t], call'[t])
      BY <1>2, <2>2, SendFits DEF Threaded
    <3>2. thread'[t].pc # "finalize"
      BY <2>2 DEF SendsAs, Asking
    <3> QED  BY <3>1, <3>2 DEF Threaded
  <2>3. CASE MovesOn(t)
    <3>1. call'[t].pc = "idle"
      BY <2>3 DEF MovesOn, DB!Idle
    <3>2. Fit(thread'[t], call'[t])
      BY <1>2, <2>3, <3>1, EdgeFits DEF Threaded, MovesOn
    <3>3. ASSUME thread'[t].pc = "finalize"
          PROVE  Paid(thread[t].seat, thread[t].user)'
      BY <1>1, <1>2, <2>3, <3>3, MovesToFinalize, TableStepKeeps DEF Paid, PaidRow, SeatOf, UserOf
    <3> QED  BY <3>2, <3>3 DEF Threaded
  <2> QED  BY <2>1, <2>2, <2>3, ThreadCases
<1> QED  BY <1>3, <1>4, ThreadCases

(* The answers of the DB service stay true. *)
LEMMA ThreadKeepsCalls ==
  ASSUME DBInv, ControlInv, CallsInv, NEW t \in Threads, ThreadStep(t)
  PROVE  CallsInv'
<1> SUFFICES ASSUME NEW c \in Callers
             PROVE  /\ call'[c].op = "cancel" => call'[c].payload = None
                    /\ (call'[c].op = "confirm" /\ call'[c].pc = "done" /\ call'[c].reply = "ok")
                         => /\ reservations'[call'[c].rid] # None
                            /\ payments'[call'[c].rid] # None
                            /\ payments'[call'[c].rid].status = "SUCCEEDED"
  BY DEF CallsInv, PaidRow
<1>1. CASE \E d \in Callers : call'[c] = call[d]
  <2>1. PICK d \in Callers : call'[c] = call[d]
    BY <1>1
  <2>2. call[d].op = "confirm" => call[d].rid \in ReservationIds
    BY CallTypes, DBP!CallFields, DBAssumptions
  <2>3. call[d].op = "cancel" => call[d].payload = None
    BY DEF CallsInv
  <2>4. ASSUME call[d].op = "confirm", call[d].pc = "done", call[d].reply = "ok"
        PROVE  PaidRow(call[d].rid) /\ call[d].rid \in ReservationIds
    BY <2>2, <2>4 DEF CallsInv
  <2> QED  BY <2>1, <2>3, <2>4, ThreadQuiet DEF TableStep, PaidRow
<1>2. CASE call'[c] = DB!Idle
  BY <1>2 DEF DB!Idle
<1>3. ASSUME NEW x, SendsAs(t, x), c = t
      PROVE  /\ call'[c].op = "cancel" => call'[c].payload = None
             /\ call'[c].pc # "done"
  BY <1>3 DEF SendsAs
<1>4. t \in Callers
  BY DEF Callers
<1> QED  BY <1>1, <1>2, <1>3, <1>4, ThreadCases DEF StartsAs, SendsAs, MovesOn

(* Ids stay with the seat and the user of the threads they belong to. *)
LEMMA ThreadKeepsIds ==
  ASSUME DBInv, ControlInv, IdInv, NEW t \in Threads, ThreadStep(t)
  PROVE  IdInv'
<1>a. \A r \in ReservationIds : r # None /\ (reservations[r] = None => reservations'[r] = None)
  BY ThreadQuiet, CallTypes
<1>b. ASSUME NEW r, r # None, Owned(r) PROVE Owned(r)'
  BY <1>b, RidsStay DEF Owned
<1>c. Fit(thread[t], call[t]) /\ t \in Callers
  BY DEF ControlInv, Threaded, Callers
<1>1. ASSUME NEW r \in ReservationIds, reservations'[r] # None
      PROVE  Owned(r)'
  BY <1>1, <1>a, <1>b DEF IdInv, OwnedInv
<1>2. ASSUME NEW c \in Callers, call'[c].op = "create"
      PROVE  /\ \E v \in Threads : thread'[v].rid = call'[c].rid
             /\ \/ \E d \in Callers : call'[c] = call[d]
                \/ \E x : SendsAs(t, x) /\ c = t
  <2>1. CASE \E d \in Callers : call'[c] = call[d]
    <3>1. PICK d \in Callers : call'[c] = call[d]
      BY <2>1
    <3>2. call[d].rid # None
      BY <1>2, <1>a, <3>1, CallTypes, DBP!CallFields, DBAssumptions
    <3>3. PICK v \in Threads : thread[v].rid = call[d].rid
      BY <1>2, <3>1 DEF IdInv, OwnedInv, Owned
    <3> QED  BY <2>1, <3>1, <3>2, <3>3, RidsStay
  <2>2. ASSUME NEW x, SendsAs(t, x), c = t
        PROVE  \E v \in Threads : thread'[v].rid = call'[c].rid
    BY <2>2 DEF SendsAs
  <2>3. call'[c] # DB!Idle
    BY <1>2 DEF DB!Idle
  <2> QED  BY <1>c, <2>1, <2>2, <2>3, ThreadCases DEF StartsAs, SendsAs, MovesOn
<1>3. ASSUME NEW v \in Threads, thread'[v].rid # None
      PROVE  Named(v)'
  <2> DEFINE r == thread'[v].rid
  <2>a. r \in ReservationIds
    BY <1>3, ThreadCases DEF Requests
  <2>1. CASE thread[v].rid # None
    <3>1. /\ thread[v].rid = r
          /\ thread'[v].seat = thread[v].seat /\ thread'[v].user = thread[v].user
      BY <2>1, RidsStay
    <3>2. ASSUME reservations'[r] # None
          PROVE  reservations'[r].seat = thread'[v].seat /\ reservations'[r].user = thread'[v].user
      <4>1. reservations[r] # None /\ DBP!RowKept(reservations', r)
        BY <1>a, <2>a, <3>2, ThreadQuiet DEF TableStep
      <4> QED  BY <2>1, <3>1, <4>1 DEF IdInv, Named, DBP!RowKept, SeatOf, UserOf
    <3>3. ASSUME NEW c \in Callers, call'[c].op = "create", call'[c].rid = r
          PROVE  /\ call'[c].payload.seat = thread'[v].seat
                 /\ call'[c].payload.user = thread'[v].user
      <4>1. CASE \E d \in Callers : call'[c] = call[d]
        BY <2>1, <3>1, <3>3, <4>1 DEF IdInv, Named
      <4>2. ASSUME NEW x, SendsAs(t, x), c = t
            PROVE  FALSE
        <5>1. x.op = "create" /\ FreshId(x.rid) /\ x.rid = r
          BY <3>3, <4>2 DEF SendsAs
        <5> QED  BY <3>1, <5>1 DEF FreshId
      <4> QED  BY <1>2, <3>3, <4>1, <4>2
    <3> QED  BY <3>2, <3>3 DEF Named, SeatOf, UserOf
  <2>2. CASE thread[v].rid = None
    <3>1. v = t
      BY <1>3, <2>2, ThreadCases
    <3>2. ASSUME NEW y, StartsAs(t, y)
          PROVE  Named(v)'
      <4>1. /\ thread'[v] = y /\ r = y.rid /\ reservations[r] # None
            /\ y.seat = SeatOf(r) /\ y.user = UserOf(r)
        BY <1>3, <3>1, <3>2 DEF StartsAs
      <4>2. DBP!RowKept(reservations', r)
        BY <2>a, <4>1, ThreadQuiet DEF TableStep
      <4>3. ASSUME NEW c \in Callers, call'[c].op = "create", call'[c].rid = r
            PROVE  call'[c].payload.seat = y.seat /\ call'[c].payload.user = y.user
        <5>1. call'[c] = call[c]
          BY <3>2 DEF StartsAs
        <5>2. PICK w \in Threads : thread[w].rid = r
          BY <2>a, <4>1 DEF IdInv, OwnedInv, Owned
        <5>3. Named(w)
          BY DEF IdInv
        <5> QED  BY <1>a, <2>a, <4>1, <4>3, <5>1, <5>2, <5>3 DEF Named
      <4> QED  BY <4>1, <4>2, <4>3 DEF Named, SeatOf, UserOf, DBP!RowKept
    <3>3. ASSUME NEW x, SendsAs(t, x)
          PROVE  Named(v)'
      <4>1. x.op = "create"
        BY <1>3, <2>2, <3>1, <3>3 DEF SendsAs
      <4>2. /\ r = x.rid /\ FreshId(r) /\ x.payload.seat = thread'[v].seat
            /\ x.payload.user = thread'[v].user
        BY <3>1, <3>3, <4>1 DEF SendsAs
      <4>3. reservations'[r] = None
        BY <1>a, <2>a, <4>2 DEF FreshId
      <4>4. ASSUME NEW c \in Callers, call'[c].rid = r PROVE call'[c] = x
        BY <3>3, <4>2, <4>4 DEF SendsAs, FreshId
      <4> QED  BY <4>2, <4>3, <4>4 DEF Named
    <3>4. ~MovesOn(t)
      BY <1>3, <2>2, <3>1 DEF MovesOn, Kept
    <3> QED  BY <3>2, <3>3, <3>4, ThreadCases
  <2> QED  BY <2>1, <2>2
<1>4. OwnedInv'
  BY <1>1, <1>2 DEF OwnedInv, Owned
<1>5. \A v \in Threads : Named(v)'
  BY <1>3 DEF Named
<1> QED  BY <1>4, <1>5 DEF IdInv

(* The reconciler does not notice the steps of others. *)
LEMMA WorkerStays ==
  ASSUME DBInv, ControlInv, TableStep, WorkerInv, worker' = worker
  PROVE  WorkerInv'
<1>1. Listed(worker) \cup worker.expired \subseteq ReservationIds
  BY DEF ControlInv, Passes, Listed
<1>2. \A r \in ReservationIds : /\ PaidRow(r) => PaidRow(r)'
                                /\ Lapsed(r) => Lapsed(r)'
                                /\ reservations[r] # None => reservations'[r] # None
  BY TableStepKeeps DEF TableStep
<1> QED  BY <1>1, <1>2 DEF WorkerInv, Sane, Listed

(* Nor does its expire request: a row that is not HELD is not HELD again. *)
LEMMA ExpiryStays ==
  ASSUME DBInv, ControlInv, TableStep, WorkerInv, ExpiryInv, worker' = worker,
         call'[Reconciler] = call[Reconciler]
  PROVE  ExpiryInv'
<1>1. ASSUME call[Reconciler].pc # "idle"
      PROVE  /\ call[Reconciler].rid \in ReservationIds
             /\ reservations[call[Reconciler].rid] # None
  BY <1>1 DEF ExpiryInv, WorkerInv, Sane, Listed, ControlInv, Passes
<1>2. ASSUME call[Reconciler].pc = "read"
      PROVE  ~(/\ reservations'[call[Reconciler].rid] # None
               /\ reservations'[call[Reconciler].rid].status = "HELD")
  <2>1. ~DB!HasStatus(call[Reconciler].rid, "HELD")
    BY <1>2 DEF ExpiryInv
  <2> QED  BY <1>1, <1>2, <2>1, TableStepKeeps DEF DB!HasStatus
<1> QED  BY <1>2 DEF ExpiryInv, DB!HasStatus

(* A thread that is on the way to report a sale has a reservation. *)
LEMMA BoughtRow ==
  ASSUME ControlInv, NEW t \in Threads, Bought(t)
  PROVE  thread[t].rid \in ReservationIds /\ thread[t].rid # None
BY DEF ControlInv, Threaded, Fit, Requests, Bought, Sold, Confirming

(* No thread sells or undoes anything itself: sales stay.                  *)
LEMMA ThreadKeepsSales ==
  ASSUME DBInv, ControlInv, SalesInv, NEW t \in Threads, ThreadStep(t)
  PROVE  SalesInv'
<1>a. LateCalls \cup Threads \subseteq Callers /\ \A v \in Threads : v \notin LateCalls
  BY CallersAssumption DEF Callers
<1>b. /\ raced' = raced
      /\ \A r \in ReservationIds : DB!HasStatus(r, "CONFIRMED")' <=> DB!HasStatus(r, "CONFIRMED")
  BY ThreadQuiet DEF ThreadStep, QuietTables
<1>1. ASSUME NEW c \in Threads \cup LateCalls, NEW r \in ReservationIds,
             Undoing(c, r)', DB!HasStatus(r, "CONFIRMED")'
      PROVE  r \in raced
  <2>1. c \in Callers /\ t \in Callers
    BY <1>a
  <2>2. call'[c] \in {call[c], call[t]}
    BY <1>1, <1>a, <2>1, ThreadCases DEF Undoing, StartsAs, SendsAs, MovesOn, Fresh, DB!Idle
  <2>3. \E d \in {c, t} : Undoing(d, r)
    BY <1>1, <2>2 DEF Undoing
  <2> QED  BY <1>1, <1>b, <2>3 DEF SalesInv, RaceInv
<1>2. ASSUME NEW v \in Threads, Bought(v)'
      PROVE  /\ Bought(v) /\ thread'[v].rid = thread[v].rid
             /\ thread[v].rid \in ReservationIds
  <2>1. Bought(v)
    <3>1. CASE v # t
      <4>1. thread'[v] = thread[v] /\ call'[v] = call[v]
        BY <1>a, <3>1, ThreadCases DEF StartsAs, SendsAs, MovesOn
      <4> QED  BY <1>2, <4>1 DEF Bought, Sold
    <3>2. CASE v = t
      <4>1. ~\E y : StartsAs(t, y)
        BY <1>2, <3>2 DEF StartsAs, Bought, Sold
      <4>2. CASE \E x : SendsAs(t, x)
        BY <1>2, <3>2, <4>2 DEF SendsAs, Bought, Sold, Asking
      <4>3. CASE MovesOn(t)
        <5>1. call'[t].pc = "idle" /\ Kept(thread[t], thread'[t])
              /\ Edge(thread[t], thread'[t], call[t])
          BY <4>3 DEF MovesOn, DB!Idle
        <5>2. thread'[t].pc \in {"finalize", "view_sold"} \/ Sold(t)'
          BY <1>2, <3>2, <5>1 DEF Bought
        <5> QED  BY <3>2, <5>1, <5>2 DEF Edge, Kept, Bought, Sold
      <4> QED  BY <4>1, <4>2, <4>3, ThreadCases
    <3> QED  BY <3>1, <3>2
  <2>2. thread[v].rid \in ReservationIds /\ thread[v].rid # None
    BY <2>1, BoughtRow
  <2> QED  BY <2>1, <2>2, RidsStay
<1>3. ASSUME NEW v \in Threads, Bought(v)'
      PROVE  SaleInv(v)'
  <2>a. PICK r : r = thread[v].rid
    OBVIOUS
  <2>1. /\ DB!HasStatus(r, "CONFIRMED") \/ r \in raced
        /\ r \in ReservationIds /\ r = thread'[v].rid
    BY <1>2, <1>3, <2>a DEF SalesInv, SaleInv
  <2> QED  BY <1>b, <2>1 DEF SaleInv
<1>4. RaceInv'
  BY <1>1, <1>b DEF SalesInv, RaceInv
<1>5. ASSUME NEW v \in Threads PROVE SaleInv(v)'
  BY <1>3 DEF SaleInv
<1> QED  BY <1>4, <1>5 DEF SalesInv

-----------------------------------------------------------------------------
(* Redis. *)

(* A command leaves a well-formed seat, and makes it CONFIRMED for a user  *)
(* only if it is a FORCE_CONFIRM_SEAT for that user.                       *)
LEMMA OutcomeSound ==
  ASSUME redis \in [Seats -> Redis!Slot], now \in Nat, NEW c \in Writes \cup Reads
  PROVE  /\ Outcome(c).entry \in Redis!Slot
         /\ \A u : Redis!ConfirmedBy(Outcome(c).entry, u) =>
              \/ Redis!ConfirmedBy(redis[c.seat], u)
              \/ c.name = "FORCE_CONFIRM_SEAT" /\ c.user = u
<1> DEFINE e == Seat(c.seat)
<1>a. /\ c.seat \in Seats
      /\ c.name \in {"RESERVE_SEAT", "RELEASE_SEAT", "FORCE_CONFIRM_SEAT", "SEAT_STATUS"}
      /\ c.name # "SEAT_STATUS" => c.user \in Users /\ c.seconds \in Nat
  <2>1. CASE c \in Writes
    <3>1. /\ c.seat \in Seats /\ c.user \in Users /\ c.seconds \in HoldSeconds \cup {0}
          /\ c.name \in {"RESERVE_SEAT", "RELEASE_SEAT", "FORCE_CONFIRM_SEAT"}
      BY <2>1 DEF Writes
    <3>2. \A n \in HoldSeconds \cup {0} : n \in Nat
      BY HoldAssumption
    <3> QED  BY <3>1, <3>2
  <2>2. CASE c \in Reads
    BY <2>2 DEF Reads
  <2> QED  BY <2>1, <2>2
<1>b. e \in {None, redis[c.seat]} /\ None \in Redis!Slot /\ redis[c.seat] \in Redis!Slot
  BY <1>a DEF Seat, Redis!Fresh, Redis!Slot
<1>c. \A u : ~Redis!ConfirmedBy(None, u)
  BY DEF Redis!ConfirmedBy, Redis!HasSeat
<1>1. ASSUME Outcome(c).entry \in {e, None, redis[c.seat]}
      PROVE  /\ Outcome(c).entry \in Redis!Slot
             /\ \A u : Redis!ConfirmedBy(Outcome(c).entry, u) => Redis!ConfirmedBy(redis[c.seat], u)
  BY <1>1, <1>b, <1>c
<1>2. CASE c.name = "RESERVE_SEAT"
  <2> DEFINE h == Redis!Held(c.user, now + c.seconds)
  <2>1. Outcome(c).entry \in {e, h}
    BY <1>2 DEF Outcome, Redis!ReserveOutcome, Redis!Typed, Redis!Outcome, Redis!compute_deadline
  <2>2. h \in Redis!Slot /\ \A u : ~Redis!ConfirmedBy(h, u)
    <3>1. h.value \in Redis!SeatValue /\ h.expires_at \in Nat /\ h.value.state = "HELD"
      BY <1>2, <1>a DEF Redis!Held, Redis!SeatValue
    <3>2. h \in Redis!Entry
      BY <1>2, <1>a DEF Redis!Held, Redis!SeatValue, Redis!Entry, Redis!Value
    <3> QED  BY <3>1, <3>2 DEF Redis!Slot, Redis!ConfirmedBy, Redis!HasSeat
  <2> HIDE DEF h, e
  <2> QED  BY <1>1, <2>1, <2>2
<1>3. CASE c.name = "RELEASE_SEAT"
  <2>1. Outcome(c).entry \in {e, None}
    BY <1>3 DEF Outcome, Redis!ReleaseOutcome, Redis!Typed, Redis!Outcome
  <2> QED  BY <1>1, <2>1
<1>4. CASE c.name = "FORCE_CONFIRM_SEAT"
  <2> DEFINE h == Redis!Confirmed(c.user)
  <2>1. Outcome(c).entry = h
    BY <1>4 DEF Outcome, Redis!ForceConfirmOutcome, Redis!Outcome
  <2>2. h \in Redis!Entry /\ h.value.user_id = c.user
    BY <1>4, <1>a DEF Redis!Confirmed, Redis!SeatValue, Redis!Entry, Redis!Value
  <2> HIDE DEF h
  <2> QED  BY <1>4, <2>1, <2>2 DEF Redis!Slot, Redis!ConfirmedBy, Redis!HasSeat
<1>5. CASE c.name = "SEAT_STATUS"
  <2>1. Outcome(c).entry = redis[c.seat]
    BY <1>5 DEF Outcome, Redis!Outcome
  <2> QED  BY <1>1, <2>1
<1> QED  BY <1>2, <1>3, <1>4, <1>5, <1>a

(* So it is safe to execute a sound command, whenever it comes. *)
LEMMA ExecuteKeeps ==
  ASSUME DBInv, TableStep, RedisInv, NEW c, Known(c), Execute(c)
  PROVE  redis' \in [Seats -> Redis!Slot] /\ ConfirmedAfterSale'
<1>1. redis \in [Seats -> Redis!Slot] /\ now \in Nat /\ c \in Writes \cup Reads /\ c.seat \in Seats
  BY DEF RedisInv, TableStep, Known, Writes, Reads
<1>2. redis' = [redis EXCEPT ![c.seat] = Outcome(c).entry]
  BY DEF Execute
<1>3. redis' \in [Seats -> Redis!Slot]
  BY <1>1, <1>2, OutcomeSound
<1>4. ASSUME NEW s \in Seats, NEW u \in Users, Redis!ConfirmedBy(redis'[s], u)
      PROVE  Paid(s, u)'
  <2>1. CASE Redis!ConfirmedBy(redis[s], u)
    <3>1. Paid(s, u)
      BY <2>1 DEF RedisInv, ConfirmedAfterSale, Paid, PaidRow
    <3> QED  BY <3>1, TableStepKeeps
  <2>2. CASE ~Redis!ConfirmedBy(redis[s], u)
    <3>1. s = c.seat /\ c.name = "FORCE_CONFIRM_SEAT" /\ c.user = u
      BY <1>1, <1>2, <1>4, <2>2, OutcomeSound
    <3>2. Paid(s, u)
      BY <3>1 DEF Known, Sound
    <3> QED  BY <3>2, TableStepKeeps
  <2> QED  BY <2>1, <2>2
<1>5. ConfirmedAfterSale'
  BY <1>4 DEF ConfirmedAfterSale, Paid, PaidRow, Redis!ConfirmedBy, Redis!HasSeat
<1> QED  BY <1>3, <1>5

(* A reply has the length its command method expects. *)
LEMMA OwesReply ==
  ASSUME NEW c, NEW x, x = [reply |-> ReplyTo(c)]
  PROVE  DOMAIN x = {"reply"} /\ x.reply.items \in {3, 4}
BY DEF ReplyTo, Reply, Items

(* The commands a connection still owes are sound. *)
LEMMA OwedSound ==
  ASSUME RedisInv, NEW link \in Links
  PROVE  \A c \in Owed(link) : c \in Writes /\ Sound(c)
<1>1. ASSUME ~InStep(link), ~Behind(link)
      PROVE  Known(unread[link].command)
  BY <1>1 DEF RedisInv, Owing, InStep, Behind
<1>2. \A c : Known(c) => \A d \in Copies(c) : d \in Writes /\ Sound(d)
  BY DEF Known, Copies, Reads
<1> QED  BY <1>1, <1>2 DEF Owed

(* A step of Redis and its connections. *)
RedisStep ==
  \/ UNCHANGED <<redis, wire, unread>>
  \/ \E link \in Links : \E c, reply : Known(c) /\ Ask(link, c, reply)
  \/ \E c \in wire : Execute(c) /\ wire' = wire \ {c} /\ unread' = unread
  \/ \E link \in Links : /\ ~InStep(link) /\ ~Behind(link)
                         /\ Execute(unread[link].command)
                         /\ Owes(link, [reply |-> ReplyTo(unread[link].command)])
                         /\ wire' = wire
  \/ /\ redis' = [s \in Seats |-> None] /\ wire' = {}
     /\ unread' = [link \in Links |-> None]

(* No such step puts a sale into Redis that the DB has not saved. *)
LEMMA RedisKeeps ==
  ASSUME DBInv, TableStep, RedisInv, RedisStep
  PROVE  RedisInv'
<1>a. /\ redis \in [Seats -> Redis!Slot] /\ ConfirmedAfterSale
      /\ \A c \in wire : c \in Writes /\ Sound(c)
      /\ DOMAIN unread = Links /\ \A link \in Links : Owing(unread[link])
  BY DEF RedisInv
<1>b. \A c : Sound(c) => Sound(c)'
  BY TableStepKeeps DEF Sound
<1>c. \A c : Known(c) => Known(c)'
  BY <1>b DEF Known
<1>d. \A x : Owing(x) => Owing(x)'
  BY <1>c DEF Owing
<1>e. ASSUME redis' = redis PROVE redis' \in [Seats -> Redis!Slot] /\ ConfirmedAfterSale'
  <2>1. ASSUME NEW s \in Seats, NEW u \in Users, Redis!ConfirmedBy(redis[s], u)
        PROVE  Paid(s, u)'
    <3>1. Paid(s, u)
      BY <1>a, <2>1 DEF ConfirmedAfterSale, Paid, PaidRow
    <3> QED  BY <3>1, TableStepKeeps
  <2> QED  BY <1>a, <1>e, <2>1 DEF ConfirmedAfterSale, Paid, PaidRow, Redis!ConfirmedBy, Redis!HasSeat
<1>f. ASSUME redis' \in [Seats -> Redis!Slot], ConfirmedAfterSale',
             \A c \in wire' : c \in Writes /\ Sound(c),
             \/ unread' = unread
             \/ \E link \in Links : \E x : unread' = [unread EXCEPT ![link] = x] /\ Owing(x)
      PROVE  RedisInv'
  <2>1. DOMAIN unread' = Links /\ \A link \in Links : Owing(unread'[link])
    BY <1>a, <1>f
  <2>2. \A c \in wire' : c \in Writes /\ Sound(c)'
    BY <1>b, <1>f
  <2>3. ASSUME NEW link \in Links PROVE Owing(unread[link])'
    <3>1. PICK x : x = unread'[link]
      OBVIOUS
    <3>2. Owing(x)'
      BY <1>d, <2>1, <3>1
    <3> QED  BY <3>1, <3>2 DEF Owing
  <2> QED  BY <1>f, <2>1, <2>2, <2>3 DEF RedisInv
<1>g. ASSUME NEW c, Known(c)
      PROVE  /\ \A d \in Copies(c) : d \in Writes /\ Sound(d)
             /\ Owing([command |-> c])
  BY <1>g DEF Known, Copies, Reads, Owing
<1>h. Owing(None)
  BY DEF Owing
<1>1. CASE UNCHANGED <<redis, wire, unread>>
  BY <1>1, <1>a, <1>e, <1>f
<1>2. ASSUME NEW link \in Links, NEW c, NEW reply, Known(c), Ask(link, c, reply)
      PROVE  RedisInv'
  <2>1. /\ redis' = redis \/ Execute(c)
        /\ wire' \subseteq wire \cup Copies(c) \cup Owed(link)
        /\ \/ unread' = unread
           \/ unread' = [unread EXCEPT ![link] = None]
           \/ unread' = [unread EXCEPT ![link] = [command |-> c]]
    BY <1>2 DEF Ask, Served, Retried, Lost, Late, Misread, CaughtUp, Owes
  <2>2. redis' \in [Seats -> Redis!Slot] /\ ConfirmedAfterSale'
    BY <1>2, <1>e, <2>1, ExecuteKeeps
  <2>3. \A d \in wire' : d \in Writes /\ Sound(d)
    BY <1>2, <1>a, <1>g, <2>1, OwedSound
  <2> QED  BY <1>2, <1>f, <1>g, <1>h, <2>1, <2>2, <2>3
<1>3. ASSUME NEW c \in wire, Execute(c), wire' = wire \ {c}, unread' = unread
      PROVE  RedisInv'
  <2>1. Known(c)
    BY <1>3, <1>a DEF Known
  <2> QED  BY <1>3, <1>a, <1>f, <2>1, ExecuteKeeps
<1>4. ASSUME NEW link \in Links, ~InStep(link), ~Behind(link), Execute(unread[link].command),
             Owes(link, [reply |-> ReplyTo(unread[link].command)]), wire' = wire
      PROVE  RedisInv'
  <2> DEFINE x == [reply |-> ReplyTo(unread[link].command)]
  <2>1. Known(unread[link].command)
    BY <1>4, <1>a DEF Owing, InStep, Behind
  <2>2. Owing(x)
    <3>1. DOMAIN x = {"reply"} /\ x.reply.items \in {3, 4}
      BY OwesReply
    <3> HIDE DEF x
    <3> QED  BY <3>1 DEF Owing
  <2>3. unread' = [unread EXCEPT ![link] = x]
    BY <1>4 DEF Owes
  <2> HIDE DEF x
  <2> QED  BY <1>4, <1>a, <1>f, <2>1, <2>2, <2>3, ExecuteKeeps
<1>5. CASE /\ redis' = [s \in Seats |-> None] /\ wire' = {}
           /\ unread' = [link \in Links |-> None]
  <2>1. redis' \in [Seats -> Redis!Slot] /\ ConfirmedAfterSale'
    BY <1>5 DEF Redis!Slot, ConfirmedAfterSale, Redis!ConfirmedBy, Redis!HasSeat
  <2>2. \A link \in Links : Owing(unread[link])'
    BY <1>5 DEF Owing
  <2> QED  BY <1>5, <2>1, <2>2 DEF RedisInv
<1> QED  BY <1>1, <1>2, <1>3, <1>4, <1>5 DEF RedisStep

(* The commands that are sent: a FORCE_CONFIRM_SEAT only for what is paid. *)
LEMMA StatusKnown ==
  ASSUME NEW s \in Seats
  PROVE  Known(Status(s))
BY DEF Known, Sound, Status, Command, Reads

(* Commands that write, with the seat and the user of a thread or a row. *)
LEMMA WriteKnown ==
  ASSUME NEW name \in {"RESERVE_SEAT", "RELEASE_SEAT", "FORCE_CONFIRM_SEAT"}, NEW s \in Seats,
         NEW u \in Users, NEW n \in HoldSeconds \cup {0},
         name = "FORCE_CONFIRM_SEAT" => Paid(s, u)
  PROVE  Known(Command(name, s, u, n))
<1> DEFINE c == Command(name, s, u, n)
<1>1. c \in Writes /\ c.name = name /\ c.seat = s /\ c.user = u
  BY DEF Command, Writes
<1> QED  BY <1>1 DEF Known, Sound

(* What an action of thread t is. *)
ThreadAction(t) == StartHold(t) \/ StartConfirm(t) \/ StartCancel(t) \/ Serving(t)

(* Every action of a thread is one of the steps above. *)
LEMMA ThreadActions ==
  ASSUME DBInv, ControlInv, NEW t \in Threads, ThreadAction(t)
  PROVE  ThreadStep(t) /\ RedisStep /\ faults' \in 0..MaxFaults
<1>a. /\ thread[t] \in Requests /\ Threaded(t) /\ faults \in 0..MaxFaults /\ MaxFaults \in Nat
      /\ now' = now => now' \in {now, now + 1}
  BY BoundAssumption DEF ControlInv
<1>b. "app server" \in Links
  BY DEF Links
<1>c. ASSUME \/ faults' = faults
             \/ \E kind \in {"timeout", "db", "redis", "late", "crash"} : Fault(kind)
      PROVE  faults' \in 0..MaxFaults
  BY <1>a, <1>c DEF Fault
<1>d. ASSUME NEW c, NEW reply, Known(c), Ask("app server", c, reply)
      PROVE  RedisStep /\ faults' \in 0..MaxFaults
  <2>1. faults' = faults \/ \E kind \in {"redis", "late"} : Fault(kind)
    BY <1>d DEF Ask, Served, Retried, Lost, Late, Misread, CaughtUp
  <2> QED  BY <1>b, <1>c, <1>d, <2>1 DEF RedisStep
<1>1. CASE StartHold(t) \/ StartConfirm(t) \/ StartCancel(t)
  <2>1. UNCHANGED <<dbVars, call, redis, wire, unread, worker, faults>>
    BY <1>1 DEF StartHold, StartConfirm, StartCancel, Start
  <2> QED  BY <1>1, <1>a, <1>c, <2>1, Starts DEF ThreadStep, QuietTables, RedisStep, dbVars
<1>2. CASE Send(t)
  <2>1. UNCHANGED <<dbVars, redis, wire, unread, worker, faults>>
    BY <1>2 DEF Send, DB!Submit, dbVars
  <2> QED  BY <1>2, <1>a, <1>c, <2>1, Sends DEF ThreadStep, QuietTables, RedisStep, dbVars
<1>3. CASE Receive(t)
  <2>1. UNCHANGED <<dbVars, redis, wire, unread, worker>>
    BY <1>3 DEF Receive
  <2>2. faults' = faults \/ Fault("timeout")
    BY <1>3 DEF Receive, Answered
  <2> QED  BY <1>3, <1>a, <1>c, <2>1, <2>2, Receives DEF ThreadStep, QuietTables, RedisStep, dbVars
<1>4. CASE View(t)
  <2>1. UNCHANGED <<payments, now, raced, call, redis, wire, unread, worker>>
    BY <1>4 DEF View
  <2>2. /\ reservations' \in {reservations, DB!Swept}
        /\ faults' = faults \/ Fault("timeout") \/ Fault("db")
    BY <1>4 DEF View, ListSeats
  <2> QED  BY <1>4, <1>a, <1>c, <2>1, <2>2, Viewing DEF ThreadStep, QuietTables, RedisStep
<1>5. CASE ViewSeat(t)
  <2>1. UNCHANGED <<payments, now, raced, call, worker>> /\ reservations' = DB!Swept
    BY <1>5 DEF ViewSeat
  <2>2. Known(Status(thread[t].seat))
    BY <1>5, <1>a, StatusKnown DEF ViewSeat, SeatViews, Threaded, Fit
  <2>3. RedisStep /\ faults' \in 0..MaxFaults
    BY <1>5, <1>d, <2>2 DEF ViewSeat
  <2> QED  BY <1>5, <1>a, <2>1, <2>3, Viewing DEF ThreadStep, QuietTables
<1>6. CASE Commanding(t)
  <2>1. UNCHANGED <<dbVars, call, worker>>
    BY <1>6 DEF Commanding, HoldReserve, ConfirmStatus, Finalize, Finalized, ReleaseCheck, Release
  <2>2. RedisStep /\ faults' \in 0..MaxFaults
    <3> DEFINE x == thread[t]
    <3>a. x.seconds \in HoldSeconds \cup {0}
      BY <1>a DEF Requests
    <3>1. CASE HoldReserve(t)
      <4>1. Known(Command("RESERVE_SEAT", x.seat, x.user, x.seconds))
        BY <1>a, <3>1, <3>a, WriteKnown DEF HoldReserve, At, Threaded, Fit
      <4> QED  BY <1>d, <3>1, <4>1 DEF HoldReserve
    <3>2. CASE ConfirmStatus(t)
      <4>1. Known(Status(x.seat))
        BY <1>a, <3>2, StatusKnown DEF ConfirmStatus, At, Threaded, Fit
      <4> QED  BY <1>d, <3>2, <4>1 DEF ConfirmStatus
    <3>3. CASE Finalize(t)
      <4>1. Known(Command("FORCE_CONFIRM_SEAT", x.seat, x.user, 0))
        BY <1>a, <3>3, WriteKnown DEF Finalize, Finalized, At, Threaded, Fit
      <4> QED  BY <1>d, <3>3, <4>1 DEF Finalize, Finalized
    <3>4. CASE ReleaseCheck(t)
      <4>1. Known(Status(x.seat))
        BY <1>a, <3>4, StatusKnown DEF ReleaseCheck, At, Threaded, Fit
      <4> QED  BY <1>d, <3>4, <4>1 DEF ReleaseCheck
    <3>5. CASE Release(t)
      <4>1. Known(Command("RELEASE_SEAT", x.seat, x.user, 0))
        BY <1>a, <3>5, WriteKnown DEF Release, At, Threaded, Fit
      <4> QED  BY <1>d, <3>5, <4>1 DEF Release
    <3> QED  BY <1>6, <3>1, <3>2, <3>3, <3>4, <3>5 DEF Commanding
  <2> QED  BY <1>6, <1>a, <2>1, <2>2, Commands DEF ThreadStep, QuietTables, dbVars
<1> QED
  BY <1>1, <1>2, <1>3, <1>4, <1>5, <1>6 DEF ThreadAction, Serving, Commanding

-----------------------------------------------------------------------------
(* Steps of the reconciler, of Redis and of time leave the threads and     *)
(* their requests alone.                                                   *)

ElsewhereStep == /\ QuietTables /\ thread' = thread
                 /\ CallStep(Reconciler)
                 /\ \A c \in Callers \ {Reconciler} : call'[c] = call[c]
                 /\ call'[Reconciler].op \in {"none", "expire"}

(* Such a step sweeps the tables at most. *)
LEMMA ElsewhereQuiet ==
  ASSUME DBInv, ElsewhereStep
  PROVE  /\ DBInv' /\ TableStep
         /\ \A r \in ReservationIds :
              /\ reservations[r] = None => reservations'[r] = None
              /\ DB!HasStatus(r, "CONFIRMED")' <=> DB!HasStatus(r, "CONFIRMED")
BY QuietEffect DEF ElsewhereStep, Callers

(* Threads, requests, ids and sales are what they were. *)
LEMMA ElsewhereKeeps ==
  ASSUME DBInv, ControlInv, CallsInv, IdInv, SalesInv, ElsewhereStep
  PROVE  /\ thread' \in [Threads -> Requests] /\ \A t \in Threads : Threaded(t)'
         /\ CallsInv' /\ IdInv' /\ SalesInv'
<1>a. /\ \A r \in ReservationIds : r # None /\ (reservations[r] = None => reservations'[r] = None)
      /\ TableStep /\ thread' = thread
  BY ElsewhereQuiet, CallTypes DEF ElsewhereStep
<1>b. /\ \A c \in Callers \ {Reconciler} : call'[c] = call[c]
      /\ call'[Reconciler].op \in {"none", "expire"}
  BY DEF ElsewhereStep
<1>c. \A t \in Threads \cup LateCalls : t \in Callers \ {Reconciler} /\ call'[t] = call[t]
  BY <1>b, CallersAssumption DEF Callers
<1>1. ASSUME NEW t \in Threads PROVE Threaded(t)'
  <2>1. Threaded(t) /\ thread'[t] = thread[t] /\ call'[t] = call[t]
    BY <1>a, <1>c DEF ControlInv
  <2>2. ASSUME thread'[t].pc = "finalize" PROVE Paid(thread[t].seat, thread[t].user)'
    <3>1. Paid(thread[t].seat, thread[t].user)
      BY <2>1, <2>2 DEF Threaded
    <3> QED  BY <1>a, <2>1, <3>1, TableStepKeeps DEF Paid, PaidRow, SeatOf, UserOf
  <2> QED  BY <2>1, <2>2 DEF Threaded
<1>2. CallsInv'
  <2> SUFFICES ASSUME NEW c \in Callers
               PROVE  /\ call'[c].op = "cancel" => call'[c].payload = None
                      /\ (call'[c].op = "confirm" /\ call'[c].pc = "done" /\ call'[c].reply = "ok")
                           => /\ reservations'[call'[c].rid] # None
                              /\ payments'[call'[c].rid] # None
                              /\ payments'[call'[c].rid].status = "SUCCEEDED"
    BY DEF CallsInv, PaidRow
  <2>1. CASE c = Reconciler
    BY <1>b, <2>1
  <2>2. CASE c # Reconciler
    <3>1. call'[c] = call[c]
      BY <1>b, <2>2
    <3>2. call[c].op = "confirm" => call[c].rid \in ReservationIds
      BY CallTypes, DBP!CallFields, DBAssumptions
    <3>3. /\ call[c].op = "cancel" => call[c].payload = None
          /\ (call[c].op = "confirm" /\ call[c].pc = "done" /\ call[c].reply = "ok")
               => PaidRow(call[c].rid)
      BY DEF CallsInv
    <3> QED  BY <1>a, <3>1, <3>2, <3>3 DEF TableStep, PaidRow
  <2> QED  BY <2>1, <2>2
<1>3. OwnedInv'
  BY <1>a, <1>b DEF IdInv, OwnedInv, Owned
<1>4. ASSUME NEW t \in Threads PROVE Named(t)'
  <2>1. Named(t) /\ thread'[t] = thread[t] /\ thread[t].rid \in ReservationIds \cup {None}
    BY <1>a DEF IdInv, ControlInv, Requests
  <2>2. ASSUME thread[t].rid # None, reservations'[thread[t].rid] # None
        PROVE  /\ reservations'[thread[t].rid].seat = thread[t].seat
               /\ reservations'[thread[t].rid].user = thread[t].user
    BY <1>a, <2>1, <2>2 DEF Named, TableStep, DBP!RowKept, SeatOf, UserOf
  <2>3. ASSUME NEW c \in Callers, call'[c].op = "create" PROVE call'[c] = call[c]
    BY <1>b, <2>3
  <2> QED  BY <2>1, <2>2, <2>3 DEF Named, SeatOf, UserOf
<1>5. SalesInv'
  <2>1. /\ raced' = raced
        /\ \A r \in ReservationIds : DB!HasStatus(r, "CONFIRMED")' <=> DB!HasStatus(r, "CONFIRMED")
    BY ElsewhereQuiet DEF ElsewhereStep, QuietTables
  <2>2. RaceInv'
    BY <1>c, <2>1 DEF SalesInv, RaceInv, Undoing
  <2>3. ASSUME NEW t \in Threads, Bought(t)'
        PROVE  SaleInv(t)'
    <3>a. PICK r : r = thread[t].rid
      OBVIOUS
    <3>1. Bought(t)
      BY <1>a, <1>c, <2>3 DEF Bought, Sold
    <3>2. r \in ReservationIds /\ r = thread'[t].rid
      BY <1>a, <3>a, <3>1, BoughtRow
    <3>3. DB!HasStatus(r, "CONFIRMED") \/ r \in raced
      BY <3>a, <3>1 DEF SalesInv, SaleInv
    <3> QED  BY <2>1, <3>2, <3>3 DEF SaleInv
  <2>4. ASSUME NEW t \in Threads PROVE SaleInv(t)'
    BY <2>3 DEF SaleInv
  <2> QED  BY <2>2, <2>4 DEF SalesInv
<1> QED  BY <1>1, <1>2, <1>3, <1>4, <1>5, <1>a DEF IdInv, ControlInv
=============================================================================
