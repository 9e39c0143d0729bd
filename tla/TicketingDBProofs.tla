------------------------- MODULE TicketingDBProofs -------------------------
(***************************************************************************)
(* Theorems about the ticketing DB service for any number of concurrent    *)
(* requests, reservations, seats, users, hold tokens and payments.         *)
(***************************************************************************)
EXTENDS TicketingDB, TLAPS

-----------------------------------------------------------------------------
(* The control of a request never leaves its program. *)

Replies == {"none", "ok", "conflict", "not_found", "error"}

(* What the type of a request says about each of its kinds. *)
LEMMA CallCases ==
  ASSUME NEW x \in Call
  PROVE  \/ x = Idle
         \/ x \in CallOf("list", {"sweep", "done"}, {None}, {None})
         \/ x \in CallOf("create", {"sweep", "read", "done"}, ReservationIds, HeldPayload)
         \/ x \in CallOf("create", {"check", "write"}, ReservationIds,
                         {p \in HeldPayload : p.seat # UnknownSeat})
         \/ x \in CallOf("confirm", {"sweep", "read", "write", "done"},
                         ReservationIds, PaymentIds)
         \/ x \in CallOf("cancel", {"sweep", "read", "write", "done"},
                         ReservationIds, CancelPayload)
         \/ x \in CallOf("expire", {"sweep", "read", "write", "done"}, ReservationIds, {None})
BY DEF Call

(* The converse: a request of one of its kinds is well typed. *)
LEMMA CallIntro ==
  ASSUME NEW x,
         \/ x = Idle
         \/ x \in CallOf("list", {"sweep", "done"}, {None}, {None})
         \/ x \in CallOf("create", {"sweep", "read", "done"}, ReservationIds, HeldPayload)
         \/ x \in CallOf("create", {"check", "write"}, ReservationIds,
                         {p \in HeldPayload : p.seat # UnknownSeat})
         \/ x \in CallOf("confirm", {"sweep", "read", "write", "done"},
                         ReservationIds, PaymentIds)
         \/ x \in CallOf("cancel", {"sweep", "read", "write", "done"},
                         ReservationIds, CancelPayload)
         \/ x \in CallOf("expire", {"sweep", "read", "write", "done"}, ReservationIds, {None})
  PROVE  x \in Call
BY DEF Call

(* Past its checks, a create request still has the payload it came with. *)
LEMMA CreateWeakens ==
  ASSUME NEW x \in CallOf("create", {"check", "write"}, ReservationIds,
                          {p \in HeldPayload : p.seat # UnknownSeat})
  PROVE  x \in CallOf("create", {"check", "write"}, ReservationIds, HeldPayload)
BY DEF CallOf

(* A request under way may answer at any of its transactions. *)
LEMMA DoneType ==
  ASSUME NEW x \in Call, x # Idle, NEW reply \in Replies
  PROVE  [x EXCEPT !.pc = "done", !.reply = reply] \in Call
<1> DEFINE y == [x EXCEPT !.pc = "done", !.reply = reply]
           Q == {"sweep", "read", "write", "done"}
<1>1. CASE x \in CallOf("list", {"sweep", "done"}, {None}, {None})
  <2>1. y \in CallOf("list", {"sweep", "done"}, {None}, {None})  BY <1>1 DEF CallOf, Replies
  <2> QED  BY <2>1, CallIntro
<1>2. CASE \E P : x \in CallOf("create", P, ReservationIds, HeldPayload)
  <2>1. y \in CallOf("create", {"sweep", "read", "done"}, ReservationIds, HeldPayload)
    BY <1>2 DEF CallOf, Replies
  <2> QED  BY <2>1, CallIntro
<1>3. CASE x \in CallOf("confirm", Q, ReservationIds, PaymentIds)
  <2>1. y \in CallOf("confirm", Q, ReservationIds, PaymentIds)  BY <1>3 DEF CallOf, Replies
  <2> QED  BY <2>1, CallIntro
<1>4. CASE x \in CallOf("cancel", Q, ReservationIds, CancelPayload)
  <2>1. y \in CallOf("cancel", Q, ReservationIds, CancelPayload)  BY <1>4 DEF CallOf, Replies
  <2> QED  BY <2>1, CallIntro
<1>5. CASE x \in CallOf("expire", Q, ReservationIds, {None})
  <2>1. y \in CallOf("expire", Q, ReservationIds, {None})  BY <1>5 DEF CallOf, Replies
  <2> QED  BY <2>1, CallIntro
<1> QED  BY <1>1, <1>2, <1>3, <1>4, <1>5, CallCases, CreateWeakens

(* The steps from one transaction of a request to the next. *)
LEMMA GotoType ==
  ASSUME NEW x \in Call
  PROVE  /\ x.pc = "sweep" /\ x.op # "list" => [x EXCEPT !.pc = "read"] \in Call
         /\ x.op = "create" /\ x.pc = "read" /\ x.payload.seat # UnknownSeat
              => [x EXCEPT !.pc = "check"] \in Call
         /\ x.op = "create" /\ x.pc = "check" => [x EXCEPT !.pc = "write"] \in Call
         /\ x.op \in {"confirm", "cancel", "expire"} => [x EXCEPT !.pc = "write"] \in Call
<1> DEFINE Q == {"sweep", "read", "write", "done"}
           Known == {p \in HeldPayload : p.seat # UnknownSeat}
<1>1. CASE x = Idle
  BY <1>1 DEF Idle
<1>2. CASE x \in CallOf("list", {"sweep", "done"}, {None}, {None})
  BY <1>2 DEF CallOf
<1>3. CASE x \in CallOf("create", {"sweep", "read", "done"}, ReservationIds, HeldPayload)
  <2>1. [x EXCEPT !.pc = "read"]
          \in CallOf("create", {"sweep", "read", "done"}, ReservationIds, HeldPayload)
    BY <1>3 DEF CallOf
  <2>2. ASSUME x.payload.seat # UnknownSeat
        PROVE  [x EXCEPT !.pc = "check"]
                 \in CallOf("create", {"check", "write"}, ReservationIds, Known)
    BY <1>3, <2>2 DEF CallOf
  <2>3. x.op = "create" /\ x.pc # "check"
    BY <1>3 DEF CallOf
  <2> QED  BY <2>1, <2>2, <2>3, CallIntro
<1>4. CASE x \in CallOf("create", {"check", "write"}, ReservationIds, Known)
  <2>1. [x EXCEPT !.pc = "write"]
          \in CallOf("create", {"check", "write"}, ReservationIds, Known)
    BY <1>4 DEF CallOf
  <2>2. x.op = "create" /\ x.pc \in {"check", "write"}
    BY <1>4 DEF CallOf
  <2> QED  BY <2>1, <2>2, CallIntro
<1>5. CASE x \in CallOf("confirm", Q, ReservationIds, PaymentIds)
  <2>1. \A pc \in Q : [x EXCEPT !.pc = pc] \in CallOf("confirm", Q, ReservationIds, PaymentIds)
    BY <1>5 DEF CallOf
  <2>2. x.op = "confirm"  BY <1>5 DEF CallOf
  <2> QED  BY <2>1, <2>2, CallIntro
<1>6. CASE x \in CallOf("cancel", Q, ReservationIds, CancelPayload)
  <2>1. \A pc \in Q : [x EXCEPT !.pc = pc] \in CallOf("cancel", Q, ReservationIds, CancelPayload)
    BY <1>6 DEF CallOf
  <2>2. x.op = "cancel"  BY <1>6 DEF CallOf
  <2> QED  BY <2>1, <2>2, CallIntro
<1>7. CASE x \in CallOf("expire", Q, ReservationIds, {None})
  <2>1. \A pc \in Q : [x EXCEPT !.pc = pc] \in CallOf("expire", Q, ReservationIds, {None})
    BY <1>7 DEF CallOf
  <2>2. x.op = "expire"  BY <1>7 DEF CallOf
  <2> QED  BY <2>1, <2>2, CallIntro
<1> QED  BY <1>1, <1>2, <1>3, <1>4, <1>5, <1>6, <1>7, CallCases

(* What a handler may assume of the request it serves. *)
LEMMA CallFields ==
  ASSUME NEW x \in Call
  PROVE  /\ x.op \in {"create", "confirm", "cancel", "expire"} => x.rid \in ReservationIds
         /\ x.op = "create" => x.payload \in HeldPayload
         /\ x.op = "create" /\ x.pc \in {"check", "write"} => x.payload.seat \in Seats
         /\ x.op = "confirm" => x.payload \in PaymentIds
         /\ x.op = "cancel" => x.payload \in CancelPayload
         /\ x.pc # "idle" => x # Idle
BY CallCases DEF CallOf, Idle, HeldPayload

-----------------------------------------------------------------------------
(* The invariant that makes the types inductive.  Between the transaction  *)
(* that checks a row and the one that updates it other requests run, but   *)
(* no handler deletes rows, so the UPDATE finds the row it was meant for,  *)
(* and a cancel that writes has all its payment fields.                    *)

Updates == {"confirm", "cancel", "expire"}

Checked(x) == /\ reservations[x.rid] # None
              /\ x.op = "cancel" => CancelComplete(x.payload)

UpdatesAreChecked ==
  \A c \in Clients : (call[c].pc = "write" /\ call[c].op \in Updates) => Checked(call[c])

IInv == TypeOK /\ UpdatesAreChecked

(* Rows are never deleted. *)
RowsStay == \A r \in ReservationIds : reservations[r] # None => reservations'[r] # None

(* Setting columns of a row leaves a row. *)
LEMMA RowUpdate ==
  ASSUME NEW row \in Reservation \cup {None}, row # None, NEW s \in Statuses, NEW t \in Nat
  PROVE  /\ [row EXCEPT !.status = s] \in Reservation
         /\ [row EXCEPT !.status = s, !.confirmed_at = t] \in Reservation
         /\ [row EXCEPT !.status = s] # None
         /\ [row EXCEPT !.status = s, !.confirmed_at = t] # None
BY NoneAssumption DEF Reservation

(* An answer ends the request and leaves the others alone. *)
LEMMA AnswerStep ==
  ASSUME IInv, NEW c \in Clients, call[c].pc # "idle", NEW reply \in Replies,
         Answer(c, reply), RowsStay
  PROVE  call' \in [Clients -> Call] /\ UpdatesAreChecked'
<1>1. call[c] \in Call /\ call[c] # Idle
  BY CallFields DEF IInv, TypeOK
<1>2. [call[c] EXCEPT !.pc = "done", !.reply = reply] \in Call
  BY <1>1, DoneType
<1>3. /\ call' = [call EXCEPT ![c] = [call[c] EXCEPT !.pc = "done", !.reply = reply]]
      /\ call'[c].pc = "done"
      /\ \A d \in Clients \ {c} : call'[d] = call[d]
  <2>1. call' = [call EXCEPT ![c] = [call[c] EXCEPT !.pc = "done", !.reply = reply]]
    BY DEF Answer, IInv, TypeOK
  <2>2. "pc" \in DOMAIN call[c]
    BY <1>1, CallCases DEF CallOf, Idle
  <2> QED  BY <2>1, <2>2 DEF IInv, TypeOK
<1>4. call' \in [Clients -> Call]
  BY <1>2, <1>3 DEF IInv, TypeOK
<1>5. UpdatesAreChecked'
  <2> SUFFICES ASSUME NEW d \in Clients, call'[d].pc = "write", call'[d].op \in Updates
               PROVE  Checked(call[d])'
    BY DEF UpdatesAreChecked
  <2>1. call'[d] = call[d]
    BY <1>3
  <2>2. Checked(call[d])
    BY <2>1 DEF IInv, UpdatesAreChecked
  <2>3. call[d].rid \in ReservationIds
    BY <2>1, CallFields DEF IInv, TypeOK, Updates
  <2> QED  BY <2>1, <2>2, <2>3 DEF RowsStay, Checked
<1> QED  BY <1>4, <1>5

(* The step to a request's next transaction; before an UPDATE it has found *)
(* its row.                                                                *)
LEMMA GotoStep ==
  ASSUME IInv, NEW c \in Clients, NEW pc \in {"read", "check", "write"}, Goto(c, pc),
         [call[c] EXCEPT !.pc = pc] \in Call,
         (pc = "write" /\ call[c].op \in Updates) => Checked(call[c]),
         RowsStay
  PROVE  call' \in [Clients -> Call] /\ UpdatesAreChecked'
<1>1. call[c] \in Call
  BY DEF IInv, TypeOK
<1>2. /\ call' = [call EXCEPT ![c] = [call[c] EXCEPT !.pc = pc]]
      /\ call'[c] = [call[c] EXCEPT !.pc = pc]
      /\ \A d \in Clients \ {c} : call'[d] = call[d]
  BY DEF Goto, IInv, TypeOK
<1>3. /\ call'[c].pc = pc /\ call'[c].op = call[c].op
      /\ call'[c].rid = call[c].rid /\ call'[c].payload = call[c].payload
  <2>1. {"pc", "op", "rid", "payload"} \subseteq DOMAIN call[c]
    BY <1>1, CallCases DEF CallOf, Idle
  <2> QED  BY <1>2, <2>1
<1>4. call' \in [Clients -> Call]
  BY <1>2 DEF IInv, TypeOK
<1>5. UpdatesAreChecked'
  <2> SUFFICES ASSUME NEW d \in Clients, call'[d].pc = "write", call'[d].op \in Updates
               PROVE  Checked(call[d])'
    BY DEF UpdatesAreChecked
  <2>1. /\ call'[d].rid = call[d].rid /\ call'[d].op = call[d].op
        /\ call'[d].payload = call[d].payload
        /\ Checked(call[d])
    BY <1>2, <1>3 DEF IInv, UpdatesAreChecked
  <2>2. call[d].rid \in ReservationIds
    BY <2>1, CallFields DEF IInv, TypeOK, Updates
  <2> QED  BY <2>1, <2>2 DEF RowsStay, Checked
<1> QED  BY <1>4, <1>5

(* A transaction that writes nothing preserves the invariant if its step   *)
(* in the request does.                                                    *)
LEMMA ReadOnly ==
  ASSUME IInv, UNCHANGED <<reservations, payments, now>>
  PROVE  RowsStay /\ (call' \in [Clients -> Call] /\ UpdatesAreChecked' => IInv')
BY DEF IInv, TypeOK, RowsStay

(* Every transaction of a request preserves the invariant. *)
LEMMA StepPreserves ==
  ASSUME IInv, NEW c \in Clients, Step(c)
  PROVE  IInv'
<1> DEFINE r == call[c].rid
           p == call[c].payload
<1> USE DEF Replies
<1>a. /\ call[c] \in Call
      /\ reservations \in [ReservationIds -> Reservation \cup {None}]
      /\ payments \in [ReservationIds -> Payment \cup {None}]
      /\ now \in Nat
  BY DEF IInv, TypeOK
<1>1. CASE Sweep(c)
  <2>1. /\ reservations' \in [ReservationIds -> Reservation \cup {None}]
        /\ RowsStay
    <3>1. \A q \in ReservationIds : Stale(q) => [reservations[q] EXCEPT !.status = "EXPIRED"]
                                                   \in Reservation
      BY <1>a, RowUpdate DEF Stale, HasStatus, Statuses
    <3> QED  BY <1>1, <1>a, <3>1, NoneAssumption DEF Sweep, Swept, RowsStay
  <2>2. call' \in [Clients -> Call] /\ UpdatesAreChecked'
    <3>1. CASE call[c].op = "list"
      BY <1>1, <2>1, <3>1, AnswerStep DEF Sweep, Swept
    <3>2. CASE call[c].op # "list"
      <4>1. [call[c] EXCEPT !.pc = "read"] \in Call
        BY <1>1, <1>a, <3>2, GotoType DEF Sweep, Swept
      <4> QED  BY <1>1, <2>1, <3>2, <4>1, GotoStep DEF Sweep, Swept
    <3> QED  BY <3>1, <3>2
  <2> QED  BY <1>1, <1>a, <2>1, <2>2 DEF Sweep, Swept, IInv, TypeOK
<1>2. CASE TransactionFails(c)
  BY <1>2, ReadOnly, AnswerStep DEF TransactionFails
<1>3. CASE CreateRead(c)
  <2>1. CASE \E reply \in Replies : Answer(c, reply)
    BY <1>3, <2>1, ReadOnly, AnswerStep DEF CreateRead, At
  <2>2. CASE p.seat # UnknownSeat /\ Goto(c, "check")
    <3>1. [call[c] EXCEPT !.pc = "check"] \in Call
      BY <1>3, <1>a, <2>2, GotoType DEF CreateRead, At
    <3> QED  BY <1>3, <2>2, <3>1, ReadOnly, GotoStep DEF CreateRead
  <2> QED  BY <1>3, <2>1, <2>2 DEF CreateRead
<1>4. CASE CreateCheck(c)
  <2>1. CASE Answer(c, "conflict")
    BY <1>4, <2>1, ReadOnly, AnswerStep DEF CreateCheck, At
  <2>2. CASE Goto(c, "write")
    <3>1. [call[c] EXCEPT !.pc = "write"] \in Call /\ call[c].op \notin Updates
      BY <1>4, <1>a, GotoType DEF CreateCheck, At, Updates
    <3> QED  BY <1>4, <2>2, <3>1, ReadOnly, GotoStep DEF CreateCheck
  <2> QED  BY <1>4, <2>1, <2>2 DEF CreateCheck
<1>5. CASE CreateWrite(c)
  <2>1. CASE InsertAllowed(r, p.hold_token)
    <3>1. [seat |-> p.seat, user |-> p.user, status |-> "HELD", hold_token |-> p.hold_token,
           expires_at |-> p.expires_at, confirmed_at |-> None] \in Reservation
      <4>1. p \in HeldPayload /\ p.seat \in Seats
        BY <1>5, <1>a, CallFields DEF CreateWrite, At
      <4> QED  BY <4>1 DEF HeldPayload, Reservation, Statuses
    <3>2. /\ reservations' \in [ReservationIds -> Reservation \cup {None}]
          /\ RowsStay
      BY <1>5, <1>a, <2>1, <3>1, NoneAssumption DEF CreateWrite, RowsStay
    <3>3. call' \in [Clients -> Call] /\ UpdatesAreChecked'
      BY <1>5, <2>1, <3>2, AnswerStep DEF CreateWrite, At
    <3> QED  BY <1>5, <1>a, <3>2, <3>3 DEF CreateWrite, IInv, TypeOK
  <2>2. CASE ~InsertAllowed(r, p.hold_token)
    BY <1>5, <2>2, ReadOnly, AnswerStep DEF CreateWrite, At
  <2> QED  BY <2>1, <2>2
<1>6. CASE ConfirmRead(c)
  <2>1. CASE \E reply \in Replies : Answer(c, reply)
    BY <1>6, <2>1, ReadOnly, AnswerStep DEF ConfirmRead, At
  <2>2. CASE HasStatus(r, "HELD") /\ Goto(c, "write")
    <3>1. [call[c] EXCEPT !.pc = "write"] \in Call
      BY <1>6, <1>a, GotoType DEF ConfirmRead, At
    <3> QED  BY <1>6, <2>2, <3>1, ReadOnly, GotoStep DEF ConfirmRead, HasStatus, Checked, At
  <2> QED  BY <1>6, <2>1, <2>2 DEF ConfirmRead
<1>7. CASE ConfirmWrite(c)
  <2>1. CASE ConfirmIndexAllows(r) /\ PaymentIdFree(r, p)
    <3>1. r \in ReservationIds /\ p \in PaymentIds /\ reservations[r] # None
      BY <1>7, <1>a, CallFields DEF ConfirmWrite, At, IInv, UpdatesAreChecked, Updates, Checked
    <3>2. [reservations[r] EXCEPT !.status = "CONFIRMED", !.confirmed_at = now] \in Reservation
      BY <1>a, <3>1, RowUpdate DEF Statuses
    <3>3. reservations' = [reservations EXCEPT ![r] =
            [reservations[r] EXCEPT !.status = "CONFIRMED", !.confirmed_at = now]]
      BY <1>7, <1>a, <2>1, <3>1 DEF ConfirmWrite
    <3>4. /\ reservations' \in [ReservationIds -> Reservation \cup {None}]
          /\ RowsStay
      BY <1>a, <3>2, <3>3, NoneAssumption DEF RowsStay
    <3>5. payments' \in [ReservationIds -> Payment \cup {None}]
      BY <1>7, <1>a, <2>1, <3>1 DEF ConfirmWrite, Payment
    <3>6. call' \in [Clients -> Call] /\ UpdatesAreChecked'
      BY <1>7, <2>1, <3>4, AnswerStep DEF ConfirmWrite, At
    <3> QED  BY <1>7, <1>a, <3>4, <3>5, <3>6 DEF ConfirmWrite, IInv, TypeOK
  <2>2. CASE ~(ConfirmIndexAllows(r) /\ PaymentIdFree(r, p))
    BY <1>7, <2>2, ReadOnly, AnswerStep DEF ConfirmWrite, At
  <2> QED  BY <2>1, <2>2
<1>8. ASSUME NEW op \in Updates, NEW final, NEW complete, ReleaseRead(c, op, final, complete),
             op = "cancel" /\ complete => CancelComplete(p)
      PROVE  IInv'
  <2>1. CASE \E reply \in Replies : Answer(c, reply)
    BY <1>8, <2>1, ReadOnly, AnswerStep DEF ReleaseRead, At
  <2>2. CASE HasStatus(r, "HELD") /\ complete /\ Goto(c, "write")
    <3>1. [call[c] EXCEPT !.pc = "write"] \in Call
      BY <1>8, <1>a, GotoType DEF ReleaseRead, At, Updates
    <3> QED  BY <1>8, <2>2, <3>1, ReadOnly, GotoStep DEF ReleaseRead, HasStatus, Checked, At
  <2> QED  BY <1>8, <2>1, <2>2 DEF ReleaseRead
<1>9. CASE CancelWrite(c)
  <2> DEFINE refused == p # None /\ ~PaymentIdFree(r, p.payment_id)
  <2>1. CASE ~refused
    <3>1. /\ r \in ReservationIds /\ p \in CancelPayload /\ reservations[r] # None
          /\ CancelComplete(p)
      BY <1>9, <1>a, CallFields DEF CancelWrite, At, IInv, UpdatesAreChecked, Updates, Checked
    <3>2. [reservations[r] EXCEPT !.status = "CANCELLED"] \in Reservation
      BY <1>a, <3>1, RowUpdate DEF Statuses
    <3>3. reservations' = [reservations EXCEPT ![r] =
            [reservations[r] EXCEPT !.status = "CANCELLED"]]
      BY <1>9, <1>a, <2>1, <3>1 DEF CancelWrite
    <3>4. /\ reservations' \in [ReservationIds -> Reservation \cup {None}]
          /\ RowsStay
      BY <1>a, <3>2, <3>3, NoneAssumption DEF RowsStay
    <3>5. payments' \in [ReservationIds -> Payment \cup {None}]
      <4>1. p \in Payment \cup {None}
        BY <3>1 DEF CancelComplete, CancelPayload, Payment
      <4> QED  BY <1>9, <1>a, <2>1, <3>1, <4>1 DEF CancelWrite
    <3>6. call' \in [Clients -> Call] /\ UpdatesAreChecked'
      BY <1>9, <2>1, <3>4, AnswerStep DEF CancelWrite, At
    <3> QED  BY <1>9, <1>a, <3>4, <3>5, <3>6 DEF CancelWrite, IInv, TypeOK
  <2>2. CASE refused
    BY <1>9, <2>2, ReadOnly, AnswerStep DEF CancelWrite, At
  <2> QED  BY <2>1, <2>2
<1>10. CASE ExpireWrite(c)
  <2>1. r \in ReservationIds /\ reservations[r] # None
    BY <1>10, <1>a, CallFields DEF ExpireWrite, At, IInv, UpdatesAreChecked, Updates, Checked
  <2>2. [reservations[r] EXCEPT !.status = "EXPIRED"] \in Reservation
    BY <1>a, <2>1, RowUpdate DEF Statuses
  <2>3. reservations' = [reservations EXCEPT ![r] = [reservations[r] EXCEPT !.status = "EXPIRED"]]
    BY <1>10, <1>a, <2>1 DEF ExpireWrite
  <2>4. /\ reservations' \in [ReservationIds -> Reservation \cup {None}]
        /\ RowsStay
    BY <1>a, <2>2, <2>3, NoneAssumption DEF RowsStay
  <2>5. call' \in [Clients -> Call] /\ UpdatesAreChecked'
    BY <1>10, <2>4, AnswerStep DEF ExpireWrite, At
  <2> QED  BY <1>10, <1>a, <2>4, <2>5 DEF ExpireWrite, IInv, TypeOK
<1> QED
  BY <1>1, <1>2, <1>3, <1>4, <1>5, <1>6, <1>7, <1>8, <1>9, <1>10
     DEF Step, Transaction, CancelRead, ExpireRead, Updates

(* Requests come in and answers go out without touching the tables. *)
LEMMA ClientPreserves ==
  ASSUME IInv, NEW c \in Clients, Requests(c) \/ Collect(c)
  PROVE  IInv'
<1> USE DEF Replies
<1>1. ASSUME NEW x \in Call, x.pc # "write", call' = [call EXCEPT ![c] = x],
             UNCHANGED <<reservations, payments, now>>
      PROVE  IInv'
  <2>1. call' \in [Clients -> Call]
    BY <1>1 DEF IInv, TypeOK
  <2>2. UpdatesAreChecked'
    BY <1>1 DEF IInv, TypeOK, UpdatesAreChecked, Checked
  <2> QED  BY <1>1, <2>1, <2>2, ReadOnly
<1>2. CASE Collect(c)
  <2>1. Idle \in Call /\ Idle.pc # "write"
    BY CallIntro DEF Idle
  <2> QED  BY <1>1, <1>2, <2>1 DEF Collect
<1>3. ASSUME NEW op, NEW q, NEW load, Submit(c, op, q, load),
             [op |-> op, pc |-> "sweep", rid |-> q, payload |-> load, reply |-> "none"] \in Call
      PROVE  IInv'
  BY <1>1, <1>3 DEF Submit
<1>4. ASSUME NEW q \in ReservationIds, NEW s \in Seats \cup {UnknownSeat}, NEW u \in Users,
             NEW k \in HoldTokens, NEW t \in Time,
             Submit(c, "create", q, [seat |-> s, user |-> u, hold_token |-> k, expires_at |-> t])
      PROVE  IInv'
  <2> DEFINE load == [seat |-> s, user |-> u, hold_token |-> k, expires_at |-> t]
             x == [op |-> "create", pc |-> "sweep", rid |-> q, payload |-> load,
                   reply |-> "none"]
  <2>1. load \in HeldPayload
    BY TimeAssumption DEF HeldPayload, Time
  <2>2. x \in CallOf("create", {"sweep", "read", "done"}, ReservationIds, HeldPayload)
    BY <2>1 DEF CallOf
  <2>3. x \in Call
    BY <2>2, CallIntro
  <2> QED  BY <1>3, <1>4, <2>3
<1>5. ASSUME NEW q \in ReservationIds, NEW id \in PaymentIds, Submit(c, "confirm", q, id)
      PROVE  IInv'
  <2> DEFINE x == [op |-> "confirm", pc |-> "sweep", rid |-> q, payload |-> id, reply |-> "none"]
  <2>1. x \in CallOf("confirm", {"sweep", "read", "write", "done"}, ReservationIds, PaymentIds)
    BY DEF CallOf
  <2>2. x \in Call  BY <2>1, CallIntro
  <2> QED  BY <1>3, <1>5, <2>2
<1>6. ASSUME NEW q \in ReservationIds, NEW load \in CancelPayload, Submit(c, "cancel", q, load)
      PROVE  IInv'
  <2> DEFINE x == [op |-> "cancel", pc |-> "sweep", rid |-> q, payload |-> load, reply |-> "none"]
  <2>1. x \in CallOf("cancel", {"sweep", "read", "write", "done"}, ReservationIds, CancelPayload)
    BY DEF CallOf
  <2>2. x \in Call  BY <2>1, CallIntro
  <2> QED  BY <1>3, <1>6, <2>2
<1>7. ASSUME NEW q \in ReservationIds, Submit(c, "expire", q, None)
      PROVE  IInv'
  <2> DEFINE x == [op |-> "expire", pc |-> "sweep", rid |-> q, payload |-> None, reply |-> "none"]
  <2>1. x \in CallOf("expire", {"sweep", "read", "write", "done"}, ReservationIds, {None})
    BY DEF CallOf
  <2>2. x \in Call  BY <2>1, CallIntro
  <2> QED  BY <1>3, <1>7, <2>2
<1>8. CASE Submit(c, "list", None, None)
  <2> DEFINE x == [op |-> "list", pc |-> "sweep", rid |-> None, payload |-> None, reply |-> "none"]
  <2>1. x \in CallOf("list", {"sweep", "done"}, {None}, {None})
    BY DEF CallOf
  <2>2. x \in Call  BY <2>1, CallIntro
  <2> QED  BY <1>3, <1>8, <2>2
<1> QED  BY <1>2, <1>4, <1>5, <1>6, <1>7, <1>8 DEF Requests

(* Empty tables satisfy the inductive invariant. *)
LEMMA InitInv ==
  ASSUME Init
  PROVE  IInv
<1>1. Idle \in Call /\ Idle.pc = "idle"
  BY CallIntro DEF Idle
<1>2. UpdatesAreChecked
  BY <1>1 DEF Init, UpdatesAreChecked
<1> QED  BY <1>1, <1>2 DEF Init, IInv, TypeOK

(* The inductive invariant holds of every reachable state. *)
LEMMA Invariance == Spec => []IInv
<1>1. Init => IInv
  BY InitInv
<1>2. IInv /\ [Next]_vars => IInv'
  <2> SUFFICES ASSUME IInv, [Next]_vars PROVE IInv'
    OBVIOUS
  <2>1. ASSUME NEW c \in Clients, Requests(c) \/ Step(c) \/ Collect(c)
        PROVE  IInv'
    BY <2>1, StepPreserves, ClientPreserves
  <2>2. CASE Tick
    BY <2>2 DEF Tick, IInv, TypeOK, UpdatesAreChecked, Checked
  <2>3. CASE UNCHANGED vars
    BY <2>3 DEF vars, IInv, TypeOK, UpdatesAreChecked, Checked
  <2> QED  BY <2>1, <2>2, <2>3 DEF Next
<1> QED  BY <1>1, <1>2, PTL DEF Spec

(* Type correctness: whatever requests run at the same time, the tables    *)
(* keep their columns and every request follows its handler.               *)
THEOREM TypeCorrect == Spec => []TypeOK
<1>1. IInv => TypeOK
  BY DEF IInv
<1> QED  BY <1>1, Invariance, PTL

-----------------------------------------------------------------------------
(* The two safety invariants. *)

(* A row keeps its seat for good, and only a confirm request's write makes *)
(* it CONFIRMED: past the unique index, and with a payment.                *)
RowStep ==
  \A q \in ReservationIds :
    HasStatus(q, "CONFIRMED")' =>
      \/ /\ HasStatus(q, "CONFIRMED")
         /\ reservations'[q].seat = reservations[q].seat
         /\ payments'[q] = payments[q]
      \/ /\ reservations'[q].seat = reservations[q].seat
         /\ ConfirmIndexAllows(q)
         /\ \A d \in ReservationIds \ {q} : reservations'[d] = reservations[d]
         /\ payments'[q] # None /\ payments'[q].status = "SUCCEEDED"

(* Every step is one of these. *)
LEMMA EveryRowStep ==
  ASSUME IInv, IInv', [Next]_vars
  PROVE  RowStep
<1>a. /\ reservations \in [ReservationIds -> Reservation \cup {None}]
      /\ payments \in [ReservationIds -> Payment \cup {None}]
      /\ payments' \in [ReservationIds -> Payment \cup {None}]
      /\ \A c \in Clients : call[c] \in Call
  BY DEF IInv, TypeOK
<1>1. ASSUME UNCHANGED <<reservations, payments>>
      PROVE  RowStep
  BY <1>1 DEF RowStep, HasStatus
<1>2. ASSUME NEW c \in Clients, Sweep(c)
      PROVE  RowStep
  BY <1>2, <1>a, NoneAssumption DEF RowStep, Sweep, Swept, HasStatus, Stale, Reservation
<1>3. ASSUME NEW c \in Clients, CreateWrite(c)
      PROVE  RowStep
  BY <1>3, <1>a DEF RowStep, CreateWrite, HasStatus, InsertAllowed, Reservation
<1>4. ASSUME NEW c \in Clients, ConfirmWrite(c)
      PROVE  RowStep
  <2> DEFINE r == call[c].rid
  <2>1. CASE UNCHANGED <<reservations, payments>>
    BY <1>1, <2>1
  <2>2. CASE ~UNCHANGED <<reservations, payments>>
    <3>1. /\ r \in ReservationIds /\ call[c].payload \in PaymentIds
          /\ reservations[r] # None
      BY <1>4, <1>a, CallFields DEF ConfirmWrite, At, IInv, UpdatesAreChecked, Checked, Updates
    <3>2. /\ ConfirmIndexAllows(r)
          /\ payments' = [payments EXCEPT ![r] =
               [payment_id |-> call[c].payload, status |-> "SUCCEEDED"]]
          /\ reservations' = [reservations EXCEPT ![r].status = "CONFIRMED",
                                                  ![r].confirmed_at = now]
      BY <1>4, <2>2 DEF ConfirmWrite
    <3>3. /\ reservations'[r].seat = reservations[r].seat
          /\ \A d \in ReservationIds \ {r} : reservations'[d] = reservations[d]
                                             /\ payments'[d] = payments[d]
      BY <1>a, <3>1, <3>2 DEF Reservation
    <3>4. payments'[r] # None /\ payments'[r].status = "SUCCEEDED"
      BY <1>a, <3>1, <3>2, NoneAssumption DEF Payment
    <3> QED  BY <3>2, <3>3, <3>4 DEF RowStep, HasStatus
  <2> QED  BY <2>1, <2>2
<1>5. ASSUME NEW c \in Clients, CancelWrite(c)
      PROVE  RowStep
  <2> DEFINE r == call[c].rid
  <2>1. CASE UNCHANGED <<reservations, payments>>
    BY <1>1, <2>1
  <2>2. CASE ~UNCHANGED <<reservations, payments>>
    <3>1. r \in ReservationIds /\ reservations[r] # None
      BY <1>5, <1>a, CallFields DEF CancelWrite, At, IInv, UpdatesAreChecked, Checked, Updates
    <3>2. /\ reservations' = [reservations EXCEPT ![r].status = "CANCELLED"]
          /\ \A d \in ReservationIds \ {r} : payments'[d] = payments[d]
      BY <1>5, <1>a, <2>2 DEF CancelWrite
    <3>3. reservations'[r].status = "CANCELLED"
      BY <1>a, <3>1, <3>2 DEF Reservation
    <3>4. \A d \in ReservationIds \ {r} : reservations'[d] = reservations[d]
      BY <1>a, <3>2
    <3> QED  BY <3>2, <3>3, <3>4 DEF RowStep, HasStatus
  <2> QED  BY <2>1, <2>2
<1>6. ASSUME NEW c \in Clients, ExpireWrite(c)
      PROVE  RowStep
  <2> DEFINE r == call[c].rid
  <2>1. r \in ReservationIds /\ reservations[r] # None
    BY <1>6, <1>a, CallFields DEF ExpireWrite, At, IInv, UpdatesAreChecked, Checked, Updates
  <2>2. reservations'[r].status = "EXPIRED" /\ payments' = payments
    BY <1>6, <1>a, <2>1 DEF ExpireWrite, Reservation
  <2>3. \A d \in ReservationIds \ {r} : reservations'[d] = reservations[d]
    BY <1>6, <1>a DEF ExpireWrite
  <2> QED  BY <2>2, <2>3 DEF RowStep, HasStatus
<1>7. ASSUME NEW c \in Clients, Requests(c) \/ Collect(c)
      PROVE  RowStep
  BY <1>1, <1>7 DEF Requests, Submit, Collect
<1>8. ASSUME NEW c \in Clients, \/ TransactionFails(c) \/ CreateRead(c) \/ CreateCheck(c)
                                \/ ConfirmRead(c) \/ CancelRead(c) \/ ExpireRead(c)
      PROVE  RowStep
  BY <1>1, <1>8 DEF TransactionFails, CreateRead, CreateCheck, ConfirmRead, CancelRead,
                    ExpireRead, ReleaseRead
<1>9. CASE Tick
  BY <1>1, <1>9 DEF Tick
<1>10. CASE UNCHANGED vars
  BY <1>1, <1>10 DEF vars
<1> QED
  BY <1>2, <1>3, <1>4, <1>5, <1>6, <1>7, <1>8, <1>9, <1>10 DEF Next, Step, Transaction

(* Such a step sells no seat twice. *)
LEMMA RowStepSellsOnce ==
  ASSUME RowStep, OneConfirmedPerSeat
  PROVE  OneConfirmedPerSeat'
<1> SUFFICES ASSUME NEW q \in ReservationIds, NEW r \in ReservationIds, q # r,
                    HasStatus(q, "CONFIRMED")', HasStatus(r, "CONFIRMED")',
                    reservations'[q].seat = reservations'[r].seat
             PROVE  FALSE
  BY DEF OneConfirmedPerSeat
<1> QED  BY DEF RowStep, OneConfirmedPerSeat, ConfirmIndexAllows, HasStatus

(* No seat is sold twice, for any number of concurrent requests: at most   *)
(* one reservation of a seat is CONFIRMED.                                 *)
THEOREM NoDoubleSale == Spec => []OneConfirmedPerSeat
<1>1. Init => OneConfirmedPerSeat
  BY DEF Init, OneConfirmedPerSeat, HasStatus
<1>2. IInv /\ IInv' /\ OneConfirmedPerSeat /\ [Next]_vars => OneConfirmedPerSeat'
  BY EveryRowStep, RowStepSellsOnce
<1> QED  BY <1>1, <1>2, Invariance, PTL DEF Spec

(* A CONFIRMED reservation has a payment that SUCCEEDED, whatever cancels  *)
(* and confirms of it run at the same time.                                *)
THEOREM SaleIsPaid == Spec => []ConfirmedIsPaid
<1>1. Init => ConfirmedIsPaid
  BY DEF Init, ConfirmedIsPaid, HasStatus
<1>2. IInv /\ IInv' /\ ConfirmedIsPaid /\ [Next]_vars => ConfirmedIsPaid'
  BY EveryRowStep DEF RowStep, ConfirmedIsPaid
<1> QED  BY <1>1, <1>2, Invariance, PTL DEF Spec

-----------------------------------------------------------------------------
(* What one transaction may do to the tables and to its request, for the   *)
(* proofs about the app server that sends the requests.                    *)

(* Row r of the table rows is still there, with the columns it was         *)
(* inserted with, and is not HELD again.                                   *)
RowKept(rows, r) ==
  /\ rows[r] # None
  /\ rows[r].seat = reservations[r].seat
  /\ rows[r].user = reservations[r].user
  /\ rows[r].expires_at = reservations[r].expires_at
  /\ rows[r].status = "HELD" => reservations[r].status = "HELD"

(* A request moves on, and only it. *)
LEMMA CallMoves ==
  ASSUME IInv, NEW c \in Clients, Step(c)
  PROVE  /\ call[c].pc \in {"sweep", "read", "check", "write"}
         /\ call'[c].pc \in {"read", "check", "write", "done"}
         /\ call'[c].op = call[c].op /\ call'[c].rid = call[c].rid
         /\ call'[c].payload = call[c].payload
         /\ \A d \in Clients \ {c} : call'[d] = call[d]
<1>1. call[c].pc \in {"sweep", "read", "check", "write"}
  BY DEF Step, TransactionFails, Transaction, Sweep, CreateRead, CreateCheck, CreateWrite,
         ConfirmRead, ConfirmWrite, CancelRead, CancelWrite, ExpireRead, ExpireWrite, ReleaseRead, At
<1>2. PICK pc \in {"read", "check", "write", "done"} :
        Goto(c, pc) \/ \E reply \in Replies : pc = "done" /\ Answer(c, reply)
  BY DEF Step, TransactionFails, Transaction, Sweep, CreateRead, CreateCheck, CreateWrite,
         ConfirmRead, ConfirmWrite, CancelRead, CancelWrite, ExpireRead, ExpireWrite, ReleaseRead,
         Replies
<1>3. {"op", "pc", "rid", "payload", "reply"} \subseteq DOMAIN call[c] /\ call \in [Clients -> Call]
  <2>1. call[c] \in Call
    BY DEF IInv, TypeOK
  <2> QED  BY <2>1, CallCases DEF CallOf, Idle, IInv, TypeOK
<1>4. CASE Goto(c, pc)
  <2>1. call'[c] = [call[c] EXCEPT !.pc = pc] /\ \A d \in Clients \ {c} : call'[d] = call[d]
    BY <1>3, <1>4 DEF Goto
  <2> QED  BY <1>1, <1>3, <2>1
<1>5. ASSUME NEW reply \in Replies, pc = "done", Answer(c, reply)
      PROVE  /\ call'[c].pc = "done"
             /\ call'[c].op = call[c].op /\ call'[c].rid = call[c].rid
             /\ call'[c].payload = call[c].payload
             /\ \A d \in Clients \ {c} : call'[d] = call[d]
  <2>1. /\ call'[c] = [call[c] EXCEPT !.pc = "done", !.reply = reply]
        /\ \A d \in Clients \ {c} : call'[d] = call[d]
    BY <1>3, <1>5 DEF Answer
  <2> QED  BY <1>3, <2>1
<1> QED  BY <1>1, <1>2, <1>4, <1>5

(* A sweep keeps the rows and lets no CONFIRMED one go; a row whose time   *)
(* is over is HELD no more.                                                *)
LEMMA SweepKeeps ==
  ASSUME IInv
  PROVE  /\ Swept \in [ReservationIds -> Reservation \cup {None}]
         /\ \A r \in ReservationIds :
              /\ reservations[r] # None => RowKept(Swept, r)
              /\ reservations[r] = None => Swept[r] = None
              /\ Stale(r) => Swept[r].status = "EXPIRED"
              /\ (Swept[r] # None /\ Swept[r].status = "CONFIRMED") <=> HasStatus(r, "CONFIRMED")
<1>1. reservations \in [ReservationIds -> Reservation \cup {None}]
  BY DEF IInv, TypeOK
<1>2. ASSUME NEW r \in ReservationIds
      PROVE  /\ Swept[r] \in Reservation \cup {None}
             /\ reservations[r] # None => RowKept(Swept, r)
             /\ reservations[r] = None => Swept[r] = None
             /\ Stale(r) => Swept[r].status = "EXPIRED"
             /\ (Swept[r] # None /\ Swept[r].status = "CONFIRMED") <=> HasStatus(r, "CONFIRMED")
  <2> DEFINE row == reservations[r]
  <2>1. CASE Stale(r)
    <3>1. row \in Reservation /\ row # None /\ row.status = "HELD"
      BY <1>1, <2>1 DEF Stale, HasStatus
    <3>2. Swept[r] = [row EXCEPT !.status = "EXPIRED"]
      BY <2>1 DEF Swept
    <3>3. Swept[r] \in Reservation /\ Swept[r] # None
      BY <3>1, <3>2, RowUpdate DEF Statuses
    <3> QED  BY <3>1, <3>2, <3>3 DEF RowKept, HasStatus, Reservation
  <2>2. CASE ~Stale(r)
    <3>1. Swept[r] = row
      BY <2>2 DEF Swept
    <3> QED  BY <1>1, <2>2, <3>1 DEF RowKept, HasStatus
  <2> QED  BY <2>1, <2>2
<1> QED  BY <1>2 DEF Swept

(* Setting the status leaves the other columns alone. *)
LEMMA RowColumns ==
  ASSUME NEW row \in Reservation, NEW s, NEW t
  PROVE  /\ [row EXCEPT !.status = s].status = s
         /\ [row EXCEPT !.status = s].seat = row.seat
         /\ [row EXCEPT !.status = s].user = row.user
         /\ [row EXCEPT !.status = s].expires_at = row.expires_at
         /\ [row EXCEPT !.status = s, !.confirmed_at = t].status = s
         /\ [row EXCEPT !.status = s, !.confirmed_at = t].seat = row.seat
         /\ [row EXCEPT !.status = s, !.confirmed_at = t].user = row.user
         /\ [row EXCEPT !.status = s, !.confirmed_at = t].expires_at = row.expires_at
BY DEF Reservation

(* What a transaction does to row r: it keeps it, inserts it or sells it,  *)
(* and only its own write can take a sale back.                            *)
RowEffect(c, r) ==
  /\ reservations[r] # None => RowKept(reservations', r)
  /\ (reservations[r] = None /\ reservations'[r] # None) =>
        /\ call[c].op = "create" /\ call[c].rid = r
        /\ reservations'[r].seat = call[c].payload.seat
        /\ reservations'[r].user = call[c].payload.user
  /\ (HasStatus(r, "CONFIRMED") /\ ~HasStatus(r, "CONFIRMED")') =>
        call[c].rid = r /\ call[c].pc = "write" /\ call[c].op \in {"cancel", "expire"}
  /\ payments'[r] # payments[r] =>
        \/ call[c].op = "cancel" /\ call[c].payload # None
        \/ payments'[r] # None /\ payments'[r].status = "SUCCEEDED"

(* The transactions have these effects. *)
LEMMA StepEffect ==
  ASSUME IInv, NEW c \in Clients, Step(c), NEW q \in ReservationIds
  PROVE  RowEffect(c, q)
<1> DEFINE r == call[c].rid
           p == call[c].payload
<1>a. /\ call[c] \in Call
      /\ reservations \in [ReservationIds -> Reservation \cup {None}]
      /\ payments \in [ReservationIds -> Payment \cup {None}]
      /\ now \in Nat
  BY DEF IInv, TypeOK
<1>b. ASSUME UNCHANGED <<reservations, payments>> PROVE RowEffect(c, q)
  BY <1>b DEF RowEffect, RowKept, HasStatus
<1>1. CASE Sweep(c)
  <2>1. reservations' = Swept /\ payments' = payments
    BY <1>1 DEF Sweep
  <2> QED  BY <2>1, SweepKeeps DEF RowEffect, RowKept, HasStatus
<1>2. CASE \/ TransactionFails(c) \/ CreateRead(c) \/ CreateCheck(c)
           \/ ConfirmRead(c) \/ CancelRead(c) \/ ExpireRead(c)
  BY <1>2, <1>b DEF TransactionFails, CreateRead, CreateCheck, ConfirmRead, CancelRead, ExpireRead,
                    ReleaseRead
<1>3. CASE CreateWrite(c)
  <2>1. CASE UNCHANGED reservations
    BY <1>3, <1>b, <2>1 DEF CreateWrite
  <2>2. CASE ~UNCHANGED reservations
    <3> DEFINE row == [seat |-> p.seat, user |-> p.user, status |-> "HELD",
                       hold_token |-> p.hold_token, expires_at |-> p.expires_at,
                       confirmed_at |-> None]
    <3>1. /\ call[c].op = "create" /\ reservations[r] = None /\ payments' = payments
          /\ reservations' = [reservations EXCEPT ![r] = row]
      BY <1>3, <2>2 DEF CreateWrite, InsertAllowed, At
    <3>2. row.seat = p.seat /\ row.user = p.user
      OBVIOUS
    <3> HIDE DEF row
    <3>3. CASE q = r
      BY <1>a, <3>1, <3>2, <3>3 DEF RowEffect, HasStatus
    <3>4. CASE q # r
      BY <1>a, <3>1, <3>4 DEF RowEffect, RowKept, HasStatus
    <3> QED  BY <3>3, <3>4
  <2> QED  BY <2>1, <2>2
<1>4. CASE ConfirmWrite(c)
  <2>1. CASE UNCHANGED <<reservations, payments>>
    BY <1>b, <2>1
  <2>2. CASE ~UNCHANGED <<reservations, payments>>
    <3> DEFINE row == [reservations[r] EXCEPT !.status = "CONFIRMED", !.confirmed_at = now]
               paid == [payment_id |-> p, status |-> "SUCCEEDED"]
    <3>1. r \in ReservationIds /\ p \in PaymentIds /\ reservations[r] # None
      BY <1>4, <1>a, CallFields DEF ConfirmWrite, At, IInv, UpdatesAreChecked, Checked, Updates
    <3>2. /\ reservations' = [reservations EXCEPT ![r] = row]
          /\ payments' = [payments EXCEPT ![r] = paid]
      BY <1>4, <1>a, <2>2, <3>1 DEF ConfirmWrite
    <3>3. /\ row # None /\ row.status = "CONFIRMED" /\ row.seat = reservations[r].seat
          /\ row.user = reservations[r].user /\ row.expires_at = reservations[r].expires_at
      <4>1. reservations[r] \in Reservation
        BY <1>a, <3>1
      <4>2. row # None
        BY <1>a, <3>1, RowUpdate DEF Statuses
      <4> QED  BY <4>1, <4>2, RowColumns
    <3>4. paid # None /\ paid.status = "SUCCEEDED"
      BY <3>1, NoneAssumption DEF Payment
    <3> HIDE DEF row, paid
    <3>5. CASE q = r
      BY <1>a, <3>1, <3>2, <3>3, <3>4, <3>5 DEF RowEffect, RowKept, HasStatus
    <3>6. CASE q # r
      BY <1>a, <3>2, <3>6 DEF RowEffect, RowKept, HasStatus
    <3> QED  BY <3>5, <3>6
  <2> QED  BY <2>1, <2>2
<1>5. CASE CancelWrite(c)
  <2>1. CASE UNCHANGED <<reservations, payments>>
    BY <1>b, <2>1
  <2>2. CASE ~UNCHANGED <<reservations, payments>>
    <3> DEFINE row == [reservations[r] EXCEPT !.status = "CANCELLED"]
               paid == IF p = None THEN payments[r] ELSE p
    <3>1. r \in ReservationIds /\ reservations[r] # None /\ call[c].op = "cancel"
          /\ call[c].pc = "write"
      BY <1>5, <1>a, CallFields DEF CancelWrite, At, IInv, UpdatesAreChecked, Checked, Updates
    <3>2. /\ reservations' = [reservations EXCEPT ![r] = row]
          /\ payments' = [payments EXCEPT ![r] = paid]
      BY <1>5, <1>a, <2>2, <3>1 DEF CancelWrite
    <3>3. /\ row # None /\ row.status = "CANCELLED" /\ row.seat = reservations[r].seat
          /\ row.user = reservations[r].user /\ row.expires_at = reservations[r].expires_at
      <4>1. reservations[r] \in Reservation
        BY <1>a, <3>1
      <4>2. row # None
        BY <1>a, <3>1, RowUpdate DEF Statuses
      <4> QED  BY <4>1, <4>2, RowColumns
    <3>4. paid # payments[r] => p # None
      OBVIOUS
    <3> HIDE DEF row, paid
    <3>5. CASE q = r
      BY <1>a, <3>1, <3>2, <3>3, <3>4, <3>5 DEF RowEffect, RowKept, HasStatus
    <3>6. CASE q # r
      BY <1>a, <3>2, <3>6 DEF RowEffect, RowKept, HasStatus
    <3> QED  BY <3>5, <3>6
  <2> QED  BY <2>1, <2>2
<1>6. CASE ExpireWrite(c)
  <2> DEFINE row == [reservations[r] EXCEPT !.status = "EXPIRED"]
  <2>1. r \in ReservationIds /\ reservations[r] # None /\ call[c].op = "expire"
        /\ call[c].pc = "write"
    BY <1>6, <1>a, CallFields DEF ExpireWrite, At, IInv, UpdatesAreChecked, Checked, Updates
  <2>2. reservations' = [reservations EXCEPT ![r] = row] /\ payments' = payments
    BY <1>6, <1>a, <2>1 DEF ExpireWrite
  <2>3. /\ row # None /\ row.status = "EXPIRED" /\ row.seat = reservations[r].seat
        /\ row.user = reservations[r].user /\ row.expires_at = reservations[r].expires_at
    <3>1. reservations[r] \in Reservation
      BY <1>a, <2>1
    <3>2. row # None
      BY <1>a, <2>1, RowUpdate DEF Statuses
    <3> QED  BY <3>1, <3>2, RowColumns
  <2> HIDE DEF row
  <2>4. CASE q = r
    BY <1>a, <2>1, <2>2, <2>3, <2>4 DEF RowEffect, RowKept, HasStatus
  <2>5. CASE q # r
    BY <1>a, <2>2, <2>5 DEF RowEffect, RowKept, HasStatus
  <2> QED  BY <2>4, <2>5
<1> QED
  BY <1>1, <1>2, <1>3, <1>4, <1>5, <1>6 DEF Step, Transaction

(* What callers do to the service between its transactions: a listing      *)
(* sweeps, time passes, requests are sent, collected, or left to           *)
(* another client that nobody waits for.                                   *)
Between ==
  /\ reservations' \in {reservations, Swept}
  /\ payments' = payments
  /\ now' \in Nat /\ now' >= now
  /\ call' \in [Clients -> Call]
  /\ \A d \in Clients : call'[d].pc = "write" => \E e \in Clients : call'[d] = call[e]

(* A listing that sweeps, or nothing, happens to the rows. *)
LEMMA BetweenKeeps ==
  ASSUME IInv, Between
  PROVE  /\ \A r \in ReservationIds : /\ reservations[r] # None => RowKept(reservations', r)
                                      /\ reservations[r] = None => reservations'[r] = None
                                      /\ HasStatus(r, "CONFIRMED")' <=> HasStatus(r, "CONFIRMED")
         /\ IInv'
         /\ RowStep
<1>1. /\ reservations' \in [ReservationIds -> Reservation \cup {None}]
      /\ \A r \in ReservationIds : /\ reservations[r] # None => RowKept(reservations', r)
                                   /\ reservations[r] = None => reservations'[r] = None
                                   /\ HasStatus(r, "CONFIRMED")' <=> HasStatus(r, "CONFIRMED")
  <2>1. CASE reservations' = reservations
    BY <2>1 DEF RowKept, HasStatus, IInv, TypeOK
  <2>2. CASE reservations' = Swept
    BY <2>2, SweepKeeps DEF HasStatus
  <2> QED  BY <2>1, <2>2 DEF Between
<1>2. TypeOK'
  BY <1>1 DEF Between, IInv, TypeOK
<1>3. UpdatesAreChecked'
  <2> SUFFICES ASSUME NEW d \in Clients, call'[d].pc = "write", call'[d].op \in Updates
               PROVE  Checked(call[d])'
    BY DEF UpdatesAreChecked
  <2>1. PICK e \in Clients : call'[d] = call[e]
    BY DEF Between
  <2>2. Checked(call[e]) /\ call[e] \in Call
    BY <2>1 DEF IInv, UpdatesAreChecked, TypeOK
  <2>3. call[e].rid \in ReservationIds
    BY <2>1, <2>2, CallFields DEF Updates
  <2> QED  BY <1>1, <2>1, <2>2, <2>3 DEF Checked, RowKept
<1>4. RowStep
  BY <1>1 DEF RowStep, RowKept, HasStatus, Between
<1> QED  BY <1>1, <1>2, <1>3, <1>4 DEF IInv

(* A confirm that is answered "ok" has found or left its row CONFIRMED. *)
LEMMA ConfirmAnswer ==
  ASSUME IInv, NEW c \in Clients, Step(c), call[c].op = "confirm",
         call'[c].pc = "done", call'[c].reply = "ok"
  PROVE  HasStatus(call[c].rid, "CONFIRMED")'
<1>a. /\ call \in [Clients -> Call]
      /\ reservations \in [ReservationIds -> Reservation \cup {None}]
      /\ {"op", "pc", "rid", "payload", "reply"} \subseteq DOMAIN call[c]
      /\ call[c].rid \in ReservationIds
  <2>1. call[c] \in Call
    BY DEF IInv, TypeOK
  <2> QED  BY <2>1, CallCases, CallFields DEF CallOf, Idle, IInv, TypeOK
<1>b. ASSUME NEW reply, Answer(c, reply) PROVE reply = "ok"
  BY <1>a, <1>b DEF Answer
<1>c. ASSUME NEW pc, Goto(c, pc) PROVE pc = "done"
  BY <1>a, <1>c DEF Goto
<1>1. CASE Sweep(c)
  BY <1>1, <1>c DEF Sweep
<1>2. CASE TransactionFails(c)
  BY <1>2, <1>b DEF TransactionFails
<1>3. CASE ConfirmRead(c)
  <2>1. HasStatus(call[c].rid, "CONFIRMED") /\ reservations' = reservations
    BY <1>3, <1>b, <1>c DEF ConfirmRead
  <2> QED  BY <1>a, <2>1, CallMoves DEF HasStatus
<1>4. CASE ConfirmWrite(c)
  <2> DEFINE r == call[c].rid
             row == [reservations[r] EXCEPT !.status = "CONFIRMED", !.confirmed_at = now]
  <2>1. reservations[r] # None /\ now \in Nat
    BY <1>4, <1>a DEF ConfirmWrite, At, IInv, UpdatesAreChecked, Checked, Updates, TypeOK
  <2>2. reservations' = [reservations EXCEPT ![r] = row]
    BY <1>4, <1>a, <1>b DEF ConfirmWrite
  <2>3. row.status = "CONFIRMED" /\ row # None
    <3>1. reservations[r] \in Reservation
      BY <1>a, <2>1
    <3>2. row # None
      BY <1>a, <2>1, RowUpdate DEF Statuses
    <3> QED  BY <3>1, <3>2, RowColumns
  <2> HIDE DEF row
  <2>4. call'[c].rid = call[c].rid
    BY CallMoves
  <2> QED  BY <1>a, <2>2, <2>3, <2>4 DEF HasStatus
<1> QED
  BY <1>1, <1>2, <1>3, <1>4 DEF Step, Transaction, CreateRead, CreateCheck, CreateWrite,
     CancelRead, CancelWrite, ExpireRead, ExpireWrite, ReleaseRead, At

(* An expire request for a row whose time is over writes nothing itself:   *)
(* its own sweep has expired the row, and the read answers.                *)
LEMMA ExpireAnswer ==
  ASSUME IInv, NEW c \in Clients, Transaction(c), call[c].op = "expire",
         reservations[call[c].rid] # None
  PROVE  /\ (/\ call[c].pc = "sweep"
             /\ HasStatus(call[c].rid, "HELD") => Stale(call[c].rid))
              => call'[c].pc = "read" /\ reservations'[call[c].rid].status # "HELD"
         /\ (call[c].pc = "read" /\ ~HasStatus(call[c].rid, "HELD"))
              => call'[c].pc = "done" /\ call'[c].reply \in {"ok", "conflict"}
<1>a. /\ call \in [Clients -> Call]
      /\ {"op", "pc", "rid", "payload", "reply"} \subseteq DOMAIN call[c]
      /\ call[c].rid \in ReservationIds
  <2>1. call[c] \in Call
    BY DEF IInv, TypeOK
  <2> QED  BY <2>1, CallCases, CallFields DEF CallOf, Idle, IInv, TypeOK
<1>1. CASE call[c].pc = "sweep"
  <2>1. reservations' = Swept /\ Goto(c, "read")
    BY <1>1 DEF Transaction, Sweep, CreateRead, CreateCheck, CreateWrite, ConfirmRead, ConfirmWrite,
                CancelRead, CancelWrite, ExpireRead, ExpireWrite, ReleaseRead, At
  <2>2. call'[c].pc = "read"
    BY <1>a, <2>1 DEF Goto
  <2>3. ASSUME HasStatus(call[c].rid, "HELD") => Stale(call[c].rid)
        PROVE  reservations'[call[c].rid].status # "HELD"
    <3>1. CASE Stale(call[c].rid)
      BY <1>a, <2>1, <3>1, SweepKeeps
    <3>2. CASE ~HasStatus(call[c].rid, "HELD")
      BY <1>a, <2>1, <3>2, SweepKeeps DEF RowKept, HasStatus
    <3> QED  BY <2>3, <3>1, <3>2
  <2> QED  BY <1>1, <2>2, <2>3
<1>2. CASE call[c].pc = "read"
  <2>1. ASSUME ~HasStatus(call[c].rid, "HELD")
        PROVE  \E reply \in {"ok", "conflict"} : Answer(c, reply)
    BY <1>2, <2>1 DEF Transaction, Sweep, CreateRead, CreateCheck, CreateWrite, ConfirmRead,
                      ConfirmWrite, CancelRead, CancelWrite, ExpireRead, ExpireWrite, ReleaseRead, At
  <2> QED  BY <1>a, <1>2, <2>1 DEF Answer
<1> QED  BY <1>1, <1>2

(* A cancel or an expire gets to its write only if its read finds the row  *)
(* HELD.                                                                   *)
LEMMA UndoChecks ==
  ASSUME IInv, NEW c \in Clients, Step(c), call[c].op \in {"cancel", "expire"},
         call'[c].pc = "write"
  PROVE  HasStatus(call[c].rid, "HELD") /\ reservations' = reservations
<1>a. /\ call \in [Clients -> Call]
      /\ {"op", "pc", "rid", "payload", "reply"} \subseteq DOMAIN call[c]
  <2>1. call[c] \in Call
    BY DEF IInv, TypeOK
  <2> QED  BY <2>1, CallCases DEF CallOf, Idle, IInv, TypeOK
<1>1. ASSUME NEW reply PROVE ~Answer(c, reply)
  BY <1>a DEF Answer
<1>2. ASSUME NEW pc, Goto(c, pc) PROVE pc = "write"
  BY <1>2, <1>a DEF Goto
<1>3. CancelRead(c) \/ ExpireRead(c)
  BY <1>1, <1>2 DEF Step, Transaction, TransactionFails, Sweep, CreateRead, CreateCheck, CreateWrite,
     ConfirmRead, ConfirmWrite, CancelWrite, ExpireWrite, At
<1> QED  BY <1>1, <1>3 DEF CancelRead, ExpireRead, ReleaseRead
=============================================================================
