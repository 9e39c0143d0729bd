------------------------------ MODULE Ticketing ------------------------------
(***************************************************************************)
(* The ticketing application as a whole.  The threads of the app server    *)
(* (app_server/service.py) take a request through Redis commands and DB    *)
(* requests, one step per call; the reconciler (app_server/reconciler.py)  *)
(* repairs Redis from the database.  The DB service is TicketingDB, the    *)
(* seats in Redis obey StoreCommands.  Calls fail: a DB request times out  *)
(* and is served later, a Redis command is lost, executed without its      *)
(* reply, or executed again, its reply is left to be read by the next      *)
(* command (RedisConnection), a transaction fails, Redis loses its data.   *)
(***************************************************************************)
EXTENDS Integers, Sequences, FiniteSets

CONSTANTS
  Threads,         \* app server threads; each serves one request
  Reconciler,      \* the reconciler process
  LateCalls,       \* DB requests whose caller gave up waiting
  ReservationIds,  \* numbered in the order of the id strings
  Seats,
  UnknownSeat,     \* a seat that is not in the catalogue
  Users,
  PaymentIds,
  HoldSeconds,     \* hold_seconds of requests
  Limit,           \* --limit of the reconciler
  Ops,             \* the endpoints in use, and "reconcile" if the reconciler runs
  FaultKinds,      \* what may fail: "timeout", "db", "redis", "late", "crash"
  MaxFaults,       \* bound on the number of failures
  MaxTime,         \* bound on the clock
  None

ASSUME IdAssumption    == ReservationIds \subseteq Nat
ASSUME LimitAssumption == Limit \in Nat \ {0}
ASSUME HoldAssumption  == HoldSeconds \subseteq Nat \ {0}

VARIABLES
  reservations, payments, call, now,   \* the DB service
  redis,    \* the slot of each seat key
  wire,     \* commands on closed Redis connections, not yet executed
  unread,   \* what a Redis connection owes since a call gave up on it
  thread,   \* the request each thread serves
  worker,   \* the reconciler's pass
  faults,   \* number of failures so far
  raced     \* history: reservations sold under a cancel or expire that found them HELD

vars == <<reservations, payments, call, now, redis, wire, unread, thread, worker, faults,
          raced>>
dbVars == <<reservations, payments, now, raced>>

Callers == Threads \cup {Reconciler} \cup LateCalls

DB == INSTANCE TicketingDB WITH Clients <- Callers, HoldTokens <- ReservationIds

Redis == INSTANCE StoreCommands
           WITH SeatKeys <- Seats, QueueKeys <- {}, GenericKeys <- {}, Literals <- {},
                ExpireSeconds <- {}, NoEntry <- None, NoUser <- None

ASSUME NoneAssumption    == /\ None \notin Nat
                            /\ None \notin DB!Reservation
                            /\ None \notin DB!Payment
ASSUME SeatAssumption    == UnknownSeat \notin Seats
ASSUME BoundAssumption   == MaxTime \in Nat /\ MaxFaults \in Nat
ASSUME CallersAssumption == /\ Reconciler \notin Threads \cup LateCalls
                            /\ Threads \cap LateCalls = {}

(* The threads of the app server share a connection to Redis. *)
Links == {"app server", "reconciler"}

NoRequest == [op |-> "none", pc |-> "idle", seat |-> None, user |-> None, rid |-> None,
              seconds |-> 0, tries |-> 0, reply |-> "none"]

(* The reconciler between two passes: every listed row is repaired. *)
Asleep == [pc |-> "repair", todo |-> {}, expired |-> {}, row |-> None]

Init == /\ DB!Init
        /\ redis = [s \in Seats |-> None]
        /\ wire = {}
        /\ unread = [link \in Links |-> None]
        /\ thread = [t \in Threads |-> NoRequest]
        /\ worker = Asleep
        /\ faults = 0
        /\ raced = {}

Fault(kind) == /\ kind \in FaultKinds
               /\ faults < MaxFaults
               /\ faults' = faults + 1

-----------------------------------------------------------------------------
(* Redis commands (app_server/redis_client.py). *)

Seat(s) == Redis!Fresh(redis[s], now)

Command(name, s, u, n) == [name |-> name, seat |-> s, user |-> u, seconds |-> n]
Status(s) == Command("SEAT_STATUS", s, None, 0)

Outcome(c) ==
  CASE c.name = "RESERVE_SEAT" -> Redis!ReserveOutcome(Seat(c.seat), now, c.user, c.seconds)
    [] c.name = "RELEASE_SEAT" -> Redis!ReleaseOutcome(Seat(c.seat), now, c.user)
    [] c.name = "FORCE_CONFIRM_SEAT" -> Redis!ForceConfirmOutcome(c.user)
    [] c.name = "SEAT_STATUS" ->
         Redis!Outcome(redis[c.seat], <<1>> \o Redis!SeatStatus(Seat(c.seat), now))

Execute(c) == redis' = [redis EXCEPT ![c.seat] = Outcome(c).entry]

(* A copy of c may be on its way on a connection that is closed.           *)
Copies(c) == IF c.name = "SEAT_STATUS" THEN {} ELSE {c}

(* Replies without their ttl.  A status has 3 items, other replies have 4: *)
(* a command method rejects a reply of the wrong length.                   *)
Items(c) == IF c.name = "SEAT_STATUS" THEN 3 ELSE 4
Reply(items, success, state, user) ==
  [items |-> items, success |-> success, state |-> state, user |-> user]
ReplyTo(c) == LET x == Outcome(c).result IN Reply(Items(c), x[1], x[2], x[3])
Failed == Reply(0, 0, "none", None)
Decoded(c, reply) == IF reply.items = Items(c) THEN reply ELSE Failed

Says(reply, state, u) == reply.state = state /\ reply.user = u

(* A connection in step owes nothing.  Behind, it owes the reply to an     *)
(* earlier command, which the server may still have to execute.            *)
InStep(link) == unread[link] = None
Behind(link) == ~InStep(link) /\ "reply" \in DOMAIN unread[link]
Owed(link)   == IF InStep(link) \/ Behind(link) THEN {} ELSE Copies(unread[link].command)
Owes(link, x) == unread' = [unread EXCEPT ![link] = x]

(* execute() of command c returns reply, or raises if it is Failed. *)
Replies(link, c) == {Failed, ReplyTo(c)}
                      \cup (IF Behind(link) THEN {Decoded(c, unread[link].reply)} ELSE {})
Served(link, c, reply) ==
  /\ InStep(link)
  /\ reply = ReplyTo(c) /\ Execute(c)
  /\ UNCHANGED <<wire, unread, faults>>
(* The second attempt is answered, on a new connection; the first may      *)
(* still be on its way.  (For a status in step that is no different.)      *)
Retried(link, c, reply) ==
  /\ Copies(c) # {} \/ ~InStep(link)
  /\ Fault("redis")
  /\ reply = ReplyTo(c) /\ Execute(c)
  /\ wire' = wire \cup Copies(c) \cup Owed(link)
  /\ Owes(link, None)
(* Both attempts fail with their connections; the server may or may not    *)
(* execute the command.  At most one copy of a command is on its way.      *)
Lost(link, c, reply) ==
  /\ Fault("redis")
  /\ reply = Failed /\ UNCHANGED redis
  /\ wire' \in {wire \cup Owed(link), wire \cup Owed(link) \cup Copies(c)}
  /\ Owes(link, None)
(* The second attempt times out: its connection stays in use. *)
Late(link, c, reply) ==
  /\ Fault("late")
  /\ reply = Failed /\ UNCHANGED redis
  /\ wire' = wire \cup Owed(link)
  /\ Owes(link, [command |-> c])
(* The call reads the reply that was left, and leaves its own. *)
Misread(link, c, reply) ==
  /\ Behind(link)
  /\ reply = Decoded(c, unread[link].reply)
  /\ Owes(link, [command |-> c])
  /\ UNCHANGED <<redis, wire, faults>>
(* Both replies arrive together: the call fails, and is in step again. *)
CaughtUp(link, c, reply) ==
  /\ Behind(link)
  /\ reply = Failed /\ Execute(c)
  /\ Owes(link, None)
  /\ UNCHANGED <<wire, faults>>

Ask(link, c, reply) == \/ Served(link, c, reply)
                       \/ Retried(link, c, reply)
                       \/ Lost(link, c, reply)
                       \/ Late(link, c, reply)
                       \/ Misread(link, c, reply)
                       \/ CaughtUp(link, c, reply)

(* The server executes what a connection owes. *)
Answer(link) ==
  /\ ~InStep(link) /\ ~Behind(link)
  /\ Execute(unread[link].command)
  /\ Owes(link, [reply |-> ReplyTo(unread[link].command)])
  /\ UNCHANGED <<dbVars, call, wire, thread, worker, faults>>

Deliver(c) == /\ Execute(c)
              /\ wire' = wire \ {c}
              /\ UNCHANGED <<dbVars, call, unread, thread, worker, faults>>

(* The server restarts without a snapshot: every hold and sale is gone.    *)
RedisRestarts == /\ Fault("crash")
                 /\ redis' = [s \in Seats |-> None]
                 /\ wire' = {}
                 /\ unread' = [link \in Links |-> None]
                 /\ UNCHANGED <<dbVars, call, thread, worker>>

-----------------------------------------------------------------------------
(* DB requests (app_server/db_client.py). *)

SeatOf(r) == reservations[r].seat
UserOf(r) == reservations[r].user

(* uuid4() never repeats an id. *)
FreshId(r) == /\ reservations[r] = None
              /\ \A c \in Callers : call[c].rid # r
              /\ \A t \in Threads : thread[t].rid # r
FreshPayment(id) == /\ \A r \in ReservationIds : payments[r] # None => payments[r].payment_id # id
                    /\ \A c \in Callers : call[c].op = "confirm" => call[c].payload # id

Failures == {"conflict", "not_found", "error"}

(* The answer to the request of thread t, or the error it gets when it     *)
(* stops waiting while the service goes on.                                *)
Answered(t, reply) ==
  \/ /\ call[t].pc = "done"
     /\ reply = call[t].reply
     /\ call' = [call EXCEPT ![t] = DB!Idle]
     /\ UNCHANGED faults
  \/ /\ call[t].pc \notin {"idle", "done"}
     /\ reply = "error"
     /\ \E l \in LateCalls : /\ call[l].pc \in {"idle", "done"}
                             /\ call' = [call EXCEPT ![t] = DB!Idle, ![l] = call[t]]
     /\ Fault("timeout")

-----------------------------------------------------------------------------
(* app_server/service.py: control of a request. *)

At(t, pc) == thread[t].pc = pc

Goto(t, pc) == thread' = [thread EXCEPT ![t].pc = pc]

Finish(t, reply) == thread' = [thread EXCEPT ![t].pc = "done", ![t].reply = reply]

(* purchase_seat cancels what it reserved when confirm_reservation raises. *)
Confirming == {"find_held", "status", "expire", "confirm", "finalize", "view_sold"}
Raise(t, reply) == IF thread[t].op = "purchase" /\ thread[t].pc \in Confirming
                   THEN Goto(t, "undo") ELSE Finish(t, reply)

(* The requests that frontends send: they confirm and cancel reservations  *)
(* with the seat and the user these were made for.                         *)
Start(t, op, pc, s, u, r, n) ==
  /\ op \in Ops
  /\ thread' = [thread EXCEPT ![t] = [op |-> op, pc |-> pc, seat |-> s, user |-> u, rid |-> r,
                                      seconds |-> n, tries |-> 0, reply |-> "none"]]
  /\ UNCHANGED <<dbVars, call, redis, wire, unread, worker, faults>>

StartHold(t) ==
  /\ At(t, "idle")
  /\ \E op \in {"hold", "purchase"}, s \in Seats \cup {UnknownSeat},
        u \in Users, n \in HoldSeconds : Start(t, op, "find", s, u, None, n)
StartConfirm(t) ==
  /\ At(t, "idle")
  /\ \E r \in ReservationIds :
       /\ reservations[r] # None
       /\ Start(t, "confirm", "find_held", SeatOf(r), UserOf(r), r, 0)
StartCancel(t) ==
  /\ At(t, "idle")
  /\ \E r \in ReservationIds :
       /\ reservations[r] # None
       /\ Start(t, "cancel", "cancel", SeatOf(r), UserOf(r), r, 0)

(* Sends the DB request of the step that thread t is at. *)
Send(t) ==
  LET x == thread[t]
  IN /\ \/ /\ x.pc = "create"
           /\ \E r \in ReservationIds :
                /\ FreshId(r)
                /\ DB!Submit(t, "create", r, [seat |-> x.seat, user |-> x.user, hold_token |-> r,
                                              expires_at |-> now + x.seconds])
                /\ thread' = [thread EXCEPT ![t].rid = r]
        \/ /\ x.pc = "confirm"
           /\ \E id \in PaymentIds : FreshPayment(id) /\ DB!Submit(t, "confirm", x.rid, id)
           /\ UNCHANGED thread
        \/ /\ x.pc \in {"cancel", "undo"}
           /\ DB!Submit(t, "cancel", x.rid, None)
           /\ UNCHANGED thread
        \/ /\ x.pc = "expire"
           /\ DB!Submit(t, "expire", x.rid, None)
           /\ UNCHANGED thread
     /\ UNCHANGED <<redis, wire, unread, worker, faults, raced>>

(* GET /events/{event_id}/seats sweeps the stale rows and lists the fixed  *)
(* catalogue: request and answer are one step.  The transaction that fails *)
(* is the sweep or the listing after it; a sweep for a caller that gave up *)
(* is a SweepByListing.                                                    *)
SeatViews == {"view_held", "view_sold", "view_cancelled"}
Views == {"find", "find_held"} \cup SeatViews
ListSeats(reply) ==
  \/ /\ reply = "ok"
     /\ reservations' = DB!Swept
     /\ UNCHANGED faults
  \/ /\ reply = "error"
     /\ Fault("timeout")
     /\ UNCHANGED reservations
  \/ /\ reply = "error"
     /\ Fault("db")
     /\ reservations' \in {reservations, DB!Swept}

(* The listing of a dashboard, at any time. *)
SweepByListing ==
  /\ \E r \in ReservationIds : DB!Stale(r)
  /\ reservations' = DB!Swept
  /\ UNCHANGED <<payments, now, raced, call, redis, wire, unread, thread, worker, faults>>

-----------------------------------------------------------------------------
(* hold_reservation *)

HoldFind(t, reply) ==
  /\ At(t, "find")
  /\ \/ reply = "ok" /\ thread[t].seat # UnknownSeat /\ Goto(t, "reserve")
     \/ reply = "ok" /\ thread[t].seat = UnknownSeat /\ Finish(t, "not_found")
     \/ reply # "ok" /\ Finish(t, reply)

HoldReserve(t) ==
  LET x == thread[t]
      c == Command("RESERVE_SEAT", x.seat, x.user, x.seconds)
  IN /\ At(t, "reserve")
     /\ \E reply \in Replies("app server", c) :
          /\ Ask("app server", c, reply)
          /\ \/ reply = Failed /\ Finish(t, "error")
             \/ reply # Failed /\ reply.success = 1 /\ Goto(t, "create")
             \/ reply # Failed /\ reply.success = 0 /\ Finish(t, "conflict")
     /\ UNCHANGED <<dbVars, call, worker>>

HoldCreate(t, reply) ==
  /\ At(t, "create")
  /\ Goto(t, IF reply = "ok" THEN "view_held" ELSE "release_check")

HoldView(t, reply) ==
  /\ At(t, "view_held")
  /\ IF reply = "ok" /\ thread[t].op = "purchase" THEN Goto(t, "find_held") ELSE Finish(t, reply)

-----------------------------------------------------------------------------
(* confirm_reservation *)

ConfirmFind(t, reply) ==
  /\ At(t, "find_held")
  /\ IF reply = "ok" THEN Goto(t, "status") ELSE Raise(t, reply)

ConfirmStatus(t) ==
  LET x == thread[t]
      c == Status(x.seat)
  IN /\ At(t, "status")
     /\ \E reply \in Replies("app server", c) :
          /\ Ask("app server", c, reply)
          /\ \/ reply = Failed /\ Raise(t, "error")
             \/ reply.state = "AVAILABLE" /\ Goto(t, "expire")
             \/ /\ reply.state \in {"HELD", "CONFIRMED"} /\ ~Says(reply, "HELD", x.user)
                /\ Raise(t, "conflict")
             \/ Says(reply, "HELD", x.user) /\ Goto(t, "confirm")
     /\ UNCHANGED <<dbVars, call, worker>>

(* _safe_expire, then the hold is reported expired. *)
ConfirmExpire(t, reply) == At(t, "expire") /\ Raise(t, "conflict")

ConfirmInDbSwallows(t, reply) == At(t, "confirm") /\ Goto(t, "finalize")

ConfirmInDb(t, reply) ==
  /\ At(t, "confirm")
  /\ IF reply = "ok" THEN Goto(t, "finalize") ELSE Raise(t, reply)

(* _finalize_confirmed_seat: REDIS_CONFIRM_RETRY_ATTEMPTS attempts.  Only  *)
(* an UpstreamError is retried; a ConflictError stands for an error reply, *)
(* which Redis gives to none of these commands on a seat key.              *)
Attempts == 3
Finalized(t, Miss) ==
  LET x == thread[t]
      c == Command("FORCE_CONFIRM_SEAT", x.seat, x.user, 0)
  IN /\ At(t, "finalize")
     /\ \E reply \in Replies("app server", c) :
          /\ Ask("app server", c, reply)
          /\ IF Says(reply, "CONFIRMED", x.user) THEN Goto(t, "view_sold") ELSE Miss
     /\ UNCHANGED <<dbVars, call, worker>>

FinalizeUncounted(t) == Finalized(t, thread' = [thread EXCEPT ![t].tries = @ + 1])

Finalize(t) ==
  Finalized(t, IF thread[t].tries + 1 < Attempts THEN thread' = [thread EXCEPT ![t].tries = @ + 1]
               ELSE Raise(t, "error"))

ConfirmView(t, reply) ==
  /\ At(t, "view_sold")
  /\ IF reply = "ok" THEN Finish(t, "ok") ELSE Raise(t, reply)

-----------------------------------------------------------------------------
(* cancel_reservation, the undo of purchase_seat, and _safe_release *)

CancelInDb(t, reply) ==
  /\ At(t, "cancel")
  /\ IF reply = "ok" THEN Goto(t, "release_check") ELSE Finish(t, reply)

Undo(t, reply) == At(t, "undo") /\ Goto(t, "release_check")

Released(t) == IF thread[t].op = "cancel" THEN Goto(t, "view_cancelled") ELSE Finish(t, "error")

ReleaseCheck(t) ==
  LET x == thread[t]
      c == Status(x.seat)
  IN /\ At(t, "release_check")
     /\ \E reply \in Replies("app server", c) :
          /\ Ask("app server", c, reply)
          /\ IF Says(reply, "HELD", x.user) THEN Goto(t, "release") ELSE Released(t)
     /\ UNCHANGED <<dbVars, call, worker>>

Release(t) ==
  LET c == Command("RELEASE_SEAT", thread[t].seat, thread[t].user, 0)
  IN /\ At(t, "release")
     /\ \E reply \in Replies("app server", c) : Ask("app server", c, reply)
     /\ Released(t)
     /\ UNCHANGED <<dbVars, call, worker>>

CancelView(t, reply) == At(t, "view_cancelled") /\ Finish(t, reply)

Viewed(t, reply) == \/ HoldFind(t, reply)
                    \/ HoldView(t, reply)
                    \/ ConfirmFind(t, reply)
                    \/ ConfirmView(t, reply)
                    \/ CancelView(t, reply)

(* The seats are listed and the handler goes on. *)
View(t) ==
  /\ thread[t].pc \in Views
  /\ \E reply \in {"ok", "error"} : /\ reply = "ok" => thread[t].pc \notin SeatViews
                                  /\ ListSeats(reply)
                                  /\ Viewed(t, reply)
  /\ UNCHANGED <<payments, now, raced, call, redis, wire, unread, worker>>

(* get_event_seat lists the seats and asks Redis for one. *)
ViewSeat(t) ==
  LET c == Status(thread[t].seat)
  IN /\ thread[t].pc \in SeatViews
     /\ reservations' = DB!Swept
     /\ \E reply \in Replies("app server", c) :
          Ask("app server", c, reply) /\ Viewed(t, IF reply = Failed THEN "error" ELSE "ok")
     /\ UNCHANGED <<payments, now, raced, call, worker>>

(* A DB request of thread t is answered and the handler goes on. *)
Receive(t) ==
  /\ \E reply \in Failures \cup {"ok"} :
       /\ Answered(t, reply)
       /\ \/ HoldCreate(t, reply)
          \/ ConfirmExpire(t, reply)
          \/ ConfirmInDb(t, reply)
          \/ CancelInDb(t, reply)
          \/ Undo(t, reply)
  /\ UNCHANGED <<dbVars, redis, wire, unread, worker>>

-----------------------------------------------------------------------------
(* app_server/reconciler.py *)

(* The first Limit rows of a query ordered by a column and the id.  The    *)
(* rows of a listing are then processed one by one, here in any order.     *)
Earlier(q, r, column) ==
  \/ reservations[q][column] < reservations[r][column]
  \/ reservations[q][column] = reservations[r][column] /\ q < r
FirstRows(rows, column) ==
  {r \in rows : Cardinality({q \in rows : Earlier(q, r, column)}) < Limit}

Stage(pc, todo) == worker' = [worker EXCEPT !.pc = pc, !.todo = todo, !.row = None]
Take(r, pc)     == worker' = [worker EXCEPT !.pc = pc, !.todo = @ \ {r}, !.row = r]
Skip(r)         == worker' = [worker EXCEPT !.todo = @ \ {r}]

ListStale ==
  /\ worker = Asleep /\ "reconcile" \in Ops
  /\ Stage("expire", FirstRows({r \in ReservationIds : DB!Stale(r)}, "expires_at"))
  /\ UNCHANGED <<dbVars, call, redis, wire, unread, thread, faults>>

ExpireRow == \E r \in worker.todo :
  /\ worker.pc = "expire"
  /\ DB!Submit(Reconciler, "expire", r, None)
  /\ Take(r, "expiring")
  /\ UNCHANGED <<redis, wire, unread, thread, faults, raced>>

RowExpiredNoCatch ==
  LET reply == call[Reconciler].reply
  IN /\ worker.pc = "expiring"
     /\ call[Reconciler].pc = "done"
     /\ DB!Collect(Reconciler)
     /\ worker' = [worker EXCEPT
          !.pc = IF reply = "ok" THEN "expire" ELSE "dead",
          !.row = None,
          !.expired = IF reply = "ok" THEN @ \cup {worker.row} ELSE @]
     /\ UNCHANGED <<redis, wire, unread, thread, faults, raced>>

(* A conflict is skipped; any other exception ends the process. *)
RowExpired ==
  LET reply == call[Reconciler].reply
  IN /\ worker.pc = "expiring"
     /\ call[Reconciler].pc = "done"
     /\ DB!Collect(Reconciler)
     /\ worker' = [worker EXCEPT
          !.pc = IF reply \in {"ok", "conflict"} THEN "expire" ELSE "dead",
          !.row = None,
          !.expired = IF reply = "ok" THEN @ \cup {worker.row} ELSE @]
     /\ UNCHANGED <<redis, wire, unread, thread, faults, raced>>

StartReleasing ==
  /\ worker.pc = "expire" /\ worker.todo = {} /\ worker.expired # {}
  /\ worker' = [pc |-> "release", todo |-> worker.expired, expired |-> {}, row |-> None]
  /\ UNCHANGED <<dbVars, call, redis, wire, unread, thread, faults>>

CheckStaleSeat == \E r \in worker.todo :
  LET c == Status(SeatOf(r))
  IN /\ worker.pc = "release"
     /\ \E reply \in Replies("reconciler", c) :
          /\ Ask("reconciler", c, reply)
          /\ IF Says(reply, "HELD", UserOf(r)) THEN Take(r, "releasing") ELSE Skip(r)
     /\ UNCHANGED <<dbVars, call, thread>>

ReleaseStaleSeat ==
  LET c == Command("RELEASE_SEAT", SeatOf(worker.row), UserOf(worker.row), 0)
  IN /\ worker.pc = "releasing"
     /\ \E reply \in Replies("reconciler", c) : Ask("reconciler", c, reply)
     /\ Stage("release", worker.todo)
     /\ UNCHANGED <<dbVars, call, thread>>

(* No seat is left to release: the confirmed rows are next. *)
AllReleased == /\ worker.todo = {}
               /\ worker.pc = "release" \/ (worker.pc = "expire" /\ worker.expired = {})

ListConfirmed ==
  /\ AllReleased
  /\ Stage("repair", FirstRows({r \in ReservationIds : DB!HasStatus(r, "CONFIRMED")},
                               "confirmed_at"))
  /\ UNCHANGED <<dbVars, call, redis, wire, unread, thread, faults>>

CheckSoldSeatHeldOnly == \E r \in worker.todo :
  LET c == Status(SeatOf(r))
  IN /\ worker.pc = "repair"
     /\ \E reply \in Replies("reconciler", c) :
          /\ Ask("reconciler", c, reply)
          /\ IF Says(reply, "HELD", UserOf(r)) THEN Take(r, "repairing") ELSE Skip(r)
     /\ UNCHANGED <<dbVars, call, thread>>

CheckSoldSeat == \E r \in worker.todo :
  LET c == Status(SeatOf(r))
  IN /\ worker.pc = "repair"
     /\ \E reply \in Replies("reconciler", c) :
          /\ Ask("reconciler", c, reply)
          /\ IF reply = Failed \/ Says(reply, "CONFIRMED", UserOf(r))
             THEN Skip(r) ELSE Take(r, "repairing")
     /\ UNCHANGED <<dbVars, call, thread>>

RepairSoldSeat ==
  LET c == Command("FORCE_CONFIRM_SEAT", SeatOf(worker.row), UserOf(worker.row), 0)
  IN /\ worker.pc = "repairing"
     /\ \E reply \in Replies("reconciler", c) : Ask("reconciler", c, reply)
     /\ Stage("repair", worker.todo)
     /\ UNCHANGED <<dbVars, call, thread>>

(* A listing finds the database locked: the exception ends the process.    *)
ListingFails ==
  /\ "reconcile" \in Ops
  /\ worker = Asleep \/ AllReleased
  /\ Fault("db")
  /\ Stage("dead", {})
  /\ UNCHANGED <<dbVars, call, redis, wire, unread, thread>>

Reconcile == \/ ListStale
             \/ ExpireRow
             \/ RowExpired
             \/ StartReleasing
             \/ CheckStaleSeat
             \/ ReleaseStaleSeat
             \/ ListConfirmed
             \/ CheckSoldSeat
             \/ RepairSoldSeat
             \/ ListingFails

-----------------------------------------------------------------------------
(* The reservations that this transaction sells while a cancel or expire   *)
(* of a user's request, past its check of the status, has yet to write.    *)
SoldInRace ==
  {r \in ReservationIds :
     /\ ~DB!HasStatus(r, "CONFIRMED") /\ DB!HasStatus(r, "CONFIRMED")'
     /\ \E c \in Threads \cup LateCalls :
          call[c].op \in {"cancel", "expire"} /\ call[c].pc = "write" /\ call[c].rid = r}

(* The DB service works on the requests, those of late callers included. *)
Serve(c) == /\ \/ DB!Transaction(c) /\ UNCHANGED faults
               \/ DB!TransactionFails(c) /\ Fault("db")
            /\ raced' = raced \cup SoldInRace
            /\ UNCHANGED <<redis, wire, unread, thread, worker>>

Tick == DB!Tick /\ UNCHANGED <<redis, wire, unread, thread, worker, faults, raced>>

Serving(t) == \/ Send(t)
              \/ Receive(t)
              \/ View(t)
              \/ ViewSeat(t)
              \/ HoldReserve(t)
              \/ ConfirmStatus(t)
              \/ Finalize(t)
              \/ ReleaseCheck(t)
              \/ Release(t)

(* All requests are answered and the reconciler is not running. *)
Finished == /\ \A t \in Threads : At(t, "done")
            /\ worker.pc = "dead" \/ "reconcile" \notin Ops
            /\ UNCHANGED vars

Next == \/ \E t \in Threads : StartHold(t) \/ StartConfirm(t) \/ StartCancel(t) \/ Serving(t)
        \/ Reconcile
        \/ \E c \in Callers : Serve(c)
        \/ SweepByListing
        \/ \E c \in wire : Deliver(c)
        \/ \E link \in Links : Answer(link)
        \/ RedisRestarts
        \/ Tick
        \/ Finished

Spec == Init /\ [][Next]_vars

(* The reconciler is a loop with a sleep, and the DB service runs every    *)
(* request it accepted, as Redis does with the commands on a connection.   *)
FairSpec == /\ Spec
            /\ WF_vars(Reconcile)
            /\ WF_vars(Serve(Reconciler))
            /\ WF_vars(Answer("reconciler"))

-----------------------------------------------------------------------------
(* Properties. *)

(* Commands that may still be on their way when their caller is gone. *)
Writes == [name: {"RESERVE_SEAT", "RELEASE_SEAT", "FORCE_CONFIRM_SEAT"},
           seat: Seats, user: Users, seconds: HoldSeconds \cup {0}]

(* The requests of threads and the reconciler's passes. *)
Requests == [op: {"none", "hold", "confirm", "cancel", "purchase"},
             pc: {"idle", "done", "reserve", "create", "cancel", "undo",
                  "release_check", "release"} \cup Confirming \cup Views,
             seat: Seats \cup {UnknownSeat, None}, user: Users \cup {None},
             rid: ReservationIds \cup {None}, seconds: HoldSeconds \cup {0},
             tries: 0..(Attempts - 1), reply: Failures \cup {"none", "ok"}]
Passes == [pc: {"expire", "expiring", "release", "releasing", "repair", "repairing", "dead"},
           todo: SUBSET ReservationIds, expired: SUBSET ReservationIds,
           row: ReservationIds \cup {None}]

(* Type invariant: threads, the reconciler and the seats in Redis stay in  *)
(* the states their code can be in, and no retry loop runs over its bound. *)
TypeOK ==
  /\ DB!TypeOK
  /\ redis \in [Seats -> Redis!Slot]
  /\ wire \subseteq Writes
  /\ \A link \in Links :
       \/ InStep(link)
       \/ Behind(link) /\ unread[link].reply.items \in {3, 4}
       \/ unread[link].command.seat \in Seats
  /\ thread \in [Threads -> Requests]
  /\ worker \in Passes
  /\ faults \in 0..MaxFaults
  /\ raced \subseteq ReservationIds

(* docs/db-handoff.md: Redis must not say CONFIRMED before the DB saved    *)
(* the sale.  A seat that is CONFIRMED for a user in Redis has a paid      *)
(* reservation of that user, through retries, late commands and repairs.   *)
ConfirmedAfterSale ==
  \A s \in Seats, u \in Users :
    Redis!ConfirmedBy(redis[s], u) =>
      \E r \in ReservationIds : /\ reservations[r] # None
                                /\ SeatOf(r) = s /\ UserOf(r) = u
                                /\ payments[r] # None /\ payments[r].status = "SUCCEEDED"

(* A thread that told its user the seat is bought. *)
Sold(t) == /\ thread[t].op \in {"confirm", "purchase"}
           /\ thread[t].pc = "done" /\ thread[t].reply = "ok"

(* No seat is sold to two users, as the users see it, whatever calls fail  *)
(* or come late.  Excepted is a sale whose reservation another request had *)
(* found HELD before the sale, to cancel or expire it after (a finding:    *)
(* OnlyHeldRowsMove).  A cancel that comes after the sale is no exception. *)
OneBuyerPerSeat ==
  \A t, v \in Threads :
    (/\ Sold(t) /\ thread[t].rid \notin raced
     /\ Sold(v) /\ thread[v].rid \notin raced
     /\ thread[t].seat = thread[v].seat) => thread[t].user = thread[v].user

(* A bought seat stays bought in the database, the source of truth, whether*)
(* it was purchased or held first and then confirmed, in spite of the      *)
(* reconciler, sweeps, late requests and later cancels, with the exception *)
(* of OneBuyerPerSeat.                                                     *)
SoldStaysSold ==
  \A t \in Threads :
    Sold(t) => DB!HasStatus(thread[t].rid, "CONFIRMED") \/ thread[t].rid \in raced

(* A row that an app server thread or a sweep got to first is a conflict   *)
(* the reconciler survives: only a failing DB transaction ends it.         *)
ReconcilerLives == "db" \notin FaultKinds => worker.pc # "dead"

(* README: hold_reservation() makes a HELD row once Redis has granted the  *)
(* hold.  When a thread goes on to the DB, the seat is its user's.         *)
HoldBeforeRow ==
  [][\A t \in Threads :
       (At(t, "reserve") /\ thread'[t].pc = "create")
         => Redis!HeldBy(redis'[thread[t].seat], thread[t].user)]_vars

(* README, "Redis can be rebuilt from the DB": a seat the DB sold becomes  *)
(* CONFIRMED for its buyer in Redis, whatever failed before, unless a DB   *)
(* error ended the reconciler.                                             *)
SaleReachesRedis ==
  \A r \in ReservationIds :
    DB!HasStatus(r, "CONFIRMED")
      ~> \/ worker.pc = "dead"
         \/ DB!HasStatus(r, "CONFIRMED") => Redis!ConfirmedBy(redis[SeatOf(r)], UserOf(r))
=============================================================================
