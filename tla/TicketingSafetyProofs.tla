------------------------ MODULE TicketingSafetyProofs ------------------------
(***************************************************************************)
(* The safety of the ticketing application.  TicketingProofs says what the *)
(* steps of threads, of the DB service and of Redis do; here every step    *)
(* preserves the inductive invariant, and the properties follow from it.   *)
(***************************************************************************)
EXTENDS TicketingProofs

-----------------------------------------------------------------------------
(* The reconciler. *)

(* The steps of a pass: to a next list of rows, to a row of it, past one.  *)
LEMMA PassSteps ==
  ASSUME worker \in Passes
  PROVE  /\ \A pc \in {"expire", "expiring", "release", "releasing", "repair", "repairing", "dead"},
               todo \in SUBSET ReservationIds :
              Stage(pc, todo) =>
                /\ worker' \in Passes /\ worker'.pc = pc /\ worker'.todo = todo
                /\ worker'.row = None /\ worker'.expired = worker.expired
         /\ \A pc \in {"expiring", "releasing", "repairing"}, r \in worker.todo :
              Take(r, pc) =>
                /\ worker' \in Passes /\ worker'.pc = pc /\ worker'.todo = worker.todo \ {r}
                /\ worker'.row = r /\ worker'.expired = worker.expired
         /\ \A r \in worker.todo :
              Skip(r) =>
                /\ worker' \in Passes /\ worker'.pc = worker.pc
                /\ worker'.todo = worker.todo \ {r}
                /\ worker'.row = worker.row /\ worker'.expired = worker.expired
<1>1. ASSUME NEW pc \in {"expire", "expiring", "release", "releasing", "repair", "repairing", "dead"},
             NEW todo \in SUBSET ReservationIds, Stage(pc, todo)
      PROVE  /\ worker' \in Passes /\ worker'.pc = pc /\ worker'.todo = todo
             /\ worker'.row = None /\ worker'.expired = worker.expired
  BY <1>1 DEF Stage, Passes
<1>2. ASSUME NEW pc \in {"expiring", "releasing", "repairing"}, NEW r \in worker.todo, Take(r, pc)
      PROVE  /\ worker' \in Passes /\ worker'.pc = pc /\ worker'.todo = worker.todo \ {r}
             /\ worker'.row = r /\ worker'.expired = worker.expired
  BY <1>2 DEF Take, Passes
<1>3. ASSUME NEW r \in worker.todo, Skip(r)
      PROVE  /\ worker' \in Passes /\ worker'.pc = worker.pc
             /\ worker'.todo = worker.todo \ {r}
             /\ worker'.row = worker.row /\ worker'.expired = worker.expired
  BY <1>3 DEF Skip, Passes
<1> QED  BY <1>1, <1>2, <1>3

(* What a step of the reconciler does to itself. *)
WorkerStep == /\ worker' \in Passes
              /\ Sane(worker')
              /\ worker'.pc = "dead" => worker.pc = "dead" \/ "db" \in FaultKinds
              /\ UNCHANGED dbVars

(* A listing returns rows of the table it was asked for, at most Limit. *)
LEMMA FirstRowsSubset ==
  ASSUME NEW rows \in SUBSET ReservationIds, NEW column
  PROVE  FirstRows(rows, column) \in SUBSET ReservationIds /\ FirstRows(rows, column) \subseteq rows
BY DEF FirstRows

(* What a row says of its seat and its user. *)
LEMMA RowsKnown ==
  ASSUME DBInv
  PROVE  \A r \in ReservationIds :
           r # None /\ (reservations[r] # None => SeatOf(r) \in Seats /\ UserOf(r) \in Users)
BY CallTypes DEF DBInv, DBP!IInv, DBP!TypeOK, DBP!Reservation, SeatOf, UserOf

(* Unless it waits for an answer, the reconciler has no request. *)
LEMMA NotWaiting ==
  ASSUME DBInv, ExpiryInv
  PROVE  /\ worker.pc # "expiring" => call[Reconciler].pc = "idle"
         /\ call[Reconciler].op \in {"none", "expire"}
         /\ Reconciler \in Callers
<1>1. Reconciler \in Callers
  BY DEF Callers
<1>2. call[Reconciler].pc = "idle" => call[Reconciler].op = "none"
  <2>1. call[Reconciler] \in DBP!Call
    BY <1>1, CallTypes
  <2> QED  BY <2>1, IdleCall DEF DB!Idle
<1> QED  BY <1>1, <1>2 DEF ExpiryInv

(* A step that leaves the DB service alone. *)
LEMMA WorkerAlone ==
  ASSUME DBInv, ExpiryInv, UNCHANGED <<dbVars, call, thread>>
  PROVE  ElsewhereStep /\ (worker.pc # "expiring" => ExpiryInv')
<1>1. ElsewhereStep
  BY NotWaiting DEF ElsewhereStep, QuietTables, CallStep, dbVars
<1>2. worker.pc # "expiring" => ExpiryInv'
  BY NotWaiting DEF ExpiryInv
<1> QED  BY <1>1, <1>2

(* A command of the reconciler. *)
LEMMA WorkerAsks ==
  ASSUME ControlInv, NEW c, NEW reply, Known(c), Ask("reconciler", c, reply)
  PROVE  RedisStep /\ faults' \in 0..MaxFaults
<1>1. faults' = faults \/ \E kind \in {"redis", "late"} : Fault(kind)
  BY DEF Ask, Served, Retried, Lost, Late, Misread, CaughtUp
<1>2. faults' \in 0..MaxFaults
  BY <1>1, BoundAssumption DEF ControlInv, Fault
<1> QED  BY <1>2 DEF RedisStep, Links

(* What holds after every step of the reconciler. *)
WorkerDone == ElsewhereStep /\ RedisStep /\ faults' \in 0..MaxFaults /\ WorkerStep /\ ExpiryInv'

(* The reconciler lists rows: stale ones, the ones it expired, sold ones.  *)
LEMMA Listings ==
  ASSUME DBInv, ControlInv, WorkerInv, ExpiryInv,
         ListStale \/ StartReleasing \/ ListConfirmed \/ ListingFails
  PROVE  WorkerDone
<1>a. worker \in Passes /\ Sane(worker) /\ faults \in 0..MaxFaults /\ MaxFaults \in Nat
  BY BoundAssumption DEF ControlInv, WorkerInv
<1>b. UNCHANGED <<dbVars, call, redis, wire, unread, thread>>
  BY DEF ListStale, StartReleasing, ListConfirmed, ListingFails
<1>c. worker.pc # "expiring"
  BY DEF ListStale, StartReleasing, ListConfirmed, ListingFails, AllReleased, Asleep
<1>d. faults' \in 0..MaxFaults
  BY <1>a DEF ListStale, StartReleasing, ListConfirmed, ListingFails, Fault
<1> SUFFICES WorkerStep
  BY <1>b, <1>c, <1>d, WorkerAlone DEF WorkerDone, RedisStep
<1>1. ASSUME NEW pc \in {"expire", "repair"}, NEW rows \in SUBSET ReservationIds,
             Stage(pc, rows), \A r \in rows : reservations[r] # None,
             pc = "expire" => \A r \in rows : Lapsed(r),
             pc = "repair" => \A r \in rows : PaidRow(r)
      PROVE  WorkerStep
  <2>1. /\ worker' \in Passes /\ worker'.pc = pc /\ worker'.todo = rows
        /\ worker'.row = None /\ worker'.expired = worker.expired
    BY <1>1, <1>a, PassSteps
  <2>2. Listed(worker') = rows
    BY <2>1 DEF Listed
  <2>3. Sane(worker')
    BY <1>1, <1>a, <2>1, <2>2 DEF Sane
  <2> QED  BY <1>b, <2>1, <2>3 DEF WorkerStep
<1>2. CASE ListStale
  <2> DEFINE stale == {r \in ReservationIds : DB!Stale(r)}
             rows == FirstRows(stale, "expires_at")
  <2>1. rows \in SUBSET ReservationIds /\ rows \subseteq stale
    BY FirstRowsSubset
  <2>2. \A r \in stale : reservations[r] # None /\ Lapsed(r)
    BY DEF Lapsed, DB!Stale, DB!HasStatus
  <2>3. Stage("expire", rows)
    BY <1>2 DEF ListStale
  <2> HIDE DEF rows, stale
  <2> QED  BY <1>1, <2>1, <2>2, <2>3
<1>3. CASE ListConfirmed
  <2> DEFINE sold == {r \in ReservationIds : DB!HasStatus(r, "CONFIRMED")}
             rows == FirstRows(sold, "confirmed_at")
  <2>1. rows \in SUBSET ReservationIds /\ rows \subseteq sold
    BY FirstRowsSubset
  <2>2. \A r \in sold : reservations[r] # None /\ PaidRow(r)
    BY DEF DBInv, DBP!ConfirmedIsPaid, DBP!HasStatus, DB!HasStatus, PaidRow
  <2>3. Stage("repair", rows)
    BY <1>3 DEF ListConfirmed
  <2> HIDE DEF rows, sold
  <2> QED  BY <1>1, <2>1, <2>2, <2>3
<1>4. CASE StartReleasing
  <2>1. worker' = [pc |-> "release", todo |-> worker.expired, expired |-> {}, row |-> None]
    BY <1>4 DEF StartReleasing
  <2>2. worker' \in Passes
    BY <1>a, <2>1 DEF Passes
  <2>3. Sane(worker')
    BY <1>a, <2>1 DEF Sane, Listed
  <2> QED  BY <1>b, <2>1, <2>2, <2>3 DEF WorkerStep
<1>5. CASE ListingFails
  <2>1. Stage("dead", {}) /\ "db" \in FaultKinds
    BY <1>5 DEF ListingFails, Fault
  <2>2. /\ worker' \in Passes /\ worker'.pc = "dead" /\ worker'.todo = {}
        /\ worker'.row = None /\ worker'.expired = worker.expired
    BY <1>a, <2>1, PassSteps
  <2>3. Sane(worker')
    BY <1>a, <2>2 DEF Sane, Listed
  <2> QED  BY <1>b, <2>1, <2>2, <2>3 DEF WorkerStep
<1> QED  BY <1>2, <1>3, <1>4, <1>5

(* It asks Redis for a seat, and writes to it: it confirms only seats with *)
(* a row that is paid for.                                                 *)
LEMMA SeatChecks ==
  ASSUME DBInv, ControlInv, WorkerInv, ExpiryInv,
         CheckStaleSeat \/ ReleaseStaleSeat \/ CheckSoldSeat \/ RepairSoldSeat
  PROVE  WorkerDone
<1>a. worker \in Passes /\ Sane(worker)
  BY DEF ControlInv, WorkerInv
<1>b. UNCHANGED <<dbVars, call, thread>>
  BY DEF CheckStaleSeat, ReleaseStaleSeat, CheckSoldSeat, RepairSoldSeat
<1>c. worker.pc # "expiring"
  BY DEF CheckStaleSeat, ReleaseStaleSeat, CheckSoldSeat, RepairSoldSeat
<1>d. ASSUME RedisStep, faults' \in 0..MaxFaults, worker' \in Passes, Sane(worker'),
             worker'.pc # "dead"
      PROVE  WorkerDone
  BY <1>b, <1>c, <1>d, WorkerAlone DEF WorkerDone, WorkerStep
<1>e. ASSUME NEW r \in Listed(worker)
      PROVE  /\ r \in ReservationIds /\ reservations[r] # None
             /\ SeatOf(r) \in Seats /\ UserOf(r) \in Users
  BY <1>a, <1>e, RowsKnown DEF Sane, Listed, Passes
<1>f. 0 \in HoldSeconds \cup {0} /\ worker.todo \subseteq Listed(worker)
  BY DEF Listed
<1>1. ASSUME NEW r \in worker.todo, NEW pc \in {"releasing", "repairing"},
             \/ pc = "releasing" /\ worker.pc = "release"
             \/ pc = "repairing" /\ worker.pc = "repair",
             Take(r, pc) \/ Skip(r)
      PROVE  worker' \in Passes /\ Sane(worker') /\ worker'.pc # "dead"
  <2>1. /\ worker' \in Passes /\ worker'.pc \in {pc, worker.pc}
        /\ worker'.pc = pc => worker'.row = r
        /\ Listed(worker') \subseteq Listed(worker) /\ worker'.expired = worker.expired
    <3>1. CASE Take(r, pc)
      BY <1>1, <1>a, <3>1, PassSteps DEF Listed
    <3>2. CASE Skip(r)
      BY <1>1, <1>a, <3>2, PassSteps DEF Listed
    <3> QED  BY <1>1, <3>1, <3>2
  <2>2. r # None
    BY <1>1, <1>e, <1>f, RowsKnown
  <2> QED  BY <1>1, <1>a, <2>1, <2>2 DEF Sane
<1>2. ASSUME NEW pc \in {"release", "repair"},
             worker.pc = (IF pc = "release" THEN "releasing" ELSE "repairing"),
             Stage(pc, worker.todo)
      PROVE  worker' \in Passes /\ Sane(worker') /\ worker'.pc # "dead"
  <2>1. /\ worker' \in Passes /\ worker'.pc = pc /\ worker'.todo = worker.todo
        /\ worker'.row = None /\ worker'.expired = worker.expired
    <3>1. worker.todo \in SUBSET ReservationIds
      BY <1>a DEF Passes
    <3> QED  BY <1>2, <1>a, <3>1, PassSteps
  <2>2. Listed(worker') \subseteq Listed(worker)
    BY <2>1 DEF Listed
  <2> QED  BY <1>2, <1>a, <2>1, <2>2 DEF Sane
<1>3. CASE CheckStaleSeat
  <2>1. PICK r \in worker.todo : \E reply \in Replies("reconciler", Status(SeatOf(r))) :
          /\ worker.pc = "release"
          /\ Ask("reconciler", Status(SeatOf(r)), reply)
          /\ Take(r, "releasing") \/ Skip(r)
    BY <1>3 DEF CheckStaleSeat
  <2>2. Known(Status(SeatOf(r)))
    BY <1>e, <1>f, StatusKnown
  <2> QED  BY <1>1, <1>d, <2>1, <2>2, WorkerAsks
<1>4. CASE CheckSoldSeat
  <2>1. PICK r \in worker.todo : \E reply \in Replies("reconciler", Status(SeatOf(r))) :
          /\ worker.pc = "repair"
          /\ Ask("reconciler", Status(SeatOf(r)), reply)
          /\ Take(r, "repairing") \/ Skip(r)
    BY <1>4 DEF CheckSoldSeat
  <2>2. Known(Status(SeatOf(r)))
    BY <1>e, <1>f, StatusKnown
  <2> QED  BY <1>1, <1>d, <2>1, <2>2, WorkerAsks
<1>5. CASE ReleaseStaleSeat
  <2> DEFINE c == Command("RELEASE_SEAT", SeatOf(worker.row), UserOf(worker.row), 0)
  <2>1. worker.pc = "releasing" /\ Stage("release", worker.todo) /\ \E reply : Ask("reconciler", c, reply)
    BY <1>5 DEF ReleaseStaleSeat
  <2>2. worker.row \in Listed(worker)
    BY <1>a, <2>1 DEF Sane, Listed
  <2>3. Known(c)
    BY <1>e, <1>f, <2>2, WriteKnown
  <2> HIDE DEF c
  <2> QED  BY <1>2, <1>d, <2>1, <2>3, WorkerAsks
<1>6. CASE RepairSoldSeat
  <2> DEFINE c == Command("FORCE_CONFIRM_SEAT", SeatOf(worker.row), UserOf(worker.row), 0)
  <2>1. worker.pc = "repairing" /\ Stage("repair", worker.todo) /\ \E reply : Ask("reconciler", c, reply)
    BY <1>6 DEF RepairSoldSeat
  <2>2. worker.row \in Listed(worker)
    BY <1>a, <2>1 DEF Sane, Listed
  <2>3. Paid(SeatOf(worker.row), UserOf(worker.row))
    BY <1>a, <1>e, <2>1, <2>2 DEF Sane, Paid
  <2>4. Known(c)
    BY <1>e, <1>f, <2>2, <2>3, WriteKnown
  <2> HIDE DEF c
  <2> QED  BY <1>2, <1>d, <2>1, <2>4, WorkerAsks
<1> QED  BY <1>3, <1>4, <1>5, <1>6

(* It has a row expired, whose time is over: it only ever ends with an     *)
(* error of the DB service.                                                *)
LEMMA Expiries ==
  ASSUME DBInv, ControlInv, WorkerInv, ExpiryInv, ExpireRow \/ RowExpired
  PROVE  WorkerDone
<1>a. /\ worker \in Passes /\ Sane(worker) /\ faults \in 0..MaxFaults
      /\ call \in [Callers -> DBP!Call] /\ Reconciler \in Callers
  BY CallTypes DEF ControlInv, WorkerInv, Callers
<1>b. /\ UNCHANGED <<dbVars, redis, wire, unread, thread, faults>>
  BY DEF ExpireRow, RowExpired, DB!Submit, DB!Collect, dbVars
<1>c. ASSUME NEW x, Fresh(x) \/ x = DB!Idle, x.op \in {"none", "expire"},
             call' = [call EXCEPT ![Reconciler] = x]
      PROVE  ElsewhereStep /\ call'[Reconciler] = x
  BY <1>a, <1>b, <1>c DEF ElsewhereStep, QuietTables, CallStep, dbVars
<1>1. CASE ExpireRow
  <2>1. PICK r \in worker.todo : /\ worker.pc = "expire" /\ Take(r, "expiring")
                                 /\ DB!Submit(Reconciler, "expire", r, None)
    BY <1>1 DEF ExpireRow
  <2> DEFINE x == [op |-> "expire", pc |-> "sweep", rid |-> r, payload |-> None, reply |-> "none"]
  <2>2. r \in ReservationIds /\ r # None
    BY <1>a, RowsKnown DEF Passes
  <2>3. x \in DBP!Call
    <3>1. x \in DBP!CallOf("expire", {"sweep", "read", "write", "done"}, ReservationIds, {None})
      BY <2>2 DEF DBP!CallOf
    <3> QED  BY <3>1, DBP!CallIntro, DBAssumptions
  <2>4. Fresh(x) /\ x.op = "expire" /\ x.rid = r /\ x.pc = "sweep"
    BY <2>3 DEF Fresh
  <2>5. call' = [call EXCEPT ![Reconciler] = x]
    BY <2>1 DEF DB!Submit
  <2> HIDE DEF x
  <2>6. ElsewhereStep /\ call'[Reconciler] = x
    BY <1>c, <2>4, <2>5
  <2>7. /\ worker' \in Passes /\ worker'.pc = "expiring" /\ worker'.row = r
        /\ worker'.todo = worker.todo \ {r} /\ worker'.expired = worker.expired
    BY <1>a, <2>1, PassSteps
  <2>8. Sane(worker')
    <3>1. Listed(worker') \subseteq Listed(worker)
      BY <2>7 DEF Listed
    <3> QED  BY <1>a, <2>1, <2>2, <2>7, <3>1 DEF Sane
  <2>9. ExpiryInv'
    BY <2>4, <2>6, <2>7 DEF ExpiryInv
  <2> QED  BY <1>a, <1>b, <2>6, <2>7, <2>8, <2>9 DEF WorkerDone, WorkerStep, RedisStep
<1>2. CASE RowExpired
  <2> DEFINE reply == call[Reconciler].reply
  <2>1. /\ worker.pc = "expiring" /\ call[Reconciler].pc = "done"
        /\ call' = [call EXCEPT ![Reconciler] = DB!Idle]
        /\ worker' = [worker EXCEPT
             !.pc = IF reply \in {"ok", "conflict"} THEN "expire" ELSE "dead",
             !.row = None,
             !.expired = IF reply = "ok" THEN @ \cup {worker.row} ELSE @]
    BY <1>2 DEF RowExpired, DB!Collect
  <2>2. ElsewhereStep /\ call'[Reconciler] = DB!Idle
    BY <1>c, <2>1 DEF DB!Idle
  <2>3. worker.row \in Listed(worker) /\ worker.row \in ReservationIds
    BY <1>a, <2>1 DEF Sane, Listed, Passes
  <2>4. /\ worker' \in Passes /\ worker'.row = None /\ worker'.todo = worker.todo
        /\ worker'.expired \subseteq worker.expired \cup {worker.row}
        /\ worker'.pc \in {"expire", "dead"}
        /\ worker'.pc = "dead" => reply \notin {"ok", "conflict"}
    BY <1>a, <2>1, <2>3 DEF Passes
  <2>5. Sane(worker')
    <3>1. Listed(worker') \subseteq Listed(worker)
      BY <2>4 DEF Listed
    <3> QED  BY <1>a, <2>1, <2>3, <2>4, <3>1 DEF Sane
  <2>6. worker'.pc = "dead" => "db" \in FaultKinds
    BY <2>1, <2>4 DEF ExpiryInv
  <2>7. ExpiryInv'
    BY <2>2 DEF ExpiryInv, DB!Idle
  <2> QED  BY <1>a, <1>b, <2>2, <2>4, <2>5, <2>6, <2>7 DEF WorkerDone, WorkerStep, RedisStep
<1> QED  BY <1>1, <1>2

(* All of the reconciler. *)
LEMMA ReconcilerActions ==
  ASSUME DBInv, ControlInv, WorkerInv, ExpiryInv, Reconcile
  PROVE  WorkerDone
BY Listings, SeatChecks, Expiries DEF Reconcile

-----------------------------------------------------------------------------
(* The DB service. *)

(* Threads wait for the answers to the requests they sent. *)
LEMMA ServeKeepsControl ==
  ASSUME DBInv, ControlInv, CallsInv, NEW c \in Callers, Serve(c)
  PROVE  ControlInv'
<1>a. TableStep /\ ServeStep(c) /\ UNCHANGED <<thread, worker>>
  BY ServeEffect DEF ServeStep, Serve
<1>1. faults' \in 0..MaxFaults
  BY BoundAssumption DEF Serve, Fault, ControlInv
<1>2. ASSUME NEW t \in Threads
      PROVE  Fit(thread[t], call'[t]) /\ (thread[t].pc = "finalize" => Paid(thread[t].seat, thread[t].user)')
  <2>1. Threaded(t) /\ t \in Callers
    BY DEF ControlInv, Callers
  <2>2. \/ call'[t] = call[t]
        \/ /\ call[t].pc # "idle" /\ call'[t].pc # "idle"
           /\ call'[t].op = call[t].op /\ call'[t].rid = call[t].rid
    BY <1>a, <2>1 DEF ServeStep, SameRequest
  <2>3. Fit(thread[t], call'[t])
    BY <2>1, <2>2 DEF Threaded, Fit
  <2>4. ASSUME thread[t].pc = "finalize" PROVE Paid(thread[t].seat, thread[t].user)'
    <3>1. Paid(thread[t].seat, thread[t].user)
      BY <2>1, <2>4 DEF Threaded
    <3> QED  BY <1>a, <3>1, TableStepKeeps DEF Paid, PaidRow, SeatOf, UserOf
  <2> QED  BY <2>3, <2>4
<1>3. \A t \in Threads : Threaded(t)'
  BY <1>a, <1>2 DEF Threaded
<1> QED  BY <1>a, <1>1, <1>3 DEF ControlInv

(* A confirm that is answered "ok" is paid for. *)
LEMMA ServeKeepsCalls ==
  ASSUME DBInv, CallsInv, NEW c \in Callers, Serve(c)
  PROVE  CallsInv'
<1>a. TableStep /\ ServeStep(c) /\ DBInv'
  BY ServeEffect DEF ServeStep
<1> SUFFICES ASSUME NEW d \in Callers
             PROVE  /\ call'[d].op = "cancel" => call'[d].payload = None
                    /\ (call'[d].op = "confirm" /\ call'[d].pc = "done" /\ call'[d].reply = "ok")
                         => /\ reservations'[call'[d].rid] # None
                            /\ payments'[call'[d].rid] # None
                            /\ payments'[call'[d].rid].status = "SUCCEEDED"
  BY DEF CallsInv, PaidRow
<1>b. /\ call[d].op = "cancel" => call[d].payload = None
      /\ call[d].op = "confirm" => call[d].rid \in ReservationIds
  BY CallTypes, DBP!CallFields, DBAssumptions DEF CallsInv
<1>1. CASE d # c
  <2>1. call'[d] = call[d]
    BY <1>1, <1>a DEF ServeStep
  <2>2. (call[d].op = "confirm" /\ call[d].pc = "done" /\ call[d].reply = "ok") => PaidRow(call[d].rid)
    BY DEF CallsInv
  <2> QED  BY <1>a, <1>b, <2>1, <2>2 DEF TableStep, PaidRow
<1>2. CASE d = c
  <2>1. SameRequest(call'[d], call[d])
    BY <1>2, <1>a DEF ServeStep
  <2>2. ASSUME call'[d].op = "confirm", call'[d].pc = "done", call'[d].reply = "ok"
        PROVE  /\ reservations'[call[d].rid] # None
               /\ payments'[call[d].rid] # None
               /\ payments'[call[d].rid].status = "SUCCEEDED"
    <3>1. /\ reservations'[call[d].rid] # None
          /\ reservations'[call[d].rid].status = "CONFIRMED"
      BY <1>2, <1>a, <2>1, <2>2 DEF ServeStep, SameRequest, DB!HasStatus
    <3>2. call[d].rid \in ReservationIds
      BY <1>b, <2>1, <2>2 DEF SameRequest
    <3> QED  BY <1>a, <3>1, <3>2 DEF DBInv, DBP!ConfirmedIsPaid, DBP!HasStatus
  <2> QED  BY <1>b, <2>1, <2>2 DEF SameRequest
<1> QED  BY <1>1, <1>2

(* A new row has the seat and the user of the thread that asked for it. *)
LEMMA ServeKeepsIds ==
  ASSUME DBInv, ControlInv, CallsInv, IdInv, NEW c \in Callers, Serve(c)
  PROVE  IdInv'
<1>a. TableStep /\ ServeStep(c) /\ thread' = thread
  BY ServeEffect DEF ServeStep, Serve
<1>b. \A d \in Callers : SameRequest(call'[d], call[d])
  BY <1>a DEF ServeStep, SameRequest
<1>1. OwnedInv'
  <2>1. ASSUME NEW r \in ReservationIds, reservations'[r] # None PROVE Owned(r)
    BY <1>a, <2>1 DEF ServeStep, IdInv, OwnedInv
  <2>2. ASSUME NEW d \in Callers, call'[d].op = "create" PROVE Owned(call'[d].rid)
    BY <1>b, <2>2 DEF IdInv, OwnedInv, SameRequest
  <2> QED  BY <1>a, <2>1, <2>2 DEF OwnedInv, Owned
<1>2. ASSUME NEW t \in Threads PROVE Named(t)'
  <2>1. Named(t) /\ thread'[t] = thread[t] /\ thread[t].rid \in ReservationIds \cup {None}
    BY <1>a DEF IdInv, ControlInv, Requests
  <2>2. ASSUME thread[t].rid # None, reservations'[thread[t].rid] # None
        PROVE  /\ reservations'[thread[t].rid].seat = thread[t].seat
               /\ reservations'[thread[t].rid].user = thread[t].user
    <3>1. CASE reservations[thread[t].rid] # None
      BY <1>a, <2>1, <2>2, <3>1 DEF Named, TableStep, DBP!RowKept, SeatOf, UserOf
    <3>2. CASE reservations[thread[t].rid] = None
      BY <1>a, <2>1, <2>2, <3>2 DEF Named, ServeStep
    <3> QED  BY <3>1, <3>2
  <2>3. ASSUME NEW d \in Callers, thread[t].rid # None, call'[d].op = "create",
               call'[d].rid = thread[t].rid
        PROVE  call'[d].payload.seat = thread[t].seat /\ call'[d].payload.user = thread[t].user
    BY <1>b, <2>1, <2>3 DEF Named, SameRequest
  <2> QED  BY <2>1, <2>2, <2>3 DEF Named, SeatOf, UserOf
<1> QED  BY <1>1, <1>2 DEF IdInv

(* The expire request of the reconciler is answered by its read: "ok" or   *)
(* a conflict, or an error if a transaction fails.                         *)
LEMMA ServeKeepsExpiry ==
  ASSUME DBInv, ControlInv, CallsInv, WorkerInv, ExpiryInv, NEW c \in Callers, Serve(c)
  PROVE  ExpiryInv'
<1>a. TableStep /\ ServeStep(c) /\ worker' = worker
  BY ServeEffect DEF ServeStep, Serve
<1>1. CASE c # Reconciler
  <2>1. call'[Reconciler] = call[Reconciler]
    BY <1>1, <1>a DEF ServeStep, Callers
  <2> QED  BY <1>a, <2>1, ExpiryStays
<1>2. CASE c = Reconciler
  <2> DEFINE x == call[c]
  <2>1. /\ worker.pc = "expiring" /\ x.op = "expire" /\ x.rid = worker.row
        /\ x.pc \in {"sweep", "read"}
        /\ x.pc = "read" => ~DB!HasStatus(x.rid, "HELD")
    BY <1>2, <1>a DEF ExpiryInv, ServeStep
  <2>2. call'[c].op = x.op /\ call'[c].rid = x.rid
    BY <1>a DEF ServeStep, SameRequest
  <2>3. Lapsed(x.rid) /\ reservations[x.rid] # None
    BY <2>1 DEF WorkerInv, Sane, Listed
  <2>4. CASE DB!Transaction(c)
    <3>1. DBP!Transaction(c) /\ DBP!IInv
      BY <2>4, SameSteps DEF DBInv
    <3>2. x.pc = "sweep" => call'[c].pc = "read" /\ reservations'[x.rid].status # "HELD"
      BY <2>1, <2>3, <3>1, DBP!ExpireAnswer, DBAssumptions, SameStates DEF Lapsed
    <3>3. x.pc = "read" => call'[c].pc = "done" /\ call'[c].reply \in {"ok", "conflict"}
      BY <2>1, <2>3, <3>1, DBP!ExpireAnswer, DBAssumptions, SameStates
    <3> QED  BY <1>2, <1>a, <2>1, <2>2, <3>2, <3>3 DEF ExpiryInv, DB!HasStatus
  <2>5. CASE DB!TransactionFails(c) /\ Fault("db")
    <3>1. "db" \in FaultKinds
      BY <2>5 DEF Fault
    <3>2. call'[c].pc = "done"
      <4>1. call \in [Callers -> DBP!Call] /\ DB!Answer(c, "error")
        BY <2>5, CallTypes DEF DB!TransactionFails
      <4> QED  BY <4>1 DEF DB!Answer
    <3> QED  BY <1>2, <1>a, <2>1, <2>2, <3>1, <3>2 DEF ExpiryInv
  <2> QED  BY <2>4, <2>5 DEF Serve
<1> QED  BY <1>1, <1>2

(* A sale is undone only by a cancel or an expire of its own reservation   *)
(* that found it HELD before, which makes it one that was raced.           *)
LEMMA ServeKeepsSales ==
  ASSUME DBInv, ControlInv, CallsInv, ExpiryInv, SalesInv, NEW c \in Callers, Serve(c)
  PROVE  SalesInv'
<1>a. ServeStep(c) /\ thread' = thread /\ raced' = raced \cup SoldInRace
  BY ServeEffect DEF Serve
<1>b. raced \subseteq raced' /\ raced' \subseteq ReservationIds
  BY <1>a DEF SoldInRace, SalesInv, RaceInv
<1>c. \A d \in Callers : call'[d].op = call[d].op /\ call'[d].rid = call[d].rid
  BY <1>a DEF ServeStep, SameRequest
<1>d. LateCalls \cup Threads \subseteq Callers
  BY DEF Callers
<1>1. ASSUME NEW d \in Threads \cup LateCalls, NEW r \in ReservationIds,
             Undoing(d, r)', DB!HasStatus(r, "CONFIRMED")'
      PROVE  r \in raced'
  <2>1. d # c
    BY <1>1, <1>a, <1>c DEF ServeStep, Undoing
  <2>2. Undoing(d, r)
    BY <1>1, <1>a, <1>d, <2>1 DEF ServeStep, Undoing
  <2>3. CASE DB!HasStatus(r, "CONFIRMED")
    BY <1>1, <1>b, <2>2, <2>3 DEF SalesInv, RaceInv
  <2>4. CASE ~DB!HasStatus(r, "CONFIRMED")
    BY <1>1, <1>a, <2>2, <2>4 DEF SoldInRace, Undoing
  <2> QED  BY <2>3, <2>4
<1>2. ASSUME NEW r \in ReservationIds, Undoing(c, r), DB!HasStatus(r, "CONFIRMED")
      PROVE  r \in raced
  <2>1. c # Reconciler
    BY <1>2 DEF ExpiryInv, Undoing
  <2> QED  BY <1>2, <2>1 DEF Callers, SalesInv, RaceInv
<1>3. ASSUME NEW t \in Threads, Bought(t)'
      PROVE  \/ /\ reservations'[thread[t].rid] # None
                /\ reservations'[thread[t].rid].status = "CONFIRMED"
             \/ thread[t].rid \in raced
  <2>1. CASE Bought(t)
    <3>1. /\ thread[t].rid \in ReservationIds
          /\ DB!HasStatus(thread[t].rid, "CONFIRMED") \/ thread[t].rid \in raced
      BY <2>1, BoughtRow DEF SalesInv, SaleInv
    <3> QED  BY <1>a, <1>2, <3>1 DEF ServeStep, DB!HasStatus, Undoing
  <2>2. CASE ~Bought(t)
    <3>1. /\ thread[t].pc = "confirm" /\ call'[t].pc = "done" /\ call'[t].reply = "ok"
          /\ call'[t] # call[t]
      BY <1>3, <1>a, <2>2 DEF Bought, Sold
    <3>2. c = t
      BY <1>a, <1>d, <3>1 DEF ServeStep
    <3>3. call[t].op = "confirm" /\ call[t].rid = thread[t].rid /\ thread[t].rid = call[c].rid
      BY <1>a, <3>1, <3>2 DEF ControlInv, Threaded, Fit, OpAt, ServeStep
    <3>4. /\ reservations'[call'[c].rid] # None
          /\ reservations'[call'[c].rid].status = "CONFIRMED"
      BY <1>a, <3>1, <3>2, <3>3 DEF ServeStep, DB!HasStatus
    <3> QED  BY <1>c, <3>3, <3>4
  <2> QED  BY <2>1, <2>2
<1> QED  BY <1>a, <1>b, <1>1, <1>3 DEF SalesInv, RaceInv, SaleInv, DB!HasStatus

-----------------------------------------------------------------------------
(* Every step preserves the invariant. *)

(* Steps of threads. *)
LEMMA ThreadPreserves ==
  ASSUME IInv, NEW t \in Threads, ThreadAction(t)
  PROVE  IInv'
<1>a. /\ DBInv /\ RedisInv /\ ControlInv /\ CallsInv /\ IdInv /\ WorkerInv /\ ExpiryInv
      /\ ReconcilerLives /\ SalesInv
  BY DEF IInv
<1>1. ThreadStep(t) /\ RedisStep /\ faults' \in 0..MaxFaults
  BY <1>a, ThreadActions
<1>2. DBInv' /\ TableStep
  BY <1>a, <1>1, ThreadQuiet
<1>3. RedisInv'
  BY <1>a, <1>1, <1>2, RedisKeeps
<1>4. worker' = worker
  BY <1>1 DEF ThreadStep
<1>5. call'[Reconciler] = call[Reconciler]
  <2>1. Reconciler \in Callers \ {t} /\ Reconciler \notin LateCalls
    BY CallersAssumption DEF Callers
  <2> QED  BY <1>a, <1>1, <2>1, ThreadCases DEF StartsAs, SendsAs, MovesOn
<1>6. ControlInv'
  BY <1>a, <1>1, <1>4, ThreadKeepsControl DEF ControlInv
<1>7. CallsInv' /\ IdInv'
  BY <1>a, <1>1, ThreadKeepsCalls, ThreadKeepsIds
<1>8. WorkerInv' /\ ExpiryInv' /\ ReconcilerLives'
  BY <1>a, <1>2, <1>4, <1>5, WorkerStays, ExpiryStays DEF ReconcilerLives
<1>9. SalesInv'
  BY <1>a, <1>1, ThreadKeepsSales
<1> QED  BY <1>2, <1>3, <1>6, <1>7, <1>8, <1>9 DEF IInv

(* Transactions of the DB service. *)
LEMMA ServePreserves ==
  ASSUME IInv, NEW c \in Callers, Serve(c)
  PROVE  IInv'
<1>a. /\ DBInv /\ RedisInv /\ ControlInv /\ CallsInv /\ IdInv /\ WorkerInv /\ ExpiryInv
      /\ ReconcilerLives /\ SalesInv
  BY DEF IInv
<1>1. DBInv' /\ TableStep
  BY <1>a, ServeEffect DEF ServeStep
<1>2. RedisStep /\ worker' = worker
  BY DEF Serve, RedisStep
<1>3. RedisInv' /\ WorkerInv' /\ ReconcilerLives'
  BY <1>a, <1>1, <1>2, RedisKeeps, WorkerStays DEF ReconcilerLives
<1>4. ControlInv' /\ CallsInv' /\ IdInv' /\ ExpiryInv'
  BY <1>a, ServeKeepsControl, ServeKeepsCalls, ServeKeepsIds, ServeKeepsExpiry
<1>5. SalesInv'
  BY <1>a, ServeKeepsSales
<1> QED  BY <1>1, <1>3, <1>4, <1>5 DEF IInv

(* Steps of the reconciler. *)
LEMMA ReconcilePreserves ==
  ASSUME IInv, Reconcile
  PROVE  IInv'
<1>a. /\ DBInv /\ RedisInv /\ ControlInv /\ CallsInv /\ IdInv /\ WorkerInv /\ ExpiryInv
      /\ ReconcilerLives /\ SalesInv
  BY DEF IInv
<1>1. ElsewhereStep /\ RedisStep /\ faults' \in 0..MaxFaults /\ WorkerStep /\ ExpiryInv'
  BY <1>a, ReconcilerActions DEF WorkerDone
<1>2. DBInv' /\ TableStep
  BY <1>a, <1>1, ElsewhereQuiet
<1>3. /\ thread' \in [Threads -> Requests] /\ \A t \in Threads : Threaded(t)'
      /\ CallsInv' /\ IdInv' /\ SalesInv'
  BY <1>a, <1>1, ElsewhereKeeps
<1>4. RedisInv'
  BY <1>a, <1>1, <1>2, RedisKeeps
<1>5. ControlInv'
  BY <1>1, <1>3 DEF ControlInv, WorkerStep
<1>6. WorkerInv'
  BY <1>1 DEF WorkerStep, WorkerInv, Sane, Lapsed, PaidRow, Listed, DB!HasStatus, DB!Stale, dbVars
<1>7. ReconcilerLives'
  BY <1>a, <1>1 DEF WorkerStep, ReconcilerLives
<1> QED  BY <1>1, <1>2, <1>3, <1>4, <1>5, <1>6, <1>7 DEF IInv

(* Steps of Redis, of time, and the sweeps of listings. *)
LEMMA OthersPreserve ==
  ASSUME IInv,
         \/ SweepByListing \/ RedisRestarts \/ Tick \/ Finished \/ UNCHANGED vars
         \/ \E c \in wire : Deliver(c)
         \/ \E link \in Links : Answer(link)
  PROVE  IInv'
<1>a. /\ DBInv /\ RedisInv /\ ControlInv /\ CallsInv /\ IdInv /\ WorkerInv /\ ExpiryInv
      /\ ReconcilerLives /\ SalesInv
  BY DEF IInv
<1>1. call' = call /\ thread' = thread /\ worker' = worker /\ QuietTables
  BY DEF SweepByListing, RedisRestarts, Tick, DB!Tick, Finished, vars, Deliver, Answer, QuietTables,
         dbVars
<1>2. faults' \in 0..MaxFaults
  <2>1. faults' = faults \/ Fault("crash")
    BY DEF SweepByListing, RedisRestarts, Tick, Finished, vars, Deliver, Answer
  <2> QED  BY <1>a, <2>1, BoundAssumption DEF ControlInv, Fault
<1>3. RedisStep
  BY DEF SweepByListing, RedisRestarts, Tick, Finished, vars, Deliver, Answer, RedisStep
<1>4. ElsewhereStep
  BY <1>a, <1>1, NotWaiting DEF ElsewhereStep, CallStep
<1>5. DBInv' /\ TableStep
  BY <1>a, <1>4, ElsewhereQuiet
<1>6. /\ thread' \in [Threads -> Requests] /\ \A t \in Threads : Threaded(t)'
      /\ CallsInv' /\ IdInv' /\ SalesInv'
  BY <1>a, <1>4, ElsewhereKeeps
<1>7. RedisInv'
  BY <1>a, <1>3, <1>5, RedisKeeps
<1>8. ControlInv'
  BY <1>a, <1>1, <1>2, <1>6 DEF ControlInv
<1>9. WorkerInv' /\ ExpiryInv' /\ ReconcilerLives'
  BY <1>a, <1>1, <1>5, WorkerStays, ExpiryStays DEF ReconcilerLives
<1> QED  BY <1>5, <1>6, <1>7, <1>8, <1>9 DEF IInv

(* The program starts with the invariant. *)
LEMMA InitInv ==
  ASSUME Init
  PROVE  IInv
<1>a. DBP!Init
  BY DEF Init, DB!Init, DBP!Init, DB!Idle, DBP!Idle
<1>b. /\ call = [c \in Callers |-> DB!Idle] /\ thread = [t \in Threads |-> NoRequest]
      /\ reservations = [r \in ReservationIds |-> None] /\ worker = Asleep /\ faults = 0
      /\ raced = {}
  BY DEF Init, DB!Init
<1>1. DBInv
  <2>1. DBP!IInv
    BY <1>a, DBP!InitInv, DBAssumptions
  <2> QED  BY <1>b, <2>1 DEF DBInv, DBP!OneConfirmedPerSeat, DBP!ConfirmedIsPaid, DBP!HasStatus
<1>2. RedisInv
  BY DEF Init, RedisInv, ConfirmedAfterSale, Owing, Redis!Slot, Redis!ConfirmedBy, Redis!HasSeat
<1>3. ControlInv
  <2>1. NoRequest \in Requests
    BY DEF NoRequest, Requests, Attempts, Failures
  <2>2. Asleep \in Passes
    BY DEF Asleep, Passes
  <2>3. Fit(NoRequest, DB!Idle)
    BY DEF Fit, NoRequest, DB!Idle, Confirming, Holding
  <2>4. \A t \in Threads : Threaded(t)
    BY <1>b, <2>3 DEF Threaded, Callers, NoRequest
  <2> QED  BY <1>b, <2>1, <2>2, <2>4, BoundAssumption DEF ControlInv
<1>4. CallsInv
  BY <1>b DEF CallsInv, DB!Idle
<1>5. IdInv
  BY <1>b DEF IdInv, OwnedInv, Named, NoRequest, DB!Idle
<1>6. WorkerInv /\ ExpiryInv /\ ReconcilerLives
  BY <1>b DEF WorkerInv, Sane, Listed, Asleep, ExpiryInv, ReconcilerLives, DB!Idle, Callers
<1>7. SalesInv
  BY <1>b DEF SalesInv, RaceInv, Undoing, SaleInv, Bought, Sold, NoRequest, DB!Idle, Callers
<1> QED  BY <1>1, <1>2, <1>3, <1>4, <1>5, <1>6, <1>7 DEF IInv

(* The invariant holds whatever the threads, the reconciler, the DB        *)
(* service and Redis do, and whatever fails.                               *)
LEMMA Invariance == Spec => []IInv
<1>1. Init => IInv
  BY InitInv
<1>2. IInv /\ [Next]_vars => IInv'
  <2> SUFFICES ASSUME IInv, [Next]_vars PROVE IInv'
    OBVIOUS
  <2> QED
    BY ThreadPreserves, ServePreserves, ReconcilePreserves, OthersPreserve
       DEF Next, ThreadAction
<1> QED  BY <1>1, <1>2, PTL DEF Spec

-----------------------------------------------------------------------------
(* Theorems. *)

(* Type correctness: threads and reconciler follow their programs, Redis   *)
(* holds well-formed seats and a connection owes a well-formed reply or a  *)
(* command for a seat, through all failures.                               *)
THEOREM TypeCorrect == Spec => []TypeOK
<1>1. IInv => TypeOK
  <2> SUFFICES ASSUME IInv PROVE TypeOK
    OBVIOUS
  <2>1. DB!TypeOK
    BY SameStates DEF IInv, DBInv, DBP!IInv
  <2>2. ASSUME NEW link \in Links
        PROVE  \/ InStep(link)
               \/ Behind(link) /\ unread[link].reply.items \in {3, 4}
               \/ unread[link].command.seat \in Seats
    BY DEF IInv, RedisInv, Owing, InStep, Behind, Known, Writes, Reads
  <2>3. wire \subseteq Writes
    BY DEF IInv, RedisInv
  <2> QED  BY <2>1, <2>2, <2>3 DEF IInv, RedisInv, ControlInv, SalesInv, RaceInv, TypeOK
<1> QED  BY <1>1, Invariance, PTL

(* Redis never says CONFIRMED for a user whose sale the DB has not saved:  *)
(* not after a retry, not by a command that arrives late, not by a repair. *)
THEOREM ConfirmedOnlyAfterSale == Spec => []ConfirmedAfterSale
<1>1. IInv => ConfirmedAfterSale
  BY DEF IInv, RedisInv
<1> QED  BY <1>1, Invariance, PTL

(* Nothing but a failing DB transaction ends the reconciler: the rows it   *)
(* expires exist and their time is over, so the request to expire a row    *)
(* is answered "ok" or with the conflict that the reconciler skips.        *)
THEOREM ReconcilerSurvives == Spec => []ReconcilerLives
<1>1. IInv => ReconcilerLives
  BY DEF IInv
<1> QED  BY <1>1, Invariance, PTL

(* A reservation that a thread reported as sold is CONFIRMED in the DB, if *)
(* it was not raced.                                                       *)
LEMMA SoldIsConfirmed ==
  ASSUME IInv, NEW t \in Threads, Sold(t)
  PROVE  /\ thread[t].rid \in ReservationIds
         /\ DB!HasStatus(thread[t].rid, "CONFIRMED") \/ thread[t].rid \in raced
<1>1. Bought(t)
  BY DEF Bought
<1>2. thread[t].rid \in ReservationIds
  BY <1>1, BoughtRow DEF IInv
<1>3. SaleInv(t)
  BY DEF IInv, SalesInv
<1> QED  BY <1>1, <1>2, <1>3 DEF SaleInv

(* What a user was told is bought stays bought in the DB, whatever late    *)
(* requests, sweeps, later cancels and passes of the reconciler do,        *)
(* whether one request held and bought the seat or one held it and another *)
(* confirmed it.  Only a sale is excepted whose reservation a cancel or an *)
(* expire had found HELD before and wrote after it.                        *)
THEOREM SalesStay == Spec => []SoldStaysSold
<1>1. IInv => SoldStaysSold
  BY SoldIsConfirmed DEF SoldStaysSold
<1> QED  BY <1>1, Invariance, PTL

(* Two users are never told that they bought the same seat, with the same  *)
(* exception: the DB keeps one CONFIRMED row per seat, both sales have     *)
(* one, and a row has the user of the threads that work on it.             *)
THEOREM OneBuyer == Spec => []OneBuyerPerSeat
<1>1. IInv => OneBuyerPerSeat
  <2> SUFFICES ASSUME IInv, NEW t \in Threads, NEW v \in Threads,
                      Sold(t), thread[t].rid \notin raced,
                      Sold(v), thread[v].rid \notin raced,
                      thread[t].seat = thread[v].seat
               PROVE  thread[t].user = thread[v].user
    BY DEF OneBuyerPerSeat
  <2> DEFINE q == thread[t].rid
             r == thread[v].rid
  <2>1. /\ q \in ReservationIds /\ DB!HasStatus(q, "CONFIRMED")
        /\ r \in ReservationIds /\ DB!HasStatus(r, "CONFIRMED")
    BY SoldIsConfirmed
  <2>2. q # None /\ r # None /\ reservations[q] # None /\ reservations[r] # None
    BY <2>1, CallTypes DEF IInv, DB!HasStatus
  <2>3. /\ reservations[q].seat = thread[t].seat /\ reservations[q].user = thread[t].user
        /\ reservations[r].seat = thread[v].seat /\ reservations[r].user = thread[v].user
    BY <2>2 DEF IInv, IdInv, Named, SeatOf, UserOf
  <2>4. q = r
    BY <2>1, <2>3, SameStates DEF IInv, DBInv, DBP!OneConfirmedPerSeat
  <2> QED  BY <2>3, <2>4
<1> QED  BY <1>1, Invariance, PTL
=============================================================================
