# Mini Redis ticketing: a TLA+ verification project

The repository is a ticketing demo: a Redis-like server written from scratch
keeps short-lived seat holds and waiting queues, a DB service (FastAPI over
SQLite) keeps reservations and payments, an app server orchestrates both for a
web frontend, and a reconciler repairs Redis from the DB. This directory models
the parts that carry the protocol, checks them with TLC and proves the central
facts with TLAPS. `PROJECT.json` lists components, runs, mutants, the map from
definitions to source lines, findings, hazards and theorems.

Run `tlc -config X.cfg M` for a run and `tlapm M.tla` for a proof module, both in
this directory.

## 1. Inventory

| Component | State | Operations | Hard because | Correct when |
|---|---|---|---|---|
| Storage engine (`storage/engine.py`, `ttl.py`), commands (`commands/`) | one dict of entries with optional deadlines; seats and queues are serialised into it | SET GET DEL EXPIRE TTL, seat and queue commands, snapshot, load | lazy expiration at many readers, one key space for all types, deadline boundaries | expiry is unobservable, holds and sales are protected, queues are fair |
| TCP server, executor, snapshot thread (`server/`, `storage/sqlite_store.py`) | connection threads, FIFO queue, worker, shutdown event, snapshot file | accept, recv, execute, save, shutdown, restart | shutdown races every thread; saves of two threads; crash | commands run once, nobody hangs, acknowledged writes survive a clean shutdown |
| DB service (`ticketing_api/`) | `reservations`, `payments` with a partial unique index | create held, confirm, cancel, expire, sweep, listings | every request is several transactions: check, then act | a seat is sold once, a sale is paid for, transitions follow the docs |
| App server (`app_server/service.py`, `app.py`) | none of its own; steps of a request | hold, confirm, cancel, purchase | each step is a remote call that may fail, time out, or be done twice | Redis never runs ahead of the DB; one buyer per seat |
| Clients (`db_client.py`, `redis_client.py`) | one Redis connection and its lock, shared by all threads | request with timeout; resend on socket errors | late and repeated execution; a reply that arrives after its call gave up | a call returns its own reply; a command runs twice at most |
| Reconciler (`app_server/reconciler.py`, `scripts/reconciler.py`) | the pass it is in | expire stale holds, repair sold seats | runs beside all requests, limited batches, exceptions end it | every sale reaches Redis in the end |
| RESP (`protocol/`, the reply parser of `redis_client.py`) | the buffers of server and client | parse, encode | frames split over reads or joined in one, lengths in bytes, CR LF in payloads | the server executes what was sent, encoder and parser agree, nobody waits for bytes that never come |
| Frontend, load generator, demo data, orchestration log | views, counters | send requests, show state | dropped answers | not modelled |

Interactions: frontend -> app server (HTTP) -> Redis commands (RESP over one
locked socket) and DB requests (HTTP); reconciler -> Redis commands and the DB
service in its own process (no HTTP, no timeout). The DB is the source of truth;
Redis holds what may be lost.

## 2. Modules

| Module | Models | State | Composes |
|---|---|---|---|
| `StoreCommands` | what each command does to one entry: `XOutcome(entry, now, ...)` is the new entry and the reply | none (operators) | |
| `StorageEngine` | the dict, lazy purge, snapshot and load; one action per command | `store`, `now`, `saved`, `reply` | extends StoreCommands |
| `EagerStore` | abstract store: an entry disappears the moment its deadline passes | `live`, `now`, `saved`, `reply` | extends StoreCommands; implemented by StorageEngine |
| `TicketingDB` | the DB service, one step per transaction of a request | `reservations`, `payments`, `call`, `now` | |
| `Ticketing` | app server threads, reconciler, failing calls | DB state, `redis`, `wire`, `unread`, `thread`, `worker`, `faults` | instances of TicketingDB and StoreCommands |
| `MiniRedisServer` | threads of the Redis process around the engine | `main`, `saver`, `conn`, `queue`, `worker`, `store`, `disk`, ... | |
| `RESP` | the wire format: both parsers, both encoders | none (operators) | |
| `RedisConnection` | `RedisRESPClient.execute` of several threads, TCP, and the byte side of `handle_client` | `thread`, `holder`, `current`, `conns`, ... | extends RESP |
| `MC*` | symmetry sets, commands and signed constants for TLC | | extend the module they check |
| `StorageEngineProofs` | types, refinement, queues, holds, sales and EXPIRE of the engine | | extends StorageEngine and TLAPS |
| `TicketingDBProofs` | theorems on the DB service, lemmas for its callers | | extends TicketingDB and TLAPS |
| `MiniRedisServerProofs` | theorems on the Redis process | | extends MiniRedisServer and TLAPS |
| `RESPProofs` | what the parsers make of every byte string: they are stable and read back what was encoded | | extends RESP and TLAPS |
| `RedisConnectionProofs`, `RedisConnectionSafetyProofs` | the byte streams and the lock; replies, retries, failures | | extend RedisConnection and RESPProofs |
| `TicketingProofs`, `TicketingSafetyProofs` | the steps of threads and Redis; the composed system | | extend Ticketing and TLAPS, instance of TicketingDBProofs |

Operators named `...Swallows`, `...NoIndex`, `...AnyStatus`, `...Unbounded` and so
on, right before the definition they resemble, are deliberately wrong variants:
`PROJECT.json` pairs each property with one, and TLC must refute the property
when the variant takes the place of the real definition.

### How state and steps correspond to the code

* **StorageEngine.** `store[k]` is the `Entry` under a key or `NoEntry`.
  `Fresh(e, t)` is `_purge_if_expired`; `Purged` puts the purge before every
  reader that has it and nowhere else, so the one reader without it
  (`_load_queue`) is visible. Seat and queue values are records and sequences
  instead of JSON text; reading a value of the wrong type is the error the
  deserialiser raises. The engine's lock and the single worker make a command
  one step.
* **TicketingDB.** A request goes through `sweep` (expire all stale rows), `read`
  (look up and check), `check` (create only) and `write`; each is one SQLite transaction,
  and transactions of other requests run between them. A `write` obeys the
  constraints of the schema (unique confirmed seat, primary keys, upsert of the
  payment) and fails as a whole; `TransactionFails` is a locked database.
* **Ticketing.** `thread[t].pc` is the next call of the request. `Send`/`Receive`
  are a DB request and its answer; `Answered` also lets the caller give up, in
  which case the request stays with the service as one of `LateCalls`. Listing the seats only
  sweeps stale rows, so `View` is request, sweep and answer in one step, and
  `SweepByListing` is the listing of anybody else at any time. `Ask` is
  `RedisRESPClient.execute` with its outcomes: `Served`, `Retried` (answered at the second
  attempt, a copy of the first may be on the `wire`), `Lost` (both attempts failed;
  a copy may still arrive), or `Late` (the second attempt timed out and its connection
  stays in use). After `Late` the connection is behind (`unread`): the next call of that
  process reads the reply that was left (`Misread`), or both replies together, which
  it rejects (`CaughtUp`). Replies are whole here; `RedisConnection`
  shows why that is enough. `Raise` sends a purchase that fails
  after its hold to `undo`. `worker` is the reconciler: list, expire row by row, release,
  list, repair row by row; `Asleep` is the end of one pass and the start of the
  next. An exception it does not catch makes it `dead`.
  `raced` is a history variable (section 4).
  Redis time and DB time are the same clock. Rows of a listing are processed in any
  order. Confirm and cancel requests name the seat and user of their reservation,
  as the frontend sends them.
* **MiniRedisServer.** Commands are writes of a key of their own, so `store` and
  `disk` are sequences of writes and "which state is in the file" becomes "which
  prefix". `execute()` is two steps (test the flag, put) because `stop()` may run in between;
  `stop()` is two as well. `join(timeout=...)` may always time out. Copying the
  store and saving it are two steps of the final flush (`Flush`, `FlushSave`) and of the snapshot
  thread, whose test of the shutdown event is one more (`SaverWakes`, `SaverTake`, `SaverSave`), so that a
  shutdown may begin anywhere between them; a save is one SQLite transaction. A partial RESP frame just waits for more bytes
  (`RedisConnection`), so only whole frames are received. A peer leaves while its thread is in
  `recv()` or about to answer, the only points at which the thread can tell.
  History: `overtaken` (the final save failed, or a periodic one landed after it), `late` (the writes
  executed after the final copy of the store), `first` (what a peer had sent before its connection opened), and
  `read` in a reply (what had been read when a malformed command was answered, hence dropped with it).
* **RESP, RedisConnection.** A byte is a symbol and a text a sequence of characters of the constant
  `Chars`, one of which takes two bytes. A parser returns a value and the next index, `Incomplete`,
  `Malformed`, or `Refused` (the ConflictError of an error reply, whose text must decode); `Then` is the
  sequence of two parsing steps, an exception passed on. `conns[c]` is a TCP connection:
  the bytes in flight each way, the buffer of its `handle_client` thread, and how it
  ended. `recv()` returns any prefix of what is in flight. `Enter`, `Send`, `Read`,
  `ReadEof`, `Broken` and `TimesOut` are the steps of `execute()`; `OnOSError` is its `except`
  clause. What the server answers is the constant `Answer`
  (the storage engine has its own model); a command it does not list is answered with an error (`AnswerTo`). `sent`, `executed`, `garbled` and `lagging` are history for the properties.

## 3. Runs

| Run | Question | Result |
|---|---|---|
| `engine_ticketing` | can any command take a live hold or a sale from its user, over deadlines and restarts? can anybody wait twice or overtake in a queue? | no |
| `engine_shared_keys` | with generic commands on seat keys: is laziness visible? do GT/LT hold for zero and negative seconds? | laziness is not visible; options hold |
| `engine_queue_expiry` | is an expired queue answered as missing? | **no**: `_load_queue` ignores the deadline |
| `db_concurrent` | can concurrent requests sell a seat twice or unpaid? | no |
| `db_transitions` | do rows only leave HELD, along the documented transitions, under concurrency? | **no**: cancel and expire overwrite a sale, confirm sells a row that is gone |
| `ticketing_purchase` | two hold, purchase, confirm or cancel requests, the reconciler, one lost DB answer or Redis failure: does Redis stay behind the DB, is there one buyer, does the sale stand, does the reconciler survive rows that others moved? | yes (buyer and sale: but for the check-then-write race of a cancel or expire, see 4) |
| `ticketing_repair` | up to three failures, failed DB transactions included: does every sale reach Redis? | yes, unless a DB error ended the reconciler |
| `ticketing_limit` | more sales than the reconciler's limit: does every sale reach Redis? | **no** |
| `ticketing_stale_reply` | one Redis call times out twice: does a HELD row still follow a hold in Redis? | **no**: the next call reads the reply that was left |
| `server_crashes` | pipelined, failing and malformed commands, racing and failing saves, crashes: is each command read run once and answered once, in order? is the file a state the store had? is an acknowledged write lost otherwise than by a late or failed save, or as a write that came after the final copy? does anybody wait for ever, does a shutdown end? | yes, but for those dropped behind a malformed one; it is; no; nobody; it ends |
| `server_stale_save` | periodic saves and a clean shutdown: are acknowledged writes saved? | **no**: an older save lands last |
| `redis_connection` | streams cut anywhere, timeouts, resets, retries, two threads: are the commands executed the ones sent? is a reply the call's own? how often does a command run? | they are; it is, unless an earlier call gave up on the connection (then what stands in the answers of one connection: at worst the whole reply to an earlier command, as no text in the run's answers reads like an array); twice at most |

The five negative answers are the findings in `PROJECT.json`, each with the
sentence of the documentation or the test it contradicts.

**Bounds and why they are enough.** Two actors meet in every race of this code, so
two clients or threads (three users where one may stand between two others in a queue),
two reservations of one seat (two seats where the limit
matters), and deadlines that pass before the clock reaches its bound of one or two ticks: a deadline can
lie ahead, be now, or have passed. `MaxFaults` is 1 for
two requests, and 3, enough to use up all attempts of
`_finalize_confirmed_seat`, for one purchase. In `ticketing_purchase` a sale is one purchase, or a
hold by one thread that another confirms, also a hold whose insert is served after its caller gave up. Two
threads are all TLC can explore there, so the run has no two sales of which one is a confirm (that takes a third
request, for the hold); the theorem `OneBuyer` covers any number. `server_crashes` has one
connection with three commands over two starts, because two exceed TLC's
reach with crashes and liveness (`server_stale_save` has two); connections meet only in
the executor's queue. In `redis_connection`, `MaxCuts` is 1: `recv()` stops short of the bytes in
flight once, at any byte, in either direction. Parsing starts over from the whole buffer
after each chunk, so a second cut adds no state of the parser; two calls and two faults are
enough for a retry that fails and a call after it. One payload holds CR LF and a character of two
bytes; raw streams end at a frame, inside one, or in bytes that are no frame. Symmetry (users,
clients, threads, payments; reservation ids only in `TicketingDB`, where they are
not ordered) is used for safety runs only.

**Deadlock** is checked everywhere. `Finished` steps mark the states in which the system has
really come to its end: all requests answered and no reconciler, or the server
down for good; `Quiet` those in which no call of `RedisConnection` is open and none is to come.

**Fairness.** `Ticketing!FairSpec`: the reconciler (`while True` with a sleep) and the
DB calls it makes in its own process go on, and Redis answers what is left on its connection. Nothing is assumed of the app server or
of users. `MiniRedisServer!FairSpec`: a thread that can run does (main thread, worker, connection
threads); nothing is assumed of peers, of the operator, or of the snapshot
timer. Failures are finitely many, because no repair can outrun a Redis that is lost again and again.

## 4. Proofs

For every value of the constants, not only the ones of the runs:

* `StorageEngineProofs`
  * `TypeCorrect`: `Spec => []TypeOK`; one lemma per command says that its
    outcome is a slot again.
  * `LazyExpirationIsUnobservable`: if generic commands do not address queue
    keys, `StorageEngine` implements `EagerStore` under `live <- Live(store)`
    (every expired entry read as absent). Each command's outcome depends on its
    entry only through `Fresh`, so a step maps to the same step of `EagerStore`, and
    a tick maps to a tick that drops what expires. The invariant it needs is
    that queues never get a deadline: the condition that excludes the run
    `engine_queue_expiry`.
  * `NobodyWaitsTwice` (`[]QueueNoDuplicates`) and `FirstComeFirstServed`
    (`NobodyOvertakes`). The inductive invariant `QueueInv` adds that the queues of the
    snapshot have no duplicates either, because a restart brings them back. A queue
    command then leaves a queue as it is, drops one user from it, or appends one who is not in it.
  * `HoldsAreProtected` (`HoldProtected`), `SalesAreKept` (`ConfirmedIsKept`) and
    `ExpireOptionsHold` (`ExpireHonoursOption`), action properties proved command by
    command. `SalesAreKept` needs `SalesPersist`: a CONFIRMED entry of a seat key that
    no generic command touches has no deadline, in the store and in the snapshot.
* `TicketingDBProofs`
  * `TypeCorrect`, `NoDoubleSale` (`Spec => []OneConfirmedPerSeat`), `SaleIsPaid`
    (`Spec => []ConfirmedIsPaid`), for any number of concurrent requests. The
    inductive invariant is `IInv == TypeOK /\ UpdatesAreChecked`: a
    request at its `write` has found its row (rows are never deleted), so its UPDATE hits
    a row. `EveryRowStep` then says what any step may do to a row, and both
    theorems follow from it: a row becomes CONFIRMED only in a transaction that passes the
    unique index and upserts a SUCCEEDED payment, and a payment is set to another status
    only together with a CANCELLED row.
  * The lemmas after the theorems say what callers may rely on: `StepEffect` (which
    columns a transaction changes, and of which row), `BetweenKeeps` (what happens between
    transactions), `ConfirmAnswer` and `ExpireAnswer` (what an answer means).
* `MiniRedisServerProofs`
  * `TypeCorrect`, `RunExactlyOnce` (`[]ExactlyOnce`), `DiskAlwaysPrefix`
    (`[]DiskIsPrefix`) and `CleanShutdownSaves` (`[]SavedUnlessLate`), for any number of
    connections, commands, crashes and starts. A command goes from a buffer to the queue to the store,
    so "once" is a statement about order (`OrderInv`). At most once: what was executed (`StoreInOrder`) or
    answered (`AnsweredBefore`) came before what is still buffered, with the one command
    a connection is answering as the exception, and a queued command is the one its connection
    waits for (`QueuedInv`). At least once, while the peer is there: every command
    that the connection read is accounted for (`Accounted`), because the buffer holds the last ones
    without a gap (`Ordered`), and leaves none but by an answer to its head or, all at once, by the answer to a malformed one.
    `SnapshotInv` has every copy of the store, on disk or in the hands of a thread that saves, as a
    prefix of the store, and the file of a server that is down as one a store may start from (`Sound`);
    `LateInv` follows the final copy: what it, and then the file, lacks of the store is `late`, unless the copy was overtaken.
  * What `CleanShutdownSaves` does not promise is what the code does not keep: `serve_forever` joins each connection for
    half a second, takes the final copy, and stops the executor last (`server.py:242-245`), so a connection that
    outlived its join may get a write acknowledged after the copy. The tests only expect what was acknowledged
    before the shutdown (`AckedSurvivesShutdown`, which an overtaken save breaks).
* `TicketingProofs`, `TicketingSafetyProofs`
  * `TypeCorrect`, `ConfirmedOnlyAfterSale` (`[]ConfirmedAfterSale`),
    `ReconcilerSurvives` (`[]ReconcilerLives`), `SalesStay` (`[]SoldStaysSold`) and
    `OneBuyer` (`[]OneBuyerPerSeat`), for any number of threads, late calls, seats, users,
    reservations and failures. The DB service is instantiated from `TicketingDBProofs`, whose
    lemmas are used as they stand. The inductive invariant has one part per component:
    * `DBInv`: the invariant and the theorems of the DB service;
    * `RedisInv`: a FORCE_CONFIRM_SEAT, wherever it is (sent, on the `wire`, owed by a connection),
      names a seat with a paid reservation of that user. Payments of sales are never
      taken back, so such a command is harmless however late it comes: this is what makes
      `ConfirmedAfterSale` inductive;
    * `ControlInv`: a thread's program counter fits the DB request it waits for and what it knows
      of its reservation;
    * `CallsInv`, `IdInv`: an answer "ok" to a confirm is a paid row; an id belongs to
      the seat and the user of every thread that has it, also before its row exists;
    * `WorkerInv`, `ExpiryInv`: the rows the reconciler works on exist, those it expires are past
      their time, so its request ends at the read and never writes;
    * `SalesInv`: a sale reported, or about to be, is CONFIRMED in the DB or was raced. The only transactions that
      move a CONFIRMED row are the writes of cancel and expire; both reached them by finding the row HELD, so
      the row was sold in between (`RaceInv`). The reconciler's expire never gets to its write (`ExpiryInv`).
  * `TicketingProofs` says what the steps of threads and of Redis do (`ThreadStep`, `RedisStep`)
    and that they keep each part; `TicketingSafetyProofs` adds the reconciler and the DB
    service, and ends with the theorems.

* `RESPProofs`, for every byte string, text, and list of them
  * `FrameStable`, `ReplyStable`: both parsers run on all bytes received so far, again after each `recv()`.
    Once they return a value or raise, more bytes change nothing, and what they return ends within what they
    were given. So it does not matter where TCP cuts a stream.
  * `CommandRoundTrip`, `ReplyRoundTrip`: bytes that begin with the encoding of a command
    (a reply) are parsed as that command (reply), up to its last byte. Payloads may hold
    CR LF and characters of two bytes, because lengths count bytes.
  * The model's recursion (numbers, utf-8, the items of an array) is recursive functions on numbers. A fact about
    one is proved by induction in the form of a set: the numbers for which it holds contain 0 and, with n, also
    n + 1 (`NatSetInduction`), where the fact needs no operator as parameter.
* `RedisConnectionProofs`, `RedisConnectionSafetyProofs`: all six invariants of the run, for any threads,
  commands, answers, faults, cuts and raw streams. The inductive invariant has these parts:
  * `Base`: `Types`; `Control` (only the holder of `_connection_lock` uses the connection, and has one);
    `Streams1`: on each connection, the bytes the server has buffered and those in flight are the encodings
    of the commands sent and not executed yet, in order (then the rest of a raw stream). With `FrameStable` and
    `CommandRoundTrip` the next frame is always the next of these commands. `Base` gives `TypeOKAlways` and
    `CommandsAsSentAlways`.
  * `Sync`: on a connection on which no call gave up (not `lagging`), what the call in `read` has buffered and
    what is in flight are the beginning of the answer to its own command, or the command is still on its way;
    between calls nothing is under way. This gives `ReplyOnItsWayAlways`, and with `ReplyRoundTrip`
    `ResultsAlways`: a call in step returns the answer to its own command, which was executed.
  * `Calm`: without a fault no connection ends and no call fails (`NoFalseAlarmAlways`). It needs `Sync`, as
    the client raises on a reply of the wrong shape, and a reply in step has the shape of its own command.
  * `Carries`: a call has its command on one connection per attempt, on each once. It is what
    bounds the executions of a command (`AtMostTwiceAlways`): two attempts, on two connections, each of which executes
    what was sent on it at most once.
  * `Arrive`, `FoundAll`: whatever reaches the client, also on a connection that is behind, is a part of
    the stream of answers of that connection. A call that times out drops the bytes it has read, so what is
    left may begin inside an answer. So a value returned out of step stands somewhere in the stream of one
    connection (`StandsIn`): bytes of two connections are never mixed.
  * `OwnReplyAlways` combines `Results` and `FoundAll`, for any answers. The client takes an array only. If no text in the
    answers of the calls holds the byte `*`, with which an array begins, a value out of step is therefore a whole
    answer. User ids are free strings in `app_server/schemas.py`, so such a text may exist, and `OwnReply` has this case as a disjunct
    (`HoldsArray`), not as a hypothesis: then the value may be the text inside an answer. No answer of the
    run has such a text, so there the stronger half is checked. `ResultsAlways` is the part about calls in step.

The inductive invariants of the first four modules were model-checked on the constants of the runs before they were
proved. Those of `RedisConnection` quantify over all byte strings, which TLC cannot enumerate; what TLC checks
there are the six invariants they imply.

**What `OneBuyerPerSeat` and `SoldStaysSold` except.** With three requests and no failure, a purchase
races a cancel of its own reservation: the cancel reads HELD, the confirm writes CONFIRMED, the cancel overwrites it.
The buyer is told "ok", the hold in Redis goes, and a second user buys the seat. This is the race of the
finding `db_transitions`, seen from outside; `docs/db-handoff.md:159` allows one final confirmation for a seat.
The history variable `raced` records just these sales: when a row becomes CONFIRMED while a cancel or expire of
a user's request (late or not) has found it HELD and has not yet written. Both properties hold of every
other sale, by purchase or by hold and a later confirm: against cancels that begin after the sale, failing and repeated
confirms, late requests, sweeps, the reconciler, lost and repeated commands.

Assumptions are the named ASSUMEs of the modules: bounds, ids and hold times are natural numbers, hold times
not zero; `None` is no row, payment or number; the unknown seat is not in the catalogue; the
reconciler, the threads and the late calls are different callers; `Chars` has the characters of the protocol and not
the two bytes that make up one more character; answers are replies that the server encodes, of the shape the
client reads or errors; a raw stream ends in bytes that are no further command.

Only model-checked:

* liveness (`NoClientWaitsForever`, `ShutdownEnds`, `SaleReachesRedis`): fairness is outside the prover's reach;
* the properties of the five runs that expect a violation, which are false.

## 5. Not modelled

* Arity and number checks of malformed commands: they answer an error and touch nothing.
* What Python's `int()` accepts beyond digits and a minus sign; a `sendall()` that fails half-way, which to the
  server is the cut of a stream followed by a reset.
* That every call of `RedisConnection` ends: deciding whether a step is enabled runs
  the parsers, too often for TLC. `ReplyOnItsWay` is the safety part: a call in step never waits with nothing under way.
* The app server's queue endpoints (one command each; `RedisConnection` has their
  reply shapes, `StorageEngine` their effect), read-only listings, the catalogue tables and column layout,
  creation of load-test users.
* `parse_resp` and `RespStreamParser`, which the server does not call.
* The orchestration log and the frontend (display; no decision reads what they hold), demo data, and the command line
  tools: `auto_ticketing.py` serialises each seat's GET/SET race with a mutex of its
  own, and `client.py` imports a module that the repository does not contain.
* A client that confirms a reservation with somebody else's seat or user, and more than one copy of the
  same Redis command under way, are outside `Ticketing`.

Hazards without a property carry a note in `PROJECT.json`.

## 6. Plan

1. Done: storage engine, DB service, their composition with app server and
   reconciler, the server process, the wire format and the shared connection; proofs of all
   safety invariants and action properties that the passing runs check.
2. Worth proving next: that the replies `Ask` takes whole in `Ticketing` are those of `RedisConnection`, which now is
   an argument in words (section 2).
3. Worth modelling if the code grows there: hold continuity when the same user holds a seat again
   (`reconciler.py:74`), and catalogue reads that hide stale rows from the reconciler.
