---------------------------- MODULE StoreCommands ----------------------------
(***************************************************************************)
(* The data and the commands of the mini-Redis storage engine              *)
(* (storage/engine.py, storage/ttl.py, commands/handler.py): keys, entries *)
(* with an optional deadline, the records kept under seat and queue keys,  *)
(* and for every command what it makes of the entry e it finds under its   *)
(* key: the entry it leaves there and the reply.  StorageEngine applies    *)
(* the commands to a dict that expires lazily; EagerStore to one in which  *)
(* nothing ever is expired.                                                *)
(***************************************************************************)
EXTENDS Integers, Sequences, SequencesExt

CONSTANTS
  Users,          \* user ids
  SeatKeys,       \* keys "seat:<event>:<seat>", used by the seat commands
  QueueKeys,      \* keys "queue:<event>", used by the queue commands
  GenericKeys,    \* keys clients name in SET, GET, DEL, EXPIRE and TTL
  Literals,       \* strings a client may SET; none of them is a JSON record
  HoldSeconds,    \* ttl arguments of RESERVE_SEAT, legal or not
  ExpireSeconds,  \* second arguments of EXPIRE, negative ones included
  MaxTime,        \* bound on the clock
  NoEntry,        \* a key that is not in the dict
  NoUser          \* Python's None for a user id

Keys == SeatKeys \cup QueueKeys \cup GenericKeys

(* Python's None for expires_at: the entry never expires. *)
Persistent == -1

PlainValue == [type: {"plain"}, data: Literals]
SeatValue  == [type: {"seat"}, state: {"HELD", "CONFIRMED"}, user_id: Users]
QueueValue == [type: {"queue"}, users: Seq(Users)]
Value      == PlainValue \cup SeatValue \cup QueueValue

Entry == [value: Value, expires_at: Nat \cup {Persistent}]
Slot  == Entry \cup {NoEntry}

ASSUME KeysAssumption == SeatKeys \cap QueueKeys = {}
ASSUME TimeAssumption == /\ MaxTime \in Nat
                         /\ HoldSeconds \subseteq Int
                         /\ ExpireSeconds \subseteq Int
ASSUME NoneAssumption == NoEntry \notin Entry /\ NoUser \notin Users

-----------------------------------------------------------------------------
(* storage/ttl.py *)

compute_deadline(time, seconds) == time + seconds

is_expired(deadline, time) == deadline =< time

ExpireOptions == {"none", "NX", "XX", "GT", "LT"}

(* A persistent entry compares as infinitely late. *)
should_apply_expiry(option, current, new) ==
  \/ option = "none"
  \/ option = "NX" /\ current = Persistent
  \/ option = "XX" /\ current # Persistent
  \/ option = "GT" /\ current # Persistent /\ new > current
  \/ option = "LT" /\ (current = Persistent \/ new < current)

-----------------------------------------------------------------------------
(* Entries and the records they hold. *)

Plain(v)     == [value |-> [type |-> "plain", data |-> v],
                 expires_at |-> Persistent]
Held(u, d)   == [value |-> [type |-> "seat", state |-> "HELD", user_id |-> u],
                 expires_at |-> d]
Confirmed(u) == [value |-> [type |-> "seat", state |-> "CONFIRMED", user_id |-> u],
                 expires_at |-> Persistent]

(* _store_queue: an empty queue is not kept, a stored one has no deadline. *)
StoredQueue(q) == IF q = << >> THEN NoEntry
                  ELSE [value |-> [type |-> "queue", users |-> q],
                        expires_at |-> Persistent]

(* What a reader that honours deadlines finds in slot e at the given time. *)
Fresh(e, time) == IF e # NoEntry /\ e.expires_at # Persistent
                     /\ is_expired(e.expires_at, time)
                  THEN NoEntry ELSE e

Decodes(e, type) == e = NoEntry \/ e.value.type = type

RemainingTtl(e, time) == IF e.expires_at = Persistent THEN -1
                         ELSE e.expires_at - time

HasSeat(e, state, u) == /\ e # NoEntry
                        /\ e.value.type = "seat"
                        /\ e.value.state = state
                        /\ e.value.user_id = u
HeldBy(e, u)      == HasSeat(e, "HELD", u)
ConfirmedBy(e, u) == HasSeat(e, "CONFIRMED", u)

Available == <<"AVAILABLE", NoUser, -1>>

(* _seat_status_by_key, as the command handler puts it in a reply. *)
SeatStatus(e, time) ==
  IF e = NoEntry THEN Available
  ELSE <<e.value.state, e.value.user_id, RemainingTtl(e, time)>>

(* The queue decoded from a slot; empty when there is none. *)
QueueOf(e) == IF e # NoEntry /\ e.value.type = "queue"
              THEN e.value.users ELSE << >>

(* queue.index(u) + 1, or 0 when u is not in the queue. *)
PositionIn(q, u) == SelectInSeq(q, LAMBDA x : x = u)

-----------------------------------------------------------------------------
(* The outcome of a command that found entry e: what it leaves under its   *)
(* key and what it answers.                                                *)

Outcome(e, result) == [entry |-> e, result |-> result]

Error == <<"ERR">>

(* A seat or queue command on a live entry of another type raises: the     *)
(* client gets an error and the entry stays.                               *)
Typed(e, type, outcome) ==
  IF Decodes(e, type) THEN outcome ELSE Outcome(e, Error)

SetOutcome(v) == Outcome(Plain(v), <<"OK">>)

GetOutcome(e) == Outcome(e, IF e = NoEntry THEN << >> ELSE <<e.value>>)

DeleteOutcome(e) == Outcome(NoEntry, <<IF e = NoEntry THEN 0 ELSE 1>>)

ExpireDeletesFirst(e, time, seconds, option) ==
  LET new == compute_deadline(time, seconds)
  IN IF e # NoEntry /\ (seconds =< 0 \/ should_apply_expiry(option, e.expires_at, new))
     THEN Outcome(IF seconds =< 0 THEN NoEntry ELSE [e EXCEPT !.expires_at = new], <<1>>)
     ELSE Outcome(e, <<0>>)

(* The option is tested before the sign of the seconds. *)
ExpireOutcome(e, time, seconds, option) ==
  LET new == compute_deadline(time, seconds)
  IN IF e # NoEntry /\ should_apply_expiry(option, e.expires_at, new)
     THEN Outcome(IF seconds =< 0 THEN NoEntry ELSE [e EXCEPT !.expires_at = new], <<1>>)
     ELSE Outcome(e, <<0>>)

TtlOutcome(e, time) ==
  Outcome(e, <<IF e = NoEntry THEN -2 ELSE RemainingTtl(e, time)>>)

ReserveTakesHold(e, time, u, seconds) ==
  Typed(e, "seat",
        IF \A v \in Users : ~ConfirmedBy(e, v)
        THEN Outcome(Held(u, compute_deadline(time, seconds)), <<1, "HELD", u, seconds>>)
        ELSE Outcome(e, <<0>> \o SeatStatus(e, time)))

ReserveOutcome(e, time, u, seconds) ==
  Typed(e, "seat",
        IF e = NoEntry \/ HeldBy(e, u)
        THEN Outcome(Held(u, compute_deadline(time, seconds)), <<1, "HELD", u, seconds>>)
        ELSE Outcome(e, <<0>> \o SeatStatus(e, time)))

ConfirmOutcome(e, time, u) ==
  Typed(e, "seat",
        IF HeldBy(e, u)
        THEN Outcome(Confirmed(u), <<1, "CONFIRMED", u, -1>>)
        ELSE Outcome(e, <<IF ConfirmedBy(e, u) THEN 1 ELSE 0>> \o SeatStatus(e, time)))

ForceConfirmOutcome(u) == Outcome(Confirmed(u), <<1, "CONFIRMED", u, -1>>)

ReleaseKeepsRecord(e, time, u) ==
  Typed(e, "seat",
        IF HeldBy(e, u)
        THEN Outcome([e EXCEPT !.value.state = "AVAILABLE"], <<1>> \o Available)
        ELSE Outcome(e, <<0>> \o SeatStatus(e, time)))

ReleaseAnyState(e, time, u) ==
  Typed(e, "seat",
        IF HeldBy(e, u) \/ ConfirmedBy(e, u)
        THEN Outcome(NoEntry, <<1>> \o Available)
        ELSE Outcome(e, <<0>> \o SeatStatus(e, time)))

ReleaseOutcome(e, time, u) ==
  Typed(e, "seat",
        IF HeldBy(e, u)
        THEN Outcome(NoEntry, <<1>> \o Available)
        ELSE Outcome(e, <<0>> \o SeatStatus(e, time)))

StatusOutcome(e, time) == Typed(e, "seat", Outcome(e, SeatStatus(e, time)))

JoinTwice(e, u) ==
  LET q == QueueOf(e)
  IN Typed(e, "queue",
           Outcome(StoredQueue(Append(q, u)), <<1, Len(q) + 1, Len(q) + 1>>))

JoinOutcome(e, u) ==
  LET q == QueueOf(e)
      p == PositionIn(q, u)
  IN Typed(e, "queue",
           IF p > 0
           THEN Outcome(e, <<0, p, Len(q)>>)
           ELSE Outcome(StoredQueue(Append(q, u)), <<1, Len(q) + 1, Len(q) + 1>>))

PositionOutcome(e, u) ==
  LET q == QueueOf(e)
      p == PositionIn(q, u)
  IN Typed(e, "queue", Outcome(e, <<IF p = 0 THEN -1 ELSE p, Len(q)>>))

PopLast(e) ==
  LET q == QueueOf(e)
  IN Typed(e, "queue",
           IF q = << >> THEN Outcome(e, <<NoUser, 0>>)
           ELSE Outcome(StoredQueue(Front(q)), <<Last(q), Len(q) - 1>>))

PopOutcome(e) ==
  LET q == QueueOf(e)
  IN Typed(e, "queue",
           IF q = << >> THEN Outcome(e, <<NoUser, 0>>)
           ELSE Outcome(StoredQueue(Tail(q)), <<Head(q), Len(q) - 1>>))

LeaveOutcome(e, u) ==
  LET q == QueueOf(e)
      p == PositionIn(q, u)
  IN Typed(e, "queue",
           IF p = 0 THEN Outcome(e, <<0, -1, Len(q)>>)
           ELSE Outcome(StoredQueue(RemoveAt(q, p)), <<1, p, Len(q) - 1>>))

PeekOutcome(e) ==
  LET q == QueueOf(e)
  IN Typed(e, "queue",
           Outcome(e, IF q = << >> THEN <<NoUser, 0>> ELSE <<Head(q), Len(q)>>))

-----------------------------------------------------------------------------
(* The last command a client sent and what it was told. *)
Reply(cmd, key, args, result) ==
  [cmd |-> cmd, key |-> key, args |-> args, result |-> result]

NoReply == Reply("none", NoEntry, << >>, << >>)
=============================================================================
