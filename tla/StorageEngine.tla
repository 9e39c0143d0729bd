--------------------------- MODULE StorageEngine ---------------------------
(***************************************************************************)
(* The mini-Redis storage engine: one dict for plain keys, seat keys and   *)
(* queue keys, with lazy expiration.  Every command handler takes the      *)
(* engine's lock once, so a command is one action; the clock moves only    *)
(* between commands.                                                       *)
(***************************************************************************)
EXTENDS StoreCommands

VARIABLES
  store,   \* self._store: what the dict holds for each key
  now,     \* self._clock()
  saved,   \* the entries of the last snapshot handed to the SQLite store
  reply    \* the last command and its reply

vars == <<store, now, saved, reply>>

Init == /\ store = [k \in Keys |-> NoEntry]
        /\ now = 0
        /\ saved = [k \in Keys |-> NoEntry]
        /\ reply = NoReply

Run(cmd, k, args, outcome) == /\ store' = [store EXCEPT ![k] = outcome.entry]
                              /\ reply' = Reply(cmd, k, args, outcome.result)
                              /\ UNCHANGED <<now, saved>>

PurgedTooLate(k) == Fresh(store[k], now - 1)

(* _purge_if_expired: the dict loses an expired entry before it is read. *)
Purged(k) == Fresh(store[k], now)

-----------------------------------------------------------------------------
(* Generic commands. *)

Set(k, v) == Run("SET", k, <<v>>, SetOutcome(v))

Get(k) == Run("GET", k, << >>, GetOutcome(Purged(k)))

Delete(k) == Run("DEL", k, << >>, DeleteOutcome(Purged(k)))

Expire(k, n, o) == Run("EXPIRE", k, <<n, o>>, ExpireOutcome(Purged(k), now, n, o))

Ttl(k) == Run("TTL", k, << >>, TtlOutcome(Purged(k), now))

-----------------------------------------------------------------------------
(* Seat commands.  A hold of zero or fewer seconds is refused before the   *)
(* dict is looked at.                                                      *)

ReserveSeat(k, u, n) ==
  \/ n =< 0 /\ Run("RESERVE_SEAT", k, <<u, n>>, Outcome(store[k], Error))
  \/ n > 0 /\ Run("RESERVE_SEAT", k, <<u, n>>, ReserveOutcome(Purged(k), now, u, n))

ConfirmSeat(k, u) == Run("CONFIRM_SEAT", k, <<u>>, ConfirmOutcome(Purged(k), now, u))

ForceConfirmSeat(k, u) == Run("FORCE_CONFIRM_SEAT", k, <<u>>, ForceConfirmOutcome(u))

ReleaseSeat(k, u) == Run("RELEASE_SEAT", k, <<u>>, ReleaseOutcome(Purged(k), now, u))

SeatStatusOf(k) == Run("SEAT_STATUS", k, << >>, StatusOutcome(Purged(k), now))

-----------------------------------------------------------------------------
(* Queue commands.  _load_queue reads the dict without looking at the      *)
(* deadline, and _store_queue writes the queue back without one.           *)

JoinQueue(k, u) == Run("JOIN_QUEUE", k, <<u>>, JoinOutcome(store[k], u))

QueuePosition(k, u) == Run("QUEUE_POSITION", k, <<u>>, PositionOutcome(store[k], u))

PopQueue(k) == Run("POP_QUEUE", k, << >>, PopOutcome(store[k]))

LeaveQueue(k, u) == Run("LEAVE_QUEUE", k, <<u>>, LeaveOutcome(store[k], u))

PeekQueue(k) == Run("PEEK_QUEUE", k, << >>, PeekOutcome(store[k]))

-----------------------------------------------------------------------------
(* snapshot() drops every expired entry and copies the rest; load_snapshot *)
(* rebuilds the dict of a restarted server, skipping what expired since.   *)

Live(entries) == [k \in Keys |-> Fresh(entries[k], now)]

Snapshot == /\ store' = Live(store)
            /\ saved' = Live(store)
            /\ UNCHANGED <<now, reply>>

LoadSnapshot == /\ store' = Live(saved)
                /\ UNCHANGED <<now, saved, reply>>

Tick == /\ now < MaxTime
        /\ now' = now + 1
        /\ UNCHANGED <<store, saved, reply>>

GenericCommand ==
  \E k \in GenericKeys :
    \/ \E v \in Literals : Set(k, v)
    \/ Get(k)
    \/ Delete(k)
    \/ \E n \in ExpireSeconds, o \in ExpireOptions : Expire(k, n, o)
    \/ Ttl(k)

SeatCommand ==
  \E k \in SeatKeys :
    \/ \E u \in Users, n \in HoldSeconds : ReserveSeat(k, u, n)
    \/ \E u \in Users : ConfirmSeat(k, u)
    \/ \E u \in Users : ForceConfirmSeat(k, u)
    \/ \E u \in Users : ReleaseSeat(k, u)
    \/ SeatStatusOf(k)

QueueCommand ==
  \E k \in QueueKeys :
    \/ \E u \in Users : JoinQueue(k, u)
    \/ \E u \in Users : QueuePosition(k, u)
    \/ PopQueue(k)
    \/ \E u \in Users : LeaveQueue(k, u)
    \/ PeekQueue(k)

Next == \/ GenericCommand
        \/ SeatCommand
        \/ QueueCommand
        \/ Snapshot
        \/ LoadSnapshot
        \/ Tick

Spec == Init /\ [][Next]_vars

-----------------------------------------------------------------------------
(* Properties. *)

(* Type invariant: the dict, the clock and the snapshot keep the shape of  *)
(* engine.py's Entry records, whatever commands clients send.              *)
TypeOK == /\ store \in [Keys -> Slot]
          /\ now \in Nat
          /\ saved \in [Keys -> Slot]

(* Lazy expiration is unobservable: with every expired entry read as       *)
(* absent, the engine behaves, reply for reply and across snapshots and    *)
(* restarts, like a store that drops an entry the moment its deadline      *)
(* passes (README, "TTL").  Queue keys must not be given a deadline with   *)
(* EXPIRE for this, because _load_queue ignores it.                        *)
Eager == INSTANCE EagerStore WITH live <- Live(store)
LazyImplementsEager == Eager!Spec

(* The entry that a client still sees under key k. *)
Visible(k) == Fresh(store[k], now)

(* reserve_seat, confirm_seat and release_seat never take a seat from the  *)
(* user who holds it: a live hold ends only by its holder's own CONFIRM or *)
(* RELEASE, by FORCE_CONFIRM, by its deadline or by a restart from an      *)
(* older snapshot (seat keys clients do not touch with generic commands).  *)
HoldProtected ==
  [][\A k \in SeatKeys \ GenericKeys, u \in Users :
       (HeldBy(Visible(k), u) /\ ~HeldBy(Visible(k)', u))
       => \/ ConfirmSeat(k, u)
          \/ ReleaseSeat(k, u)
          \/ \E v \in Users : ForceConfirmSeat(k, v)
          \/ now' > now /\ is_expired(store[k].expires_at, now')
          \/ LoadSnapshot]_vars

(* A confirmed seat stays with its user unless another FORCE_CONFIRM names *)
(* the seat or the server restarts from an older snapshot: no reservation, *)
(* release or passing of time frees a sold seat.                           *)
ConfirmedIsKept ==
  [][\A k \in SeatKeys \ GenericKeys, u \in Users :
       (ConfirmedBy(Visible(k), u) /\ ~ConfirmedBy(Visible(k)', u))
       => \/ \E v \in Users : ForceConfirmSeat(k, v)
          \/ LoadSnapshot]_vars

(* Entry e lives at least as long as entry f. *)
Outlives(e, f) == \/ f = NoEntry
                  \/ /\ e # NoEntry
                     /\ \/ e.expires_at = Persistent
                        \/ f.expires_at # Persistent /\ e.expires_at >= f.expires_at

(* EXPIRE GT never shortens and EXPIRE LT never lengthens the life of a    *)
(* key, also when the seconds are zero or negative and EXPIRE deletes: the *)
(* option is honoured before the deletion.                                 *)
ExpireHonoursOption ==
  [][\A k \in GenericKeys, n \in ExpireSeconds :
       /\ Expire(k, n, "GT") => Outlives(Visible(k)', Visible(k))
       /\ Expire(k, n, "LT") => Outlives(Visible(k), Visible(k)')]_vars

(* The queue under key k as the queue commands see it. *)
Waiting(k) == QueueOf(store[k])

(* No user waits twice in one queue, whatever JOIN, LEAVE and POP calls    *)
(* are interleaved: join_queue looks the user up before it appends.        *)
QueueNoDuplicates == \A k \in QueueKeys : IsInjective(Waiting(k))

(* First come, first served: while two users wait in a queue nobody        *)
(* overtakes, and POP_QUEUE never serves the later one first.              *)
Before(q, u, v) == \E i, j \in DOMAIN q : i < j /\ q[i] = u /\ q[j] = v
NobodyOvertakes ==
  [][\A k \in QueueKeys, u, v \in Users :
       (Before(Waiting(k), u, v) /\ ~LoadSnapshot)
       => /\ ~Before(Waiting(k)', v, u)
          /\ PopQueue(k) => Contains(Waiting(k)', v)]_vars

(* README, "TTL": an accessed key is checked for expiry first, and an      *)
(* expired key is answered as if it were missing.  For PEEK_QUEUE: a queue *)
(* whose key has expired (GET and TTL call it missing) has nobody waiting. *)
ExpiredQueueIsGone ==
  [][\A k \in QueueKeys :
       (PeekQueue(k) /\ Visible(k) = NoEntry) => reply'.result = <<NoUser, 0>>]_vars
=============================================================================
