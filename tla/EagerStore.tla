----------------------------- MODULE EagerStore -----------------------------
(***************************************************************************)
(* What the storage engine promises its clients (README, "TTL"): a store   *)
(* in which an entry is gone the moment its deadline passes.  No command   *)
(* looks at deadlines; only the passing of time removes entries.           *)
(***************************************************************************)
EXTENDS StoreCommands

VARIABLES live, now, saved, reply

vars == <<live, now, saved, reply>>

Init == /\ live = [k \in Keys |-> NoEntry]
        /\ now = 0
        /\ saved = [k \in Keys |-> NoEntry]
        /\ reply = NoReply

Run(cmd, k, args, outcome) == /\ live' = [live EXCEPT ![k] = outcome.entry]
                              /\ reply' = Reply(cmd, k, args, outcome.result)
                              /\ UNCHANGED <<now, saved>>

Generic(k) ==
  \/ \E v \in Literals : Run("SET", k, <<v>>, SetOutcome(v))
  \/ Run("GET", k, << >>, GetOutcome(live[k]))
  \/ Run("DEL", k, << >>, DeleteOutcome(live[k]))
  \/ \E n \in ExpireSeconds, o \in ExpireOptions :
       Run("EXPIRE", k, <<n, o>>, ExpireOutcome(live[k], now, n, o))
  \/ Run("TTL", k, << >>, TtlOutcome(live[k], now))

Seat(k) ==
  \/ \E u \in Users, n \in HoldSeconds :
       \/ n =< 0 /\ Run("RESERVE_SEAT", k, <<u, n>>, Outcome(live[k], Error))
       \/ n > 0 /\ Run("RESERVE_SEAT", k, <<u, n>>, ReserveOutcome(live[k], now, u, n))
  \/ \E u \in Users :
       \/ Run("CONFIRM_SEAT", k, <<u>>, ConfirmOutcome(live[k], now, u))
       \/ Run("FORCE_CONFIRM_SEAT", k, <<u>>, ForceConfirmOutcome(u))
       \/ Run("RELEASE_SEAT", k, <<u>>, ReleaseOutcome(live[k], now, u))
  \/ Run("SEAT_STATUS", k, << >>, StatusOutcome(live[k], now))

Queue(k) ==
  \/ \E u \in Users :
       \/ Run("JOIN_QUEUE", k, <<u>>, JoinOutcome(live[k], u))
       \/ Run("QUEUE_POSITION", k, <<u>>, PositionOutcome(live[k], u))
       \/ Run("LEAVE_QUEUE", k, <<u>>, LeaveOutcome(live[k], u))
  \/ Run("POP_QUEUE", k, << >>, PopOutcome(live[k]))
  \/ Run("PEEK_QUEUE", k, << >>, PeekOutcome(live[k]))

Snapshot == saved' = live /\ UNCHANGED <<live, now, reply>>

(* A restart brings back what the snapshot held, less what expired since. *)
Restore == /\ live' = [k \in Keys |-> Fresh(saved[k], now)]
           /\ UNCHANGED <<now, saved, reply>>

Tick == /\ now < MaxTime
        /\ now' = now + 1
        /\ live' = [k \in Keys |-> Fresh(live[k], now')]
        /\ UNCHANGED <<saved, reply>>

Next == \/ \E k \in GenericKeys : Generic(k)
        \/ \E k \in SeatKeys : Seat(k)
        \/ \E k \in QueueKeys : Queue(k)
        \/ Snapshot
        \/ Restore
        \/ Tick

Spec == Init /\ [][Next]_vars
=============================================================================
