------------------------ MODULE StorageEngineProofs ------------------------
(***************************************************************************)
(* Theorems about the storage engine, for every set of keys and users,     *)
(* every clock bound and every argument of RESERVE_SEAT and EXPIRE.        *)
(***************************************************************************)
EXTENDS StorageEngine, SequenceTheorems, WellFoundedInduction, TLAPS

(* The position a queue lookup returns is 0 or an index of the queue where *)
(* the user stands.                                                        *)
LEMMA PositionProperties ==
  ASSUME NEW q \in Seq(Users), NEW u
  PROVE  /\ PositionIn(q, u) \in 0..Len(q)
         /\ PositionIn(q, u) = 0 => \A i \in 1..Len(q) : q[i] # u
         /\ PositionIn(q, u) > 0 => q[PositionIn(q, u)] = u
<1> DEFINE I == {i \in 1..Len(q) : q[i] = u}
<1>1. PositionIn(q, u) = IF I # {} THEN Min(I) ELSE 0
  BY DEF PositionIn, SelectInSeq
<1>2. ASSUME I # {} PROVE Min(I) \in I
  <2>1. I \subseteq Nat
    OBVIOUS
  <2> DEFINE R == {p \in Nat \X Nat : p[1] < p[2]}
  <2>2. R = OpToRel(<, Nat)
    BY Zenon DEF OpToRel
  <2>3. IsWellFoundedOn(R, Nat)
    BY <2>2, NatLessThanWellFounded, Zenon
  <2>4. \E x \in I : \A y \in I : ~(<<y, x>> \in R)
    <3> HIDE DEF I, R
    <3> QED BY <1>2, <2>1, <2>3, WFMin
  <2>5. \E x \in I : \A y \in I : x =< y
    <3>1. \A a, b \in Nat : a < b => <<a, b>> \in R
      OBVIOUS
    <3> HIDE DEF I, R
    <3>2. PICK x \in I : \A y \in I : ~(<<y, x>> \in R)
      BY <2>4
    <3>3. ASSUME NEW y \in I PROVE x =< y
      <4>1. x \in Nat /\ y \in Nat
        BY <2>1
      <4>2. ~(y < x)
        BY <3>1, <3>2, <4>1
      <4> QED BY <4>1, <4>2
    <3> QED BY <3>3
  <2> QED BY <2>5 DEF Min
<1> QED BY <1>1, <1>2

-----------------------------------------------------------------------------
(* What the engine writes under a key is an entry or nothing. *)

(* An expired entry reads as absent, any other as itself. *)
LEMMA FreshType ==
  ASSUME NEW e \in Slot, NEW t \in Int
  PROVE  Fresh(e, t) \in Slot
BY DEF Fresh, Slot

(* What SET, GET, DEL, EXPIRE and TTL leave under a key is a slot. *)
LEMMA GenericEntryTypes ==
  ASSUME NEW e \in Slot, NEW t \in Nat
  PROVE  /\ \A v \in Literals : SetOutcome(v).entry \in Slot
         /\ GetOutcome(e).entry \in Slot
         /\ DeleteOutcome(e).entry \in Slot
         /\ \A n \in Int : \A o : ExpireOutcome(e, t, n, o).entry \in Slot
         /\ TtlOutcome(e, t).entry \in Slot
<1>1. ASSUME NEW n \in Int, NEW o
      PROVE  ExpireOutcome(e, t, n, o).entry \in Slot
  <2>1. CASE n =< 0 \/ e = NoEntry
    BY <2>1 DEF ExpireOutcome, Outcome, Slot
  <2>2. CASE n > 0 /\ e # NoEntry
    <3>1. e \in Entry /\ t + n \in Nat
      BY <2>2 DEF Slot
    <3>2. [e EXCEPT !.expires_at = t + n] \in Entry
      BY <3>1 DEF Entry
    <3> QED BY <3>1, <3>2, <2>2 DEF ExpireOutcome, Outcome, Slot, compute_deadline
  <2> QED BY <2>1, <2>2
<1>2. \A v \in Literals : SetOutcome(v).entry \in Slot
  BY DEF SetOutcome, Outcome, Plain, Slot, Entry, Value, PlainValue, Persistent
<1> QED BY <1>1, <1>2 DEF GetOutcome, DeleteOutcome, TtlOutcome, Outcome, Slot

(* What the seat commands leave under a key is a slot. *)
LEMMA SeatEntryTypes ==
  ASSUME NEW e \in Slot, NEW t \in Nat, NEW u \in Users
  PROVE  /\ \A n \in Int : n > 0 => ReserveOutcome(e, t, u, n).entry \in Slot
         /\ ConfirmOutcome(e, t, u).entry \in Slot
         /\ ForceConfirmOutcome(u).entry \in Slot
         /\ ReleaseOutcome(e, t, u).entry \in Slot
         /\ StatusOutcome(e, t).entry \in Slot
<1>1. Confirmed(u) \in Slot /\ \A d \in Nat : Held(u, d) \in Slot
  BY DEF Confirmed, Held, Slot, Entry, Value, SeatValue, Persistent
<1>2. \A n \in Int : n > 0 => t + n \in Nat
  OBVIOUS
<1>3. NoEntry \in Slot
  BY DEF Slot
<1> QED BY <1>1, <1>2, <1>3
        DEF ReserveOutcome, ConfirmOutcome, ForceConfirmOutcome, ReleaseOutcome,
            StatusOutcome, Typed, Outcome, compute_deadline

(* The queue decoded from a slot is a sequence of users, and a queue the   *)
(* engine stores is decoded to itself.                                     *)
LEMMA QueueOfType ==
  ASSUME NEW e \in Slot
  PROVE  QueueOf(e) \in Seq(Users)
BY DEF QueueOf, Slot, Entry, Value, PlainValue, SeatValue, QueueValue

(* _store_queue writes a persistent queue entry, or none. *)
LEMMA StoredQueueType ==
  ASSUME NEW q \in Seq(Users)
  PROVE  /\ StoredQueue(q) \in Slot
         /\ QueueOf(StoredQueue(q)) = q
         /\ StoredQueue(q) # NoEntry => StoredQueue(q).expires_at = Persistent
<1>1. CASE q = << >>
  BY <1>1 DEF StoredQueue, Slot, QueueOf
<1>2. CASE q # << >>
  <2> DEFINE e == [value |-> [type |-> "queue", users |-> q], expires_at |-> Persistent]
  <2>1. e \in Entry
    BY DEF Entry, Value, QueueValue, Persistent
  <2>2. e # NoEntry
    BY <2>1, NoneAssumption
  <2> QED BY <1>2, <2>1, <2>2 DEF StoredQueue, Slot, QueueOf
<1> QED BY <1>1, <1>2

(* A queue without one of its members is a shorter queue. *)
LEMMA RemoveAtType ==
  ASSUME NEW q \in Seq(Users), NEW p \in 1..Len(q)
  PROVE  /\ RemoveAt(q, p) \in Seq(Users)
         /\ Len(RemoveAt(q, p)) = Len(q) - 1
         /\ \A i \in 1..(Len(q) - 1) : RemoveAt(q, p)[i] = IF i < p THEN q[i] ELSE q[i + 1]
<1> DEFINE a == SubSeq(q, 1, p - 1)
           b == SubSeq(q, p + 1, Len(q))
<1>1. a \in Seq(Users) /\ Len(a) = p - 1 /\ \A i \in 1..(p - 1) : a[i] = q[i]
  OBVIOUS
<1>2. /\ b \in Seq(Users) /\ Len(b) = Len(q) - p
      /\ \A i \in 1..(Len(q) - p) : b[i] = q[p + i]
  OBVIOUS
<1>3. RemoveAt(q, p) = a \o b
  BY DEF RemoveAt
<1> HIDE DEF a, b
<1>4. /\ a \o b \in Seq(Users)
      /\ Len(a \o b) = Len(a) + Len(b)
      /\ \A i \in 1..(Len(a) + Len(b)) :
           (a \o b)[i] = IF i =< Len(a) THEN a[i] ELSE b[i - Len(a)]
  BY <1>1, <1>2, ConcatProperties
<1>5. Len(a) + Len(b) = Len(q) - 1 /\ Len(q) \in Nat
  BY <1>1, <1>2
<1>6. ASSUME NEW i \in 1..(Len(q) - 1)
      PROVE  (a \o b)[i] = IF i < p THEN q[i] ELSE q[i + 1]
  <2>1. CASE i < p
    BY <1>1, <1>4, <1>5, <2>1
  <2>2. CASE ~(i < p)
    <3>1. i - Len(a) \in 1..(Len(q) - p) /\ p + (i - Len(a)) = i + 1
      BY <1>1, <1>5, <2>2
    <3>2. b[i - Len(a)] = q[p + (i - Len(a))]
      BY <1>2, <3>1
    <3>3. i \in 1..(Len(a) + Len(b)) /\ ~(i =< Len(a))
      BY <1>1, <1>5, <2>2
    <3>4. (a \o b)[i] = b[i - Len(a)]
      BY <1>4, <3>3
    <3> QED BY <2>2, <3>1, <3>2, <3>4
  <2> QED BY <2>1, <2>2
<1> QED BY <1>3, <1>4, <1>5, <1>6

(* What the queue commands leave under a key is a slot. *)
LEMMA QueueEntryTypes ==
  ASSUME NEW e \in Slot
  PROVE  /\ PopOutcome(e).entry \in Slot
         /\ PeekOutcome(e).entry \in Slot
         /\ \A u \in Users : /\ JoinOutcome(e, u).entry \in Slot
                             /\ PositionOutcome(e, u).entry \in Slot
                             /\ LeaveOutcome(e, u).entry \in Slot
<1> DEFINE q == QueueOf(e)
           p(u) == PositionIn(q, u)
<1>1. q \in Seq(Users)
  BY QueueOfType
<1>2. ASSUME NEW u \in Users PROVE StoredQueue(Append(q, u)) \in Slot
  <2>1. Append(q, u) \in Seq(Users)
    BY <1>1
  <2> QED BY <2>1, StoredQueueType
<1>3. q # << >> => StoredQueue(Tail(q)) \in Slot
  <2>1. q # << >> => Tail(q) \in Seq(Users)
    BY <1>1
  <2> QED BY <2>1, StoredQueueType
<1>4. ASSUME NEW u \in Users, p(u) # 0 PROVE StoredQueue(RemoveAt(q, p(u))) \in Slot
  <2>1. RemoveAt(q, p(u)) \in Seq(Users)
    BY <1>1, <1>4, PositionProperties, RemoveAtType
  <2> QED BY <2>1, StoredQueueType
<1> QED BY <1>2, <1>3, <1>4
        DEF JoinOutcome, PositionOutcome, PopOutcome, LeaveOutcome, PeekOutcome,
            Typed, Outcome

-----------------------------------------------------------------------------
(* A command that leaves a slot under its key keeps the dict well typed. *)
LEMMA RunType ==
  ASSUME TypeOK, NEW cmd, NEW k \in Keys, NEW args, NEW out,
         out.entry \in Slot, Run(cmd, k, args, out)
  PROVE  TypeOK'
BY DEF Run, TypeOK

(* Lazy expiration leaves a slot. *)
LEMMA PurgedType ==
  ASSUME TypeOK, NEW k \in Keys
  PROVE  Purged(k) \in Slot /\ store[k] \in Slot
BY FreshType DEF Purged, TypeOK

(* Dropping the expired entries keeps a dict well typed. *)
LEMMA LiveType ==
  ASSUME TypeOK, NEW f \in [Keys -> Slot]
  PROVE  Live(f) \in [Keys -> Slot]
BY FreshType DEF Live, TypeOK

(* Every reachable state of the engine is well typed: whatever commands    *)
(* clients interleave, each dict slot is missing or a plain, seat or queue *)
(* entry whose deadline is absent or a point in time.                      *)
THEOREM TypeCorrect == Spec => []TypeOK
<1>1. Init => TypeOK
  BY DEF Init, TypeOK, Slot
<1>2. TypeOK /\ [Next]_vars => TypeOK'
  <2> SUFFICES ASSUME TypeOK, [Next]_vars PROVE TypeOK'
    OBVIOUS
  <2> USE TimeAssumption
  <2>1. ASSUME NEW k \in GenericKeys, NEW v \in Literals, Set(k, v)
        PROVE  TypeOK'
    <3>1. k \in Keys /\ SetOutcome(v).entry \in Slot
      BY GenericEntryTypes, PurgedType DEF Keys, TypeOK
    <3> QED BY <2>1, <3>1, RunType DEF Set
  <2>2. ASSUME NEW k \in GenericKeys,
               Get(k) \/ Delete(k) \/ Ttl(k)
                 \/ \E n \in ExpireSeconds, o \in ExpireOptions : Expire(k, n, o)
        PROVE  TypeOK'
    <3>1. k \in Keys /\ Purged(k) \in Slot /\ now \in Nat
      BY PurgedType DEF Keys, TypeOK
    <3> QED BY <2>2, <3>1, GenericEntryTypes, RunType DEF Get, Delete, Ttl, Expire
  <2>3. ASSUME NEW k \in SeatKeys, NEW u \in Users,
               ConfirmSeat(k, u) \/ ForceConfirmSeat(k, u) \/ ReleaseSeat(k, u)
                 \/ SeatStatusOf(k) \/ \E n \in HoldSeconds : ReserveSeat(k, u, n)
        PROVE  TypeOK'
    <3>1. k \in Keys /\ Purged(k) \in Slot /\ store[k] \in Slot /\ now \in Nat
      BY PurgedType DEF Keys, TypeOK
    <3>2. Outcome(store[k], Error).entry \in Slot
      BY <3>1 DEF Outcome
    <3> QED BY <2>3, <3>1, <3>2, SeatEntryTypes, RunType
            DEF ConfirmSeat, ForceConfirmSeat, ReleaseSeat, SeatStatusOf, ReserveSeat
  <2>4. ASSUME NEW k \in SeatKeys, SeatStatusOf(k)
        PROVE  TypeOK'
    <3>1. k \in Keys /\ StatusOutcome(Purged(k), now).entry \in Slot
      BY PurgedType DEF Keys, StatusOutcome, Typed, Outcome
    <3> QED BY <2>4, <3>1, RunType DEF SeatStatusOf
  <2>5. ASSUME NEW k \in QueueKeys, NEW u \in Users,
               JoinQueue(k, u) \/ QueuePosition(k, u) \/ LeaveQueue(k, u)
        PROVE  TypeOK'
    <3>1. k \in Keys /\ store[k] \in Slot
      BY PurgedType DEF Keys
    <3> QED BY <2>5, <3>1, QueueEntryTypes, RunType
            DEF JoinQueue, QueuePosition, LeaveQueue
  <2>6. ASSUME NEW k \in QueueKeys, PopQueue(k) \/ PeekQueue(k)
        PROVE  TypeOK'
    <3>1. k \in Keys /\ store[k] \in Slot
      BY PurgedType DEF Keys
    <3>2. PopOutcome(store[k]).entry \in Slot /\ PeekOutcome(store[k]).entry \in Slot
      BY <3>1, QueueEntryTypes
    <3> QED BY <2>6, <3>1, <3>2, RunType DEF PopQueue, PeekQueue
  <2>7. CASE Snapshot \/ LoadSnapshot
    BY <2>7, LiveType DEF Snapshot, LoadSnapshot, TypeOK
  <2>8. CASE Tick \/ UNCHANGED vars
    BY <2>8 DEF Tick, TypeOK, vars
  <2> QED BY <2>1, <2>2, <2>3, <2>4, <2>5, <2>6, <2>7, <2>8
          DEF Next, GenericCommand, SeatCommand, QueueCommand
<1> QED BY <1>1, <1>2, PTL DEF Spec

-----------------------------------------------------------------------------
(* Lazy expiration implements eager expiration. *)

(* No queue key carries a deadline, in the dict or in a snapshot.          *)
QueuesPersist ==
  \A k \in QueueKeys :
    /\ store[k] # NoEntry => store[k].expires_at = Persistent
    /\ saved[k] # NoEntry => saved[k].expires_at = Persistent

(* The commands of the two specifications are the same operators. *)
LEMMA SameGeneric ==
  /\ Eager!Keys = Keys /\ Eager!ExpireOptions = ExpireOptions
  /\ \A e, t : Eager!Fresh(e, t) = Fresh(e, t)
  /\ \A c, k, a, r : Eager!Reply(c, k, a, r) = Reply(c, k, a, r)
  /\ \A v : Eager!SetOutcome(v) = SetOutcome(v)
  /\ \A e : Eager!GetOutcome(e) = GetOutcome(e)
  /\ \A e : Eager!DeleteOutcome(e) = DeleteOutcome(e)
  /\ \A e, t, n, o : Eager!ExpireOutcome(e, t, n, o) = ExpireOutcome(e, t, n, o)
  /\ \A e, t : Eager!TtlOutcome(e, t) = TtlOutcome(e, t)
BY Zenon DEF Eager!Keys, Keys, Eager!ExpireOptions, ExpireOptions,
  Eager!Fresh, Fresh, Eager!is_expired, is_expired, Eager!Persistent, Persistent,
  Eager!Reply, Reply, Eager!SetOutcome, SetOutcome, Eager!Outcome, Outcome,
  Eager!Plain, Plain, Eager!GetOutcome, GetOutcome, Eager!DeleteOutcome, DeleteOutcome,
  Eager!ExpireOutcome, ExpireOutcome, Eager!compute_deadline, compute_deadline,
  Eager!should_apply_expiry, should_apply_expiry,
  Eager!TtlOutcome, TtlOutcome, Eager!RemainingTtl, RemainingTtl

(* The same for the seat commands. *)
LEMMA SameSeat ==
  /\ \A e, r : Eager!Outcome(e, r) = Outcome(e, r)
  /\ Eager!Error = Error
  /\ \A e, t, u, n : Eager!ReserveOutcome(e, t, u, n) = ReserveOutcome(e, t, u, n)
  /\ \A e, t, u : Eager!ConfirmOutcome(e, t, u) = ConfirmOutcome(e, t, u)
  /\ \A u : Eager!ForceConfirmOutcome(u) = ForceConfirmOutcome(u)
  /\ \A e, t, u : Eager!ReleaseOutcome(e, t, u) = ReleaseOutcome(e, t, u)
  /\ \A e, t : Eager!StatusOutcome(e, t) = StatusOutcome(e, t)
BY Zenon DEF Eager!Outcome, Outcome, Eager!Error, Error, Eager!Typed, Typed,
  Eager!Decodes, Decodes, Eager!HasSeat, HasSeat, Eager!HeldBy, HeldBy,
  Eager!ConfirmedBy, ConfirmedBy, Eager!Held, Held, Eager!Confirmed, Confirmed,
  Eager!Persistent, Persistent, Eager!compute_deadline, compute_deadline,
  Eager!Available, Available, Eager!SeatStatus, SeatStatus,
  Eager!RemainingTtl, RemainingTtl, Eager!ReserveOutcome, ReserveOutcome,
  Eager!ConfirmOutcome, ConfirmOutcome, Eager!ForceConfirmOutcome, ForceConfirmOutcome,
  Eager!ReleaseOutcome, ReleaseOutcome, Eager!StatusOutcome, StatusOutcome

(* The same for the queue commands. *)
LEMMA SameQueue ==
  /\ \A e, u : Eager!JoinOutcome(e, u) = JoinOutcome(e, u)
  /\ \A e, u : Eager!PositionOutcome(e, u) = PositionOutcome(e, u)
  /\ \A e : Eager!PopOutcome(e) = PopOutcome(e)
  /\ \A e, u : Eager!LeaveOutcome(e, u) = LeaveOutcome(e, u)
  /\ \A e : Eager!PeekOutcome(e) = PeekOutcome(e)
<1>1. /\ \A e : Eager!QueueOf(e) = QueueOf(e)
      /\ \A q : Eager!StoredQueue(q) = StoredQueue(q)
  BY Zenon DEF Eager!QueueOf, QueueOf, Eager!StoredQueue, StoredQueue,
               Eager!Persistent, Persistent
<1>2. \A q, u : Eager!PositionIn(q, u) = PositionIn(q, u)
  BY Zenon DEF Eager!PositionIn, PositionIn, Eager!SelectInSeq, SelectInSeq,
               Eager!Min, Min
<1>3. \A e, y, o : Eager!Typed(e, y, o) = Typed(e, y, o)
  BY Zenon DEF Eager!Outcome, Outcome, Eager!Error, Error, Eager!Typed, Typed,
               Eager!Decodes, Decodes
<1>4. \A e, r : Eager!Outcome(e, r) = Outcome(e, r)
  BY Zenon DEF Eager!Outcome, Outcome
<1> QED BY <1>1, <1>2, <1>3, <1>4, Zenon
        DEF Eager!JoinOutcome, JoinOutcome, Eager!PositionOutcome, PositionOutcome,
            Eager!PopOutcome, PopOutcome, Eager!LeaveOutcome, LeaveOutcome,
            Eager!PeekOutcome, PeekOutcome, Eager!RemoveAt, RemoveAt

(* A command that found a live entry leaves a live entry: new deadlines    *)
(* lie in the future.                                                      *)
LEMMA GenericStaysFresh ==
  ASSUME NEW e \in Slot, NEW t \in Nat, Fresh(e, t) = e
  PROVE  /\ \A v \in Literals : Fresh(SetOutcome(v).entry, t) = SetOutcome(v).entry
         /\ Fresh(GetOutcome(e).entry, t) = GetOutcome(e).entry
         /\ Fresh(DeleteOutcome(e).entry, t) = DeleteOutcome(e).entry
         /\ \A n \in Int : \A o : Fresh(ExpireOutcome(e, t, n, o).entry, t)
                                = ExpireOutcome(e, t, n, o).entry
         /\ Fresh(TtlOutcome(e, t).entry, t) = TtlOutcome(e, t).entry
<1>1. ASSUME NEW n \in Int, n > 0, e # NoEntry
      PROVE  LET f == [e EXCEPT !.expires_at = t + n] IN Fresh(f, t) = f
  <2>1. e \in Entry
    BY <1>1 DEF Slot
  <2>2. [e EXCEPT !.expires_at = t + n].expires_at = t + n
    BY <2>1 DEF Entry
  <2> QED BY <1>1, <2>2 DEF Fresh, is_expired
<1>2. Fresh(NoEntry, t) = NoEntry
  BY DEF Fresh
<1>3. \A n \in Int : \A o : Fresh(ExpireOutcome(e, t, n, o).entry, t)
                          = ExpireOutcome(e, t, n, o).entry
  BY <1>1, <1>2 DEF ExpireOutcome, Outcome, compute_deadline
<1>4. \A v \in Literals : Fresh(SetOutcome(v).entry, t) = SetOutcome(v).entry
  BY DEF SetOutcome, Outcome, Plain, Fresh
<1> QED BY <1>2, <1>3, <1>4 DEF GetOutcome, DeleteOutcome, TtlOutcome, Outcome

(* The same for the seat commands: a hold lasts at least a second. *)
LEMMA SeatStaysFresh ==
  ASSUME NEW e \in Slot, NEW t \in Nat, NEW u, Fresh(e, t) = e
  PROVE  /\ \A n \in Int : n > 0 => Fresh(ReserveOutcome(e, t, u, n).entry, t)
                                      = ReserveOutcome(e, t, u, n).entry
         /\ Fresh(ConfirmOutcome(e, t, u).entry, t) = ConfirmOutcome(e, t, u).entry
         /\ Fresh(ForceConfirmOutcome(u).entry, t) = ForceConfirmOutcome(u).entry
         /\ Fresh(ReleaseOutcome(e, t, u).entry, t) = ReleaseOutcome(e, t, u).entry
         /\ Fresh(StatusOutcome(e, t).entry, t) = StatusOutcome(e, t).entry
<1>1. /\ Fresh(NoEntry, t) = NoEntry
      /\ Fresh(Confirmed(u), t) = Confirmed(u)
      /\ \A n \in Int : n > 0 => Fresh(Held(u, t + n), t) = Held(u, t + n)
  BY DEF Fresh, Confirmed, Held, is_expired, Persistent
<1> QED BY <1>1 DEF ReserveOutcome, ConfirmOutcome, ForceConfirmOutcome,
                    ReleaseOutcome, StatusOutcome, Typed, Outcome, compute_deadline

(* The queue commands leave no deadline at all. *)
LEMMA QueueStaysPersistent ==
  ASSUME NEW e \in Slot, e # NoEntry => e.expires_at = Persistent
  PROVE  /\ LET f == PopOutcome(e).entry IN f # NoEntry => f.expires_at = Persistent
         /\ PeekOutcome(e).entry = e
         /\ \A u \in Users :
              /\ LET f == JoinOutcome(e, u).entry IN f # NoEntry => f.expires_at = Persistent
              /\ LET f == LeaveOutcome(e, u).entry IN f # NoEntry => f.expires_at = Persistent
              /\ PositionOutcome(e, u).entry = e
BY DEF JoinOutcome, PositionOutcome, PopOutcome, LeaveOutcome, PeekOutcome,
       Typed, Outcome, StoredQueue

(* A command on key k that leaves a live entry changes the live view of    *)
(* the dict exactly there.                                                 *)
LEMMA RunRefines ==
  ASSUME TypeOK, NEW cmd, NEW k \in Keys, NEW args, NEW out,
         Fresh(out.entry, now) = out.entry, Run(cmd, k, args, out)
  PROVE  Eager!Run(cmd, k, args, out)
<1>1. Live(store)' = [Live(store) EXCEPT ![k] = out.entry]
  <2>1. /\ Live(store)' = [j \in Keys |-> Fresh(store'[j], now')]
        /\ Live(store) = [j \in Keys |-> Fresh(store[j], now)]
    BY DEF Live
  <2> QED BY <2>1 DEF Run, TypeOK
<1>2. reply' = Eager!Reply(cmd, k, args, out.result)
  BY SameGeneric DEF Run
<1> QED BY <1>1, <1>2 DEF Run, Eager!Run

(* The refinement mapping at one key. *)
LEMMA LiveView ==
  ASSUME TypeOK, NEW k \in Keys
  PROVE  /\ Live(store)[k] = Purged(k)
         /\ Fresh(Purged(k), now) = Purged(k)
BY DEF Live, Purged, Fresh

(* A generic command refines its eager counterpart. *)
LEMMA GenericRefines ==
  ASSUME TypeOK, GenericCommand
  PROVE  \E k \in GenericKeys : Eager!Generic(k)
<1> USE TimeAssumption
<1>1. PICK k \in GenericKeys :
         \/ \E v \in Literals : Set(k, v)
         \/ Get(k)
         \/ Delete(k)
         \/ \E n \in ExpireSeconds, o \in ExpireOptions : Expire(k, n, o)
         \/ Ttl(k)
  BY DEF GenericCommand
<1>2. k \in Keys /\ Purged(k) \in Slot /\ now \in Nat
  BY PurgedType DEF Keys, TypeOK
<1>3. Fresh(Purged(k), now) = Purged(k) /\ Live(store)[k] = Purged(k)
  BY <1>2, LiveView
<1>4. CASE \E v \in Literals : Set(k, v)
  <2>1. PICK v \in Literals : Set(k, v)
    BY <1>4
  <2>2. Eager!Run("SET", k, <<v>>, SetOutcome(v))
    BY <1>2, <1>3, <2>1, GenericStaysFresh, RunRefines DEF Set
  <2> QED BY <2>2, SameGeneric DEF Eager!Generic
<1>5. CASE Get(k)
  <2>1. Eager!Run("GET", k, << >>, GetOutcome(Purged(k)))
    BY <1>2, <1>3, <1>5, GenericStaysFresh, RunRefines DEF Get
  <2> QED BY <1>3, <2>1, SameGeneric DEF Eager!Generic
<1>6. CASE Delete(k)
  <2>1. Eager!Run("DEL", k, << >>, DeleteOutcome(Purged(k)))
    BY <1>2, <1>3, <1>6, GenericStaysFresh, RunRefines DEF Delete
  <2> QED BY <1>3, <2>1, SameGeneric DEF Eager!Generic
<1>7. CASE \E n \in ExpireSeconds, o \in ExpireOptions : Expire(k, n, o)
  <2>1. PICK n \in ExpireSeconds, o \in ExpireOptions : Expire(k, n, o)
    BY <1>7
  <2>2. Eager!Run("EXPIRE", k, <<n, o>>, ExpireOutcome(Purged(k), now, n, o))
    BY <1>2, <1>3, <2>1, GenericStaysFresh, RunRefines DEF Expire
  <2> QED BY <1>3, <2>2, SameGeneric DEF Eager!Generic
<1>8. CASE Ttl(k)
  <2>1. Eager!Run("TTL", k, << >>, TtlOutcome(Purged(k), now))
    BY <1>2, <1>3, <1>8, GenericStaysFresh, RunRefines DEF Ttl
  <2> QED BY <1>3, <2>1, SameGeneric DEF Eager!Generic
<1> QED BY <1>1, <1>4, <1>5, <1>6, <1>7, <1>8

(* A seat command refines its eager counterpart. *)
LEMMA SeatRefines ==
  ASSUME TypeOK, SeatCommand
  PROVE  \E k \in SeatKeys : Eager!Seat(k)
<1> USE TimeAssumption
<1>1. PICK k \in SeatKeys :
         \/ \E u \in Users, n \in HoldSeconds : ReserveSeat(k, u, n)
         \/ \E u \in Users : ConfirmSeat(k, u)
         \/ \E u \in Users : ForceConfirmSeat(k, u)
         \/ \E u \in Users : ReleaseSeat(k, u)
         \/ SeatStatusOf(k)
  BY DEF SeatCommand
<1>2. k \in Keys /\ Purged(k) \in Slot /\ now \in Nat
  BY PurgedType DEF Keys, TypeOK
<1>3. Fresh(Purged(k), now) = Purged(k) /\ Live(store)[k] = Purged(k)
  BY <1>2, LiveView
<1>4. ASSUME NEW u \in Users, NEW n \in HoldSeconds, ReserveSeat(k, u, n)
      PROVE  Eager!Seat(k)
  <2>1. CASE n =< 0
    <3>1. Live(store)' = Live(store) /\ Live(store) \in [Keys -> Slot]
      BY <1>4, <2>1, LiveType DEF ReserveSeat, Run, Outcome, Live, TypeOK
    <3>2. Eager!Run("RESERVE_SEAT", k, <<u, n>>, Outcome(Live(store)[k], Error))
      BY <1>2, <1>4, <2>1, <3>1, SameGeneric
         DEF ReserveSeat, Run, Eager!Run, Outcome
    <3> QED BY <2>1, <3>2, SameSeat DEF Eager!Seat
  <2>2. CASE n > 0
    <3>1. Run("RESERVE_SEAT", k, <<u, n>>, ReserveOutcome(Purged(k), now, u, n))
      BY <1>4, <2>2 DEF ReserveSeat
    <3>2. Eager!Run("RESERVE_SEAT", k, <<u, n>>, ReserveOutcome(Purged(k), now, u, n))
      BY <1>2, <1>3, <2>2, <3>1, SeatStaysFresh, RunRefines
    <3> QED BY <1>3, <2>2, <3>2, SameSeat DEF Eager!Seat
  <2> QED BY <2>1, <2>2
<1>5. ASSUME NEW u \in Users, ConfirmSeat(k, u)
      PROVE  Eager!Seat(k)
  <2>1. Eager!Run("CONFIRM_SEAT", k, <<u>>, ConfirmOutcome(Purged(k), now, u))
    BY <1>2, <1>3, <1>5, SeatStaysFresh, RunRefines DEF ConfirmSeat
  <2> QED BY <1>3, <2>1, SameSeat DEF Eager!Seat
<1>6. ASSUME NEW u \in Users, ForceConfirmSeat(k, u)
      PROVE  Eager!Seat(k)
  <2>1. Eager!Run("FORCE_CONFIRM_SEAT", k, <<u>>, ForceConfirmOutcome(u))
    BY <1>2, <1>3, <1>6, SeatStaysFresh, RunRefines DEF ForceConfirmSeat
  <2> QED BY <1>3, <2>1, SameSeat DEF Eager!Seat
<1>7. ASSUME NEW u \in Users, ReleaseSeat(k, u)
      PROVE  Eager!Seat(k)
  <2>1. Eager!Run("RELEASE_SEAT", k, <<u>>, ReleaseOutcome(Purged(k), now, u))
    BY <1>2, <1>3, <1>7, SeatStaysFresh, RunRefines DEF ReleaseSeat
  <2> QED BY <1>3, <2>1, SameSeat DEF Eager!Seat
<1>8. ASSUME SeatStatusOf(k)
      PROVE  Eager!Seat(k)
  <2>1. Eager!Run("SEAT_STATUS", k, << >>, StatusOutcome(Purged(k), now))
    BY <1>2, <1>3, <1>8, SeatStaysFresh, RunRefines DEF SeatStatusOf
  <2> QED BY <1>3, <2>1, SameSeat DEF Eager!Seat
<1> QED BY <1>1, <1>4, <1>5, <1>6, <1>7, <1>8

(* A queue command on a persistent queue refines its eager counterpart. *)
LEMMA QueueRefines ==
  ASSUME TypeOK, QueuesPersist, QueueCommand
  PROVE  \E k \in QueueKeys : Eager!Queue(k)
<1>1. PICK k \in QueueKeys :
         \/ \E u \in Users : JoinQueue(k, u)
         \/ \E u \in Users : QueuePosition(k, u)
         \/ PopQueue(k)
         \/ \E u \in Users : LeaveQueue(k, u)
         \/ PeekQueue(k)
  BY DEF QueueCommand
<1>2. k \in Keys /\ store[k] \in Slot
  BY PurgedType DEF Keys
<1>3. store[k] # NoEntry => store[k].expires_at = Persistent
  BY DEF QueuesPersist
<1>4. \A f : (f # NoEntry => f.expires_at = Persistent) => Fresh(f, now) = f
  BY DEF Fresh
<1>5. Live(store)[k] = store[k] /\ Fresh(store[k], now) = store[k]
  BY <1>2, <1>3, <1>4 DEF Live
<1>6. ASSUME NEW u \in Users, JoinQueue(k, u)
      PROVE  Eager!Queue(k)
  <2>1. Eager!Run("JOIN_QUEUE", k, <<u>>, JoinOutcome(store[k], u))
    BY <1>2, <1>3, <1>4, <1>6, QueueStaysPersistent, RunRefines DEF JoinQueue
  <2> QED BY <1>5, <2>1, SameQueue DEF Eager!Queue
<1>7. ASSUME NEW u \in Users, QueuePosition(k, u)
      PROVE  Eager!Queue(k)
  <2>1. Eager!Run("QUEUE_POSITION", k, <<u>>, PositionOutcome(store[k], u))
    BY <1>2, <1>3, <1>4, <1>7, QueueStaysPersistent, RunRefines DEF QueuePosition
  <2> QED BY <1>5, <2>1, SameQueue DEF Eager!Queue
<1>8. ASSUME PopQueue(k)
      PROVE  Eager!Queue(k)
  <2>1. Eager!Run("POP_QUEUE", k, << >>, PopOutcome(store[k]))
    BY <1>2, <1>3, <1>4, <1>8, QueueStaysPersistent, RunRefines DEF PopQueue
  <2> QED BY <1>5, <2>1, SameQueue DEF Eager!Queue
<1>9. ASSUME NEW u \in Users, LeaveQueue(k, u)
      PROVE  Eager!Queue(k)
  <2>1. Eager!Run("LEAVE_QUEUE", k, <<u>>, LeaveOutcome(store[k], u))
    BY <1>2, <1>3, <1>4, <1>9, QueueStaysPersistent, RunRefines DEF LeaveQueue
  <2> QED BY <1>5, <2>1, SameQueue DEF Eager!Queue
<1>10. ASSUME PeekQueue(k)
      PROVE  Eager!Queue(k)
  <2>1. Eager!Run("PEEK_QUEUE", k, << >>, PeekOutcome(store[k]))
    BY <1>2, <1>3, <1>4, <1>10, QueueStaysPersistent, RunRefines DEF PeekQueue
  <2> QED BY <1>5, <2>1, SameQueue DEF Eager!Queue
<1> QED BY <1>1, <1>6, <1>7, <1>8, <1>9, <1>10

(* Expiration gives no entry a deadline. *)
LEMMA FreshKeepsPersistent ==
  ASSUME NEW e, NEW t, e # NoEntry => e.expires_at = Persistent
  PROVE  Fresh(e, t) # NoEntry => Fresh(e, t).expires_at = Persistent
BY DEF Fresh

(* Only EXPIRE could give a queue a deadline. *)
LEMMA QueuesStayPersistent ==
  ASSUME QueueKeys \cap GenericKeys = {}, TypeOK, QueuesPersist, [Next]_vars
  PROVE  QueuesPersist'
<1> USE KeysAssumption
<1>1. ASSUME NEW cmd, NEW k \in Keys \ QueueKeys, NEW args, NEW out, Run(cmd, k, args, out)
      PROVE  QueuesPersist'
  BY <1>1 DEF Run, QueuesPersist, TypeOK, Keys
<1>2. ASSUME NEW cmd, NEW k \in QueueKeys, NEW args, NEW out, Run(cmd, k, args, out),
             out.entry # NoEntry => out.entry.expires_at = Persistent
      PROVE  QueuesPersist'
  BY <1>2 DEF Run, QueuesPersist, TypeOK, Keys
<1>3. CASE GenericCommand
  <2>1. PICK k \in Keys \ QueueKeys : \E cmd, args, out : Run(cmd, k, args, out)
    BY <1>3 DEF GenericCommand, Set, Get, Delete, Expire, Ttl, Keys
  <2> QED BY <1>1, <2>1
<1>4. CASE SeatCommand
  <2>1. PICK k \in Keys \ QueueKeys : \E cmd, args, out : Run(cmd, k, args, out)
    BY <1>4 DEF SeatCommand, ReserveSeat, ConfirmSeat, ForceConfirmSeat, ReleaseSeat,
                SeatStatusOf, Keys
  <2> QED BY <1>1, <2>1
<1>5. CASE QueueCommand
  <2>1. PICK k \in QueueKeys :
           \/ \E u \in Users : JoinQueue(k, u) \/ QueuePosition(k, u) \/ LeaveQueue(k, u)
           \/ PopQueue(k) \/ PeekQueue(k)
    BY <1>5 DEF QueueCommand
  <2>2. store[k] \in Slot /\ (store[k] # NoEntry => store[k].expires_at = Persistent)
    BY PurgedType DEF Keys, QueuesPersist
  <2> QED BY <1>2, <2>1, <2>2, QueueStaysPersistent
          DEF JoinQueue, QueuePosition, LeaveQueue, PopQueue, PeekQueue
<1>6. CASE Snapshot \/ LoadSnapshot
  <2>1. \A k \in QueueKeys : Live(store)[k] = Fresh(store[k], now)
                               /\ Live(saved)[k] = Fresh(saved[k], now)
    BY DEF Live, Keys
  <2> QED BY <1>6, <2>1, FreshKeepsPersistent DEF Snapshot, LoadSnapshot, QueuesPersist
<1>7. CASE Tick \/ UNCHANGED vars
  BY <1>7 DEF Tick, vars, QueuesPersist
<1> QED BY <1>3, <1>4, <1>5, <1>6, <1>7 DEF Next

(* The engine, which removes an expired entry only when a command or a     *)
(* snapshot meets it, implements the store that removes it on time, for    *)
(* all keys, users and clock bounds, provided that clients never EXPIRE a  *)
(* queue key: no reply ever shows an expired entry.                        *)
THEOREM LazyExpirationIsUnobservable ==
  ASSUME QueueKeys \cap GenericKeys = {}
  PROVE  Spec => LazyImplementsEager
<1>1. Init => Eager!Init /\ QueuesPersist
  <2>1. Init => Live(store) = [k \in Keys |-> NoEntry]
    BY DEF Init, Live, Fresh
  <2>2. NoReply = Eager!NoReply
    BY SameGeneric DEF NoReply, Eager!NoReply
  <2> QED BY <2>1, <2>2, SameGeneric DEF Init, Eager!Init, QueuesPersist, Keys
<1>2. TypeOK /\ QueuesPersist /\ [Next]_vars => QueuesPersist'
  BY QueuesStayPersistent
<1>3. ASSUME TypeOK, QueuesPersist, [Next]_vars
      PROVE  [Eager!Next]_(Eager!vars)
  <2>1. CASE GenericCommand
    BY <1>3, <2>1, GenericRefines DEF Eager!Next
  <2>2. CASE SeatCommand
    BY <1>3, <2>2, SeatRefines DEF Eager!Next
  <2>3. CASE QueueCommand
    BY <1>3, <2>3, QueueRefines DEF Eager!Next
  <2>4. CASE Snapshot
    <3>1. Live(store)' = Live(store)
      BY <2>4 DEF Snapshot, Live, Fresh
    <3> QED BY <2>4, <3>1 DEF Snapshot, Eager!Snapshot, Eager!Next
  <2>5. CASE LoadSnapshot
    <3>1. Live(store)' = [k \in Keys |-> Fresh(saved[k], now)]
      BY <2>5 DEF LoadSnapshot, Live, Fresh
    <3> QED BY <2>5, <3>1, SameGeneric DEF LoadSnapshot, Eager!Restore, Eager!Next
  <2>6. CASE Tick
    <3>1. \A k \in Keys : Fresh(Fresh(store[k], now), now') = Fresh(store[k], now')
      BY <1>3, <2>6 DEF Tick, Fresh, is_expired, TypeOK, Slot, Entry, Persistent
    <3>2. Live(store)' = [k \in Keys |-> Fresh(Live(store)[k], now')]
      BY <2>6, <3>1 DEF Tick, Live
    <3> QED BY <2>6, <3>2, SameGeneric DEF Tick, Eager!Tick, Eager!Next
  <2>7. CASE UNCHANGED vars
    BY <2>7 DEF vars, Eager!vars, Live
  <2> QED BY <1>3, <2>1, <2>2, <2>3, <2>4, <2>5, <2>6, <2>7 DEF Next
<1> QED BY <1>1, <1>2, <1>3, TypeCorrect, PTL
        DEF Spec, LazyImplementsEager, Eager!Spec

-----------------------------------------------------------------------------
(* What the storage engine promises about queues, seats and deadlines, for *)
(* every set of keys and users, also where clients use the generic         *)
(* commands on queue keys.                                                 *)

(* Expiration leaves a queue alone or removes it whole. *)
LEMMA FreshQueue ==
  ASSUME NEW e, NEW t
  PROVE  QueueOf(Fresh(e, t)) = QueueOf(e) \/ QueueOf(Fresh(e, t)) = << >>
BY DEF Fresh, QueueOf

(* SET, GET, DEL, EXPIRE and TTL leave a queue alone or remove it whole. *)
LEMMA GenericQueue ==
  ASSUME NEW e \in Slot, NEW t
  PROVE  /\ \A v : QueueOf(SetOutcome(v).entry) = << >>
         /\ QueueOf(GetOutcome(e).entry) = QueueOf(e)
         /\ QueueOf(DeleteOutcome(e).entry) = << >>
         /\ \A n, o : \/ QueueOf(ExpireOutcome(e, t, n, o).entry) = QueueOf(e)
                      \/ QueueOf(ExpireOutcome(e, t, n, o).entry) = << >>
         /\ QueueOf(TtlOutcome(e, t).entry) = QueueOf(e)
<1>1. QueueOf(NoEntry) = << >>
  BY DEF QueueOf
<1>2. ASSUME NEW d, e # NoEntry
      PROVE  QueueOf([e EXCEPT !.expires_at = d]) \in {QueueOf(e), << >>}
  <2>1. e \in Entry
    BY <1>2 DEF Slot
  <2>2. [e EXCEPT !.expires_at = d].value = e.value
    BY <2>1 DEF Entry
  <2> QED BY <1>2, <2>2 DEF QueueOf
<1>3. \A v : QueueOf(SetOutcome(v).entry) = << >>
  BY DEF SetOutcome, Outcome, Plain, QueueOf
<1> QED BY <1>1, <1>2, <1>3 DEF GetOutcome, DeleteOutcome, ExpireOutcome, TtlOutcome, Outcome

(* What a queue command makes of the queue q that it finds: join_queue     *)
(* appends a user who is not in it, pop_queue drops the head, leave_queue  *)
(* drops one member, and the others change nothing.                        *)
Joined(q, r)  == \E u \in Users : (\A i \in 1..Len(q) : q[i] # u) /\ r = Append(q, u)
Popped(q, r)  == q # << >> /\ r = Tail(q)
Left(q, r)    == \E p \in 1..Len(q) : r = RemoveAt(q, p)

(* A queue command changes the queue it decodes in no other way. *)
LEMMA QueueOutcomes ==
  ASSUME NEW e \in Slot, NEW u \in Users
  PROVE  /\ \/ QueueOf(JoinOutcome(e, u).entry) = QueueOf(e)
            \/ Joined(QueueOf(e), QueueOf(JoinOutcome(e, u).entry))
         /\ QueueOf(PositionOutcome(e, u).entry) = QueueOf(e)
         /\ \/ QueueOf(LeaveOutcome(e, u).entry) = QueueOf(e)
            \/ Left(QueueOf(e), QueueOf(LeaveOutcome(e, u).entry))
<1> DEFINE q == QueueOf(e)
           p == PositionIn(q, u)
<1>1. q \in Seq(Users)
  BY QueueOfType
<1>2. /\ p \in 0..Len(q)
      /\ p = 0 => \A i \in 1..Len(q) : q[i] # u
  BY <1>1, PositionProperties
<1>3. CASE ~Decodes(e, "queue")
  BY <1>3 DEF JoinOutcome, PositionOutcome, LeaveOutcome, Typed, Outcome
<1>4. CASE Decodes(e, "queue")
  <2>1. PositionOutcome(e, u).entry = e
    BY <1>4 DEF PositionOutcome, Typed, Outcome
  <2>2. CASE p = 0
    <3>1. JoinOutcome(e, u).entry = StoredQueue(Append(q, u)) /\ LeaveOutcome(e, u).entry = e
      BY <1>4, <2>2 DEF JoinOutcome, LeaveOutcome, Typed, Outcome
    <3>2. Append(q, u) \in Seq(Users)
      BY <1>1
    <3>3. QueueOf(StoredQueue(Append(q, u))) = Append(q, u)
      BY <3>2, StoredQueueType
    <3> QED BY <1>2, <2>1, <2>2, <3>1, <3>3 DEF Joined
  <2>3. CASE p # 0
    <3>1. p \in 1..Len(q) /\ p > 0
      BY <1>1, <1>2, <2>3
    <3>2. JoinOutcome(e, u).entry = e /\ LeaveOutcome(e, u).entry = StoredQueue(RemoveAt(q, p))
      BY <1>4, <2>3, <3>1 DEF JoinOutcome, LeaveOutcome, Typed, Outcome
    <3>3. RemoveAt(q, p) \in Seq(Users)
      BY <1>1, <3>1, RemoveAtType
    <3>4. QueueOf(StoredQueue(RemoveAt(q, p))) = RemoveAt(q, p)
      BY <3>3, StoredQueueType
    <3> QED BY <2>1, <3>1, <3>2, <3>4 DEF Left
  <2> QED BY <2>2, <2>3
<1> QED BY <1>3, <1>4

(* The same for the queue commands that name no user. *)
LEMMA PopOutcomes ==
  ASSUME NEW e \in Slot
  PROVE  /\ \/ QueueOf(e) = << >> /\ QueueOf(PopOutcome(e).entry) = << >>
            \/ Popped(QueueOf(e), QueueOf(PopOutcome(e).entry))
         /\ QueueOf(PeekOutcome(e).entry) = QueueOf(e)
<1> DEFINE q == QueueOf(e)
<1>1. q \in Seq(Users)
  BY QueueOfType
<1>2. PeekOutcome(e).entry = e
  BY DEF PeekOutcome, Typed, Outcome
<1>3. CASE q = << >>
  <2>1. PopOutcome(e).entry = e
    BY <1>3 DEF PopOutcome, Typed, Outcome
  <2> QED BY <1>2, <1>3, <2>1
<1>4. CASE q # << >>
  <2>1. Decodes(e, "queue")
    BY <1>4 DEF Decodes, QueueOf
  <2>2. PopOutcome(e).entry = StoredQueue(Tail(q))
    BY <1>4, <2>1 DEF PopOutcome, Typed, Outcome
  <2>3. Tail(q) \in Seq(Users)
    BY <1>1, <1>4
  <2>4. QueueOf(StoredQueue(Tail(q))) = Tail(q)
    BY <2>3, StoredQueueType
  <2> QED BY <1>2, <1>4, <2>2, <2>4 DEF Popped
<1> QED BY <1>3, <1>4

-----------------------------------------------------------------------------
(* How queue q may become queue r in a step other than a restart. *)
QueueStep(q, r) == r = q \/ r = << >> \/ Joined(q, r) \/ Popped(q, r) \/ Left(q, r)

(* Every step of the engine treats every queue so, whatever clients send,  *)
(* and a snapshot saves a queue of the dict whole or not at all.           *)
LEMMA EveryQueueStep ==
  ASSUME TypeOK, [Next]_vars, NEW k \in QueueKeys
  PROVE  /\ \/ QueueStep(Waiting(k), Waiting(k)')
            \/ LoadSnapshot /\ Waiting(k)' \in {QueueOf(saved[k]), << >>}
         /\ QueueOf(saved'[k]) \in {QueueOf(saved[k]), Waiting(k), << >>}
<1> USE KeysAssumption
<1>1. k \in Keys /\ store[k] \in Slot /\ Purged(k) \in Slot
  BY PurgedType DEF Keys
<1>2. ASSUME NEW cmd, NEW j \in Keys, NEW args, NEW out, Run(cmd, j, args, out), j # k
      PROVE  Waiting(k)' = Waiting(k) /\ saved' = saved
  BY <1>1, <1>2 DEF Run, Waiting, TypeOK
<1>3. ASSUME NEW cmd, NEW args, NEW out, Run(cmd, k, args, out)
      PROVE  Waiting(k)' = QueueOf(out.entry) /\ saved' = saved
  BY <1>1, <1>3 DEF Run, Waiting, TypeOK
<1>4. CASE GenericCommand
  <2>1. PICK j \in GenericKeys : \/ \E v \in Literals : Set(j, v)
                                 \/ Get(j)
                                 \/ Delete(j)
                                 \/ \E n \in ExpireSeconds, o \in ExpireOptions : Expire(j, n, o)
                                 \/ Ttl(j)
    BY <1>4 DEF GenericCommand
  <2>2. CASE j # k
    <3>1. j \in Keys /\ \E cmd, args, out : Run(cmd, j, args, out)
      BY <2>1 DEF Set, Get, Delete, Expire, Ttl, Keys
    <3> QED BY <1>2, <2>2, <3>1 DEF QueueStep
  <2>3. CASE j = k
    <3>1. QueueOf(Purged(k)) \in {Waiting(k), << >>}
      BY FreshQueue DEF Purged, Waiting
    <3>2. /\ Waiting(k)' \in {QueueOf(Purged(k)), << >>}
          /\ saved' = saved
      <4>1. ASSUME NEW v \in Literals, Set(k, v)
            PROVE  Waiting(k)' = << >> /\ saved' = saved
        BY <1>1, <1>3, <4>1, GenericQueue DEF Set
      <4>2. ASSUME NEW n \in ExpireSeconds, NEW o \in ExpireOptions, Expire(k, n, o)
            PROVE  Waiting(k)' \in {QueueOf(Purged(k)), << >>} /\ saved' = saved
        BY <1>1, <1>3, <4>2, GenericQueue DEF Expire
      <4>3. CASE Get(k) \/ Delete(k) \/ Ttl(k)
        BY <1>1, <1>3, <4>3, GenericQueue DEF Get, Delete, Ttl
      <4> QED BY <2>1, <2>3, <4>1, <4>2, <4>3
    <3> QED BY <3>1, <3>2 DEF QueueStep
  <2> QED BY <2>2, <2>3
<1>5. CASE SeatCommand
  <2>1. PICK j \in SeatKeys : \E cmd, args, out : Run(cmd, j, args, out)
    BY <1>5 DEF SeatCommand, ReserveSeat, ConfirmSeat, ForceConfirmSeat, ReleaseSeat, SeatStatusOf
  <2>2. j \in Keys /\ j # k
    BY DEF Keys
  <2> QED BY <1>2, <2>1, <2>2 DEF QueueStep
<1>6. CASE QueueCommand
  <2>1. PICK j \in QueueKeys :
           \/ \E u \in Users : JoinQueue(j, u) \/ QueuePosition(j, u) \/ LeaveQueue(j, u)
           \/ PopQueue(j) \/ PeekQueue(j)
    BY <1>6 DEF QueueCommand
  <2>2. CASE j # k
    <3>1. j \in Keys /\ \E cmd, args, out : Run(cmd, j, args, out)
      BY <2>1 DEF JoinQueue, QueuePosition, LeaveQueue, PopQueue, PeekQueue, Keys
    <3> QED BY <1>2, <2>2, <3>1 DEF QueueStep
  <2>3. CASE j = k
    <3>1. CASE PopQueue(k) \/ PeekQueue(k)
      BY <1>1, <1>3, <3>1, PopOutcomes DEF PopQueue, PeekQueue, QueueStep, Waiting
    <3>2. ASSUME NEW u \in Users, JoinQueue(k, u) \/ QueuePosition(k, u) \/ LeaveQueue(k, u)
          PROVE  QueueStep(Waiting(k), Waiting(k)') /\ saved' = saved
      BY <1>1, <1>3, <3>2, QueueOutcomes
         DEF JoinQueue, QueuePosition, LeaveQueue, QueueStep, Waiting
    <3> QED BY <2>1, <2>3, <3>1, <3>2
  <2> QED BY <2>2, <2>3
<1>7. CASE Snapshot \/ LoadSnapshot
  <2>1. Live(store)[k] = Fresh(store[k], now) /\ Live(saved)[k] = Fresh(saved[k], now)
    BY <1>1 DEF Live
  <2> QED BY <1>7, <2>1, FreshQueue DEF Snapshot, LoadSnapshot, QueueStep, Waiting
<1>8. CASE Tick \/ UNCHANGED vars
  BY <1>8 DEF Tick, vars, QueueStep, Waiting
<1> QED BY <1>4, <1>5, <1>6, <1>7, <1>8 DEF Next

(* In a queue without duplicates a step puts nobody twice and changes the  *)
(* order of no two users.                                                  *)
LEMMA QueueStepKeepsOrder ==
  ASSUME NEW q \in Seq(Users), NEW r, IsInjective(q), QueueStep(q, r)
  PROVE  /\ IsInjective(r)
         /\ \A u, v \in Users : Before(q, u, v) => ~Before(r, v, u)
<1> USE DEF IsInjective
<1>1. DOMAIN q = 1..Len(q) /\ Len(q) \in Nat
  OBVIOUS
<1>2. CASE r = q
  BY <1>1, <1>2 DEF Before
<1>3. CASE r = << >>
  BY <1>3 DEF Before
<1>4. CASE Joined(q, r)
  <2>1. PICK w \in Users : (\A i \in 1..Len(q) : q[i] # w) /\ r = Append(q, w)
    BY <1>4 DEF Joined
  <2>2. /\ DOMAIN r = 1..(Len(q) + 1)
        /\ \A i \in 1..Len(q) : r[i] = q[i]
        /\ r[Len(q) + 1] = w
    BY <2>1
  <2>3. \A i \in DOMAIN r : i \in 1..Len(q) \/ i = Len(q) + 1
    BY <1>1, <2>2
  <2>4. IsInjective(r)
    BY <1>1, <2>1, <2>2, <2>3
  <2>5. ASSUME NEW u \in Users, NEW v \in Users, Before(q, u, v), Before(r, v, u)
        PROVE  FALSE
    <3>1. PICK i, j \in 1..Len(q) : i < j /\ q[i] = u /\ q[j] = v
      BY <1>1, <2>5 DEF Before
    <3>2. PICK a, b \in DOMAIN r : a < b /\ r[a] = v /\ r[b] = u
      BY <2>5 DEF Before
    <3>3. a \in 1..Len(q) /\ b \in 1..Len(q)
      BY <2>1, <2>2, <2>3, <3>1, <3>2
    <3> QED BY <1>1, <2>2, <3>1, <3>2, <3>3
  <2> QED BY <2>4, <2>5
<1>5. ASSUME NEW p \in 1..Len(q), Len(r) = Len(q) - 1, r \in Seq(Users),
             \A i \in 1..(Len(q) - 1) : r[i] = IF i < p THEN q[i] ELSE q[i + 1]
      PROVE  /\ IsInjective(r)
             /\ \A u, v \in Users : Before(q, u, v) => ~Before(r, v, u)
  <2> DEFINE f(i) == IF i < p THEN i ELSE i + 1
  <2>1. DOMAIN r = 1..(Len(q) - 1)
    BY <1>5
  <2>2. \A i \in DOMAIN r : f(i) \in 1..Len(q) /\ r[i] = q[f(i)]
    BY <1>1, <1>5, <2>1
  <2>3. \A i, j \in DOMAIN r : (f(i) = f(j) => i = j) /\ (i < j => f(i) < f(j))
    BY <1>1, <1>5, <2>1
  <2>4. \A i \in DOMAIN r : i \in Int
    BY <1>1, <2>1
  <2> HIDE DEF f
  <2>5. IsInjective(r)
    BY <1>1, <2>2, <2>3
  <2>6. ASSUME NEW u \in Users, NEW v \in Users, Before(q, u, v), Before(r, v, u)
        PROVE  FALSE
    <3>1. PICK i, j \in 1..Len(q) : i < j /\ q[i] = u /\ q[j] = v
      BY <1>1, <2>6 DEF Before
    <3>2. PICK a, b \in DOMAIN r : a < b /\ r[a] = v /\ r[b] = u
      BY <2>6 DEF Before
    <3>3. /\ f(a) \in 1..Len(q) /\ f(b) \in 1..Len(q) /\ f(a) < f(b)
          /\ q[f(a)] = v /\ q[f(b)] = u
      BY <2>2, <2>3, <3>2
    <3>4. f(a) = j /\ f(b) = i
      BY <1>1, <3>1, <3>3
    <3> QED BY <1>1, <3>1, <3>3, <3>4
  <2> QED BY <2>5, <2>6
<1>6. CASE Popped(q, r)
  <2>1. r = Tail(q) /\ 1 \in 1..Len(q)
    BY <1>1, <1>6 DEF Popped
  <2>2. r \in Seq(Users) /\ Len(r) = Len(q) - 1 /\ \A i \in 1..(Len(q) - 1) : r[i] = q[i + 1]
    BY <1>6, <2>1 DEF Popped
  <2>3. \A i \in 1..(Len(q) - 1) : r[i] = IF i < 1 THEN q[i] ELSE q[i + 1]
    BY <1>1, <2>2
  <2> QED BY <1>5, <2>1, <2>2, <2>3
<1>7. CASE Left(q, r)
  <2>1. PICK p \in 1..Len(q) : r = RemoveAt(q, p)
    BY <1>7 DEF Left
  <2> QED BY <1>5, <2>1, RemoveAtType
<1> QED BY <1>2, <1>3, <1>4, <1>6, <1>7 DEF QueueStep

-----------------------------------------------------------------------------
(* Nobody waits twice in a queue of the dict or of the last snapshot: the  *)
(* second half is needed because a restart makes the saved queues current. *)
QueueInv == /\ TypeOK
            /\ QueueNoDuplicates
            /\ \A k \in QueueKeys : IsInjective(QueueOf(saved[k]))

(* Each step preserves that. *)
LEMMA QueueInvStep ==
  ASSUME QueueInv, [Next]_vars, TypeOK'
  PROVE  QueueInv'
<1>1. IsInjective(<< >>)
  BY DEF IsInjective
<1>2. ASSUME NEW k \in QueueKeys
      PROVE  IsInjective(Waiting(k)') /\ IsInjective(QueueOf(saved'[k]))
  <2>1. /\ Waiting(k) \in Seq(Users) /\ IsInjective(Waiting(k)) /\ IsInjective(QueueOf(saved[k]))
    BY QueueOfType DEF QueueInv, QueueNoDuplicates, TypeOK, Waiting, Keys
  <2>2. /\ \/ QueueStep(Waiting(k), Waiting(k)')
           \/ Waiting(k)' \in {QueueOf(saved[k]), << >>}
        /\ QueueOf(saved'[k]) \in {QueueOf(saved[k]), Waiting(k), << >>}
    BY EveryQueueStep DEF QueueInv
  <2>3. QueueStep(Waiting(k), Waiting(k)') => IsInjective(Waiting(k)')
    BY <2>1, QueueStepKeepsOrder
  <2> QED BY <1>1, <2>1, <2>2, <2>3
<1> QED BY <1>2 DEF QueueInv, QueueNoDuplicates

(* The invariant holds in every reachable state. *)
LEMMA QueueInvariance == Spec => []QueueInv
<1>1. Init /\ TypeOK => QueueInv
  BY DEF Init, QueueInv, QueueNoDuplicates, Waiting, QueueOf, IsInjective, Keys
<1>2. QueueInv /\ [Next]_vars /\ TypeOK' => QueueInv'
  BY QueueInvStep
<1> QED BY <1>1, <1>2, TypeCorrect, PTL DEF Spec

(* No user ever waits twice in one queue, for every set of users and       *)
(* queues: join_queue's lookup is enough, through pops, leaves, EXPIRE and *)
(* DEL on the queue key, and restarts from a snapshot.                     *)
THEOREM NobodyWaitsTwice == Spec => []QueueNoDuplicates
<1>1. QueueInv => QueueNoDuplicates
  BY DEF QueueInv
<1> QED BY <1>1, QueueInvariance, PTL

(* Queues are first come, first served, for every set of users and queues: *)
(* no command lets a waiting user overtake another, and POP_QUEUE leaves   *)
(* the later of two users in the queue.                                    *)
THEOREM FirstComeFirstServed == Spec => NobodyOvertakes
<1>1. ASSUME QueueInv, [Next]_vars, NEW k \in QueueKeys, NEW u \in Users, NEW v \in Users,
             Before(Waiting(k), u, v), ~LoadSnapshot
      PROVE  /\ ~Before(Waiting(k)', v, u)
             /\ PopQueue(k) => Contains(Waiting(k)', v)
  <2>1. /\ Waiting(k) \in Seq(Users) /\ IsInjective(Waiting(k))
        /\ store[k] \in Slot /\ k \in Keys /\ TypeOK
    BY <1>1, QueueOfType DEF QueueInv, QueueNoDuplicates, TypeOK, Waiting, Keys
  <2>2. QueueStep(Waiting(k), Waiting(k)')
    BY <1>1, <2>1, EveryQueueStep
  <2>3. ~Before(Waiting(k)', v, u)
    BY <1>1, <2>1, <2>2, QueueStepKeepsOrder
  <2>4. ASSUME PopQueue(k) PROVE Contains(Waiting(k)', v)
    <3>1. Waiting(k)' = QueueOf(PopOutcome(store[k]).entry)
      BY <2>1, <2>4 DEF PopQueue, Run, Waiting, TypeOK
    <3>2. PICK i, j \in 1..Len(Waiting(k)) : i < j /\ Waiting(k)[j] = v
      BY <1>1, <2>1 DEF Before
    <3>3. Waiting(k) # << >>
      BY <2>1, <3>2
    <3>4. Waiting(k)' = Tail(Waiting(k))
      BY <2>1, <3>1, <3>3, PopOutcomes DEF Popped, Waiting
    <3>5. j - 1 \in 1..Len(Tail(Waiting(k))) /\ Tail(Waiting(k))[j - 1] = v
      BY <2>1, <3>2, <3>3
    <3> QED BY <3>4, <3>5 DEF Contains
  <2> QED BY <2>3, <2>4
<1>2. QueueInv /\ [Next]_vars =>
        [\A k \in QueueKeys, u, v \in Users :
           (Before(Waiting(k), u, v) /\ ~LoadSnapshot)
           => /\ ~Before(Waiting(k)', v, u)
              /\ PopQueue(k) => Contains(Waiting(k)', v)]_vars
  BY <1>1
<1> QED BY <1>2, QueueInvariance, PTL DEF Spec, NobodyOvertakes

-----------------------------------------------------------------------------
(* Seats and deadlines. *)

(* Expiration at the same time twice is expiration once. *)
LEMMA FreshTwice ==
  ASSUME NEW e, NEW t
  PROVE  Fresh(Fresh(e, t), t) = Fresh(e, t)
BY DEF Fresh

(* Every step on a seat key that no client uses in a generic command is a  *)
(* seat command on it, or leaves its visible entry alone, or lets it       *)
(* expire, or is a restart.                                                *)
LEMMA EverySeatStep ==
  ASSUME TypeOK, [Next]_vars, NEW k \in SeatKeys \ GenericKeys
  PROVE  \/ Visible(k)' = Visible(k)
         \/ \E u \in Users, n \in HoldSeconds : ReserveSeat(k, u, n)
         \/ \E u \in Users : ConfirmSeat(k, u) \/ ForceConfirmSeat(k, u) \/ ReleaseSeat(k, u)
         \/ /\ now' > now /\ store' = store
            /\ store[k] # NoEntry => store[k].expires_at # Persistent
            /\ store[k] # NoEntry => is_expired(store[k].expires_at, now')
         \/ LoadSnapshot
<1> USE KeysAssumption
<1>1. k \in Keys /\ store[k] \in Slot /\ k \notin QueueKeys
  BY PurgedType DEF Keys
<1>2. ASSUME NEW cmd, NEW j \in Keys, NEW args, NEW out, Run(cmd, j, args, out), j # k
      PROVE  Visible(k)' = Visible(k)
  BY <1>1, <1>2 DEF Run, Visible, TypeOK
<1>3. CASE GenericCommand
  <2>1. PICK j \in GenericKeys : \E cmd, args, out : Run(cmd, j, args, out)
    BY <1>3 DEF GenericCommand, Set, Get, Delete, Expire, Ttl
  <2> QED BY <1>2, <2>1 DEF Keys
<1>4. CASE QueueCommand
  <2>1. PICK j \in QueueKeys : \E cmd, args, out : Run(cmd, j, args, out)
    BY <1>4 DEF QueueCommand, JoinQueue, QueuePosition, LeaveQueue, PopQueue, PeekQueue
  <2> QED BY <1>1, <1>2, <2>1 DEF Keys
<1>5. CASE SeatCommand
  <2>1. PICK j \in SeatKeys :
           \/ \E u \in Users, n \in HoldSeconds : ReserveSeat(j, u, n)
           \/ \E u \in Users : ConfirmSeat(j, u) \/ ForceConfirmSeat(j, u) \/ ReleaseSeat(j, u)
           \/ SeatStatusOf(j)
    BY <1>5 DEF SeatCommand
  <2>2. CASE j # k
    <3>1. j \in Keys /\ \E cmd, args, out : Run(cmd, j, args, out)
      BY <2>1 DEF ReserveSeat, ConfirmSeat, ForceConfirmSeat, ReleaseSeat, SeatStatusOf, Keys
    <3> QED BY <1>2, <2>2, <3>1
  <2>3. CASE SeatStatusOf(k)
    <3>1. StatusOutcome(Purged(k), now).entry = Purged(k)
      BY DEF StatusOutcome, Typed, Outcome
    <3>2. store'[k] = Purged(k) /\ now' = now
      BY <1>1, <2>3, <3>1 DEF SeatStatusOf, Run, TypeOK
    <3> QED BY <3>2, FreshTwice DEF Purged, Visible
  <2> QED BY <2>1, <2>2, <2>3
<1>6. CASE Snapshot
  <2>1. store'[k] = Fresh(store[k], now) /\ now' = now
    BY <1>1, <1>6 DEF Snapshot, Live
  <2> QED BY <2>1, FreshTwice DEF Visible
<1>7. CASE LoadSnapshot
  BY <1>7
<1>8. CASE Tick
  <2>1. now \in Nat /\ now' = now + 1 /\ store' = store
    BY <1>8 DEF Tick, TypeOK
  <2>2. CASE store[k] = NoEntry
    BY <2>1, <2>2 DEF Visible, Fresh
  <2>3. CASE store[k] # NoEntry
    <3>1. store[k].expires_at \in Int
      BY <1>1, <2>3 DEF Slot, Entry, Persistent
    <3> QED BY <2>1, <2>3, <3>1 DEF Visible, Fresh, is_expired
  <2> QED BY <2>2, <2>3
<1>9. CASE UNCHANGED vars
  BY <1>9 DEF vars, Visible
<1> QED BY <1>3, <1>4, <1>5, <1>6, <1>7, <1>8, <1>9 DEF Next

(* What the seat commands of user v make of a seat held by user u. *)
LEMMA SeatOutcomes ==
  ASSUME NEW e \in Slot, NEW t \in Nat, NEW v \in Users, Fresh(e, t) = e
  PROVE  /\ \A n \in Int, u \in Users : (n > 0 /\ HeldBy(e, u)) =>
              HeldBy(Fresh(ReserveOutcome(e, t, v, n).entry, t), u)
         /\ \A n \in Int, u \in Users : ConfirmedBy(e, u) => ReserveOutcome(e, t, v, n).entry = e
         /\ \A u \in Users : (HeldBy(e, u) /\ u # v) => /\ ConfirmOutcome(e, t, v).entry = e
                                                       /\ ReleaseOutcome(e, t, v).entry = e
         /\ \A u \in Users : ConfirmedBy(e, u) => /\ ConfirmOutcome(e, t, v).entry = e
                                               /\ ReleaseOutcome(e, t, v).entry = e
<1> USE DEF HeldBy, ConfirmedBy, HasSeat
<1>1. ASSUME NEW n \in Int, NEW u \in Users, n > 0, HeldBy(e, u)
      PROVE  HeldBy(Fresh(ReserveOutcome(e, t, v, n).entry, t), u)
  <2>1. CASE u = v
    <3>1. ReserveOutcome(e, t, v, n).entry = Held(u, t + n)
      BY <1>1, <2>1 DEF ReserveOutcome, Typed, Decodes, Outcome, compute_deadline
    <3>2. Held(u, t + n) \in Entry
      BY <1>1 DEF Held, Entry, Value, SeatValue
    <3>3. HeldBy(Held(u, t + n), u)
      BY <3>2, NoneAssumption DEF Held
    <3>4. Fresh(Held(u, t + n), t) = Held(u, t + n)
      BY <1>1 DEF Fresh, Held, is_expired
    <3> QED BY <3>1, <3>3, <3>4
  <2>2. CASE u # v
    <3>1. ReserveOutcome(e, t, v, n).entry = e
      BY <1>1, <2>2 DEF ReserveOutcome, Typed, Outcome
    <3> QED BY <1>1, <3>1
  <2> QED BY <2>1, <2>2
<1>2. ASSUME NEW n \in Int, NEW u \in Users, ConfirmedBy(e, u)
      PROVE  ReserveOutcome(e, t, v, n).entry = e
  BY <1>2 DEF ReserveOutcome, Typed, Outcome
<1>3. ASSUME NEW u \in Users, ConfirmedBy(e, u) \/ (HeldBy(e, u) /\ u # v)
      PROVE  ConfirmOutcome(e, t, v).entry = e /\ ReleaseOutcome(e, t, v).entry = e
  BY <1>3 DEF ConfirmOutcome, ReleaseOutcome, Typed, Outcome
<1> QED BY <1>1, <1>2, <1>3

(* A seat command on k shows what it leaves there. *)
LEMMA SeatCommandShows ==
  ASSUME TypeOK, NEW cmd, NEW k \in Keys, NEW args, NEW out, Run(cmd, k, args, out)
  PROVE  Visible(k)' = Fresh(out.entry, now)
BY DEF Run, Visible, TypeOK

(* A RESERVE_SEAT leaves a held seat with its holder and a sold one with   *)
(* its buyer; so do CONFIRM_SEAT and RELEASE_SEAT of other users.          *)
LEMMA SeatCommandKeeps ==
  ASSUME TypeOK, NEW k \in Keys, NEW v \in Users, NEW u \in Users
  PROVE  /\ \A n \in HoldSeconds : ReserveSeat(k, v, n) =>
              /\ HeldBy(Visible(k), u) => HeldBy(Visible(k)', u)
              /\ ConfirmedBy(Visible(k), u) => ConfirmedBy(Visible(k)', u)
         /\ (ConfirmSeat(k, v) \/ ReleaseSeat(k, v)) =>
              /\ (HeldBy(Visible(k), u) /\ u # v) => HeldBy(Visible(k)', u)
              /\ ConfirmedBy(Visible(k), u) => ConfirmedBy(Visible(k)', u)
<1> USE TimeAssumption
<1>1. /\ Visible(k) = Purged(k) /\ Fresh(store[k], now) = Visible(k)
      /\ Purged(k) \in Slot /\ Fresh(Purged(k), now) = Purged(k) /\ now \in Nat
  BY PurgedType, FreshTwice DEF Visible, Purged, TypeOK
<1>2. ASSUME NEW n \in HoldSeconds, ReserveSeat(k, v, n)
      PROVE  /\ HeldBy(Visible(k), u) => HeldBy(Visible(k)', u)
             /\ ConfirmedBy(Visible(k), u) => ConfirmedBy(Visible(k)', u)
  <2>1. CASE n =< 0
    <3>1. Visible(k)' = Fresh(Outcome(store[k], Error).entry, now)
      BY <1>2, <2>1, SeatCommandShows DEF ReserveSeat
    <3>2. Visible(k)' = Visible(k)
      BY <1>1, <3>1 DEF Outcome
    <3> QED BY <3>2
  <2>2. CASE n > 0
    <3>1. Visible(k)' = Fresh(ReserveOutcome(Purged(k), now, v, n).entry, now)
      BY <1>2, <2>2, SeatCommandShows DEF ReserveSeat
    <3> QED BY <1>1, <2>2, <3>1, SeatOutcomes
  <2> QED BY <2>1, <2>2
<1>3. ASSUME ConfirmSeat(k, v) \/ ReleaseSeat(k, v)
      PROVE  /\ (HeldBy(Visible(k), u) /\ u # v) => HeldBy(Visible(k)', u)
             /\ ConfirmedBy(Visible(k), u) => ConfirmedBy(Visible(k)', u)
  <2>1. \/ Visible(k)' = Fresh(ConfirmOutcome(Purged(k), now, v).entry, now)
        \/ Visible(k)' = Fresh(ReleaseOutcome(Purged(k), now, v).entry, now)
    BY <1>3, SeatCommandShows DEF ConfirmSeat, ReleaseSeat
  <2>2. \A e : e = Purged(k) => Fresh(e, now) = Visible(k)
    BY <1>1
  <2> QED BY <1>1, <2>1, <2>2, SeatOutcomes
<1> QED BY <1>2, <1>3

(* A live hold ends only by its holder's CONFIRM or RELEASE, a             *)
(* FORCE_CONFIRM, its deadline or a restart, for every set of keys and     *)
(* users and every clock: no command of another user takes the seat.       *)
THEOREM HoldsAreProtected == Spec => HoldProtected
<1>1. ASSUME TypeOK, [Next]_vars, NEW k \in SeatKeys \ GenericKeys, NEW u \in Users,
             HeldBy(Visible(k), u), ~HeldBy(Visible(k)', u)
      PROVE  \/ ConfirmSeat(k, u)
             \/ ReleaseSeat(k, u)
             \/ \E v \in Users : ForceConfirmSeat(k, v)
             \/ now' > now /\ is_expired(store[k].expires_at, now')
             \/ LoadSnapshot
  <2>1. k \in Keys /\ store[k] # NoEntry
    BY <1>1 DEF Keys, Visible, Fresh, HeldBy, HasSeat
  <2>2. Visible(k)' # Visible(k)
    BY <1>1
  <2> QED BY <1>1, <2>1, <2>2, EverySeatStep, SeatCommandKeeps
<1>2. TypeOK /\ [Next]_vars =>
        [\A k \in SeatKeys \ GenericKeys, u \in Users :
           (HeldBy(Visible(k), u) /\ ~HeldBy(Visible(k)', u))
           => \/ ConfirmSeat(k, u)
              \/ ReleaseSeat(k, u)
              \/ \E v \in Users : ForceConfirmSeat(k, v)
              \/ now' > now /\ is_expired(store[k].expires_at, now')
              \/ LoadSnapshot]_vars
  BY <1>1
<1> QED BY <1>2, TypeCorrect, PTL DEF Spec, HoldProtected

(* A sale carries no deadline, in the dict and in a snapshot: this is what *)
(* keeps it from expiring.                                                 *)
SaleLasts(e) == (\E u \in Users : ConfirmedBy(e, u)) => e.expires_at = Persistent
SalesPersist == \A k \in SeatKeys \ GenericKeys : SaleLasts(store[k]) /\ SaleLasts(saved[k])

(* No seat command gives a sale a deadline: a hold gets one, a sale none.  *)
LEMMA SeatEntriesLast ==
  ASSUME NEW e \in Slot, NEW t, NEW v \in Users, SaleLasts(e)
  PROVE  /\ \A n : SaleLasts(ReserveOutcome(e, t, v, n).entry)
         /\ SaleLasts(ConfirmOutcome(e, t, v).entry)
         /\ SaleLasts(ForceConfirmOutcome(v).entry)
         /\ SaleLasts(ReleaseOutcome(e, t, v).entry)
<1>1. SaleLasts(NoEntry) /\ SaleLasts(Confirmed(v)) /\ \A d : SaleLasts(Held(v, d))
  BY DEF SaleLasts, ConfirmedBy, HasSeat, Confirmed, Held
<1> QED BY <1>1 DEF ReserveOutcome, ConfirmOutcome, ForceConfirmOutcome, ReleaseOutcome,
                    Typed, Outcome

(* Every step keeps sales free of deadlines where no client uses EXPIRE. *)
LEMMA SalesStayPersistent ==
  ASSUME TypeOK, SalesPersist, [Next]_vars
  PROVE  SalesPersist'
<1> SUFFICES ASSUME NEW k \in SeatKeys \ GenericKeys
             PROVE  SaleLasts(store'[k]) /\ SaleLasts(saved'[k])
  BY DEF SalesPersist, SaleLasts
<1> USE KeysAssumption
<1>1. /\ k \in Keys /\ k \notin QueueKeys /\ store[k] \in Slot /\ Purged(k) \in Slot
      /\ SaleLasts(store[k]) /\ SaleLasts(saved[k])
  BY PurgedType DEF Keys, SalesPersist
<1>2. \A e, t : SaleLasts(e) => SaleLasts(Fresh(e, t))
  BY DEF SaleLasts, Fresh, ConfirmedBy, HasSeat
<1>3. ASSUME NEW cmd, NEW j \in Keys, NEW args, NEW out, Run(cmd, j, args, out),
             j # k \/ SaleLasts(out.entry)
      PROVE  SaleLasts(store'[k]) /\ SaleLasts(saved'[k])
  BY <1>1, <1>3 DEF Run, TypeOK
<1>4. CASE GenericCommand
  <2>1. PICK j \in GenericKeys : \E cmd, args, out : Run(cmd, j, args, out)
    BY <1>4 DEF GenericCommand, Set, Get, Delete, Expire, Ttl
  <2> QED BY <1>3, <2>1 DEF Keys
<1>5. CASE QueueCommand
  <2>1. PICK j \in QueueKeys : \E cmd, args, out : Run(cmd, j, args, out)
    BY <1>5 DEF QueueCommand, JoinQueue, QueuePosition, LeaveQueue, PopQueue, PeekQueue
  <2> QED BY <1>1, <1>3, <2>1 DEF Keys
<1>6. CASE SeatCommand
  <2>1. PICK j \in SeatKeys :
           \/ \E u \in Users, n \in HoldSeconds : ReserveSeat(j, u, n)
           \/ \E u \in Users : ConfirmSeat(j, u) \/ ForceConfirmSeat(j, u) \/ ReleaseSeat(j, u)
           \/ SeatStatusOf(j)
    BY <1>6 DEF SeatCommand
  <2>2. CASE j # k
    <3>1. j \in Keys /\ \E cmd, args, out : Run(cmd, j, args, out)
      BY <2>1 DEF ReserveSeat, ConfirmSeat, ForceConfirmSeat, ReleaseSeat, SeatStatusOf, Keys
    <3> QED BY <1>3, <2>2, <3>1
  <2>3. CASE j = k
    <3>1. SaleLasts(Purged(k))
      BY <1>1, <1>2 DEF Purged
    <3>2. CASE SeatStatusOf(k)
      <4>1. SaleLasts(StatusOutcome(Purged(k), now).entry)
        BY <3>1 DEF StatusOutcome, Typed, Outcome
      <4> QED BY <1>1, <1>3, <3>2, <4>1 DEF SeatStatusOf
    <3>3. ASSUME NEW u \in Users, NEW n \in HoldSeconds, ReserveSeat(k, u, n)
          PROVE  SaleLasts(store'[k]) /\ SaleLasts(saved'[k])
      <4>1. SaleLasts(Outcome(store[k], Error).entry)
        BY <1>1 DEF Outcome
      <4> QED BY <1>1, <1>3, <3>1, <3>3, <4>1, SeatEntriesLast DEF ReserveSeat
    <3>4. ASSUME NEW u \in Users, ConfirmSeat(k, u) \/ ForceConfirmSeat(k, u) \/ ReleaseSeat(k, u)
          PROVE  SaleLasts(store'[k]) /\ SaleLasts(saved'[k])
      BY <1>1, <1>3, <3>1, <3>4, SeatEntriesLast DEF ConfirmSeat, ForceConfirmSeat, ReleaseSeat
    <3> QED BY <2>1, <2>3, <3>2, <3>3, <3>4
  <2> QED BY <2>2, <2>3
<1>7. CASE Snapshot \/ LoadSnapshot
  <2>1. Live(store)[k] = Fresh(store[k], now) /\ Live(saved)[k] = Fresh(saved[k], now)
    BY <1>1 DEF Live
  <2> QED BY <1>1, <1>2, <1>7, <2>1 DEF Snapshot, LoadSnapshot
<1>8. CASE Tick \/ UNCHANGED vars
  BY <1>1, <1>8 DEF Tick, vars
<1> QED BY <1>4, <1>5, <1>6, <1>7, <1>8 DEF Next

(* A sold seat stays with its buyer unless a FORCE_CONFIRM names the seat  *)
(* or the server restarts from a snapshot, for every set of keys and users *)
(* and every clock.                                                        *)
THEOREM SalesAreKept == Spec => ConfirmedIsKept
<1>1. Init => SalesPersist
  BY DEF Init, SalesPersist, SaleLasts, ConfirmedBy, HasSeat, Keys
<1>2. TypeOK /\ SalesPersist /\ [Next]_vars => SalesPersist'
  BY SalesStayPersistent
<1>3. ASSUME TypeOK, SalesPersist, [Next]_vars,
             NEW k \in SeatKeys \ GenericKeys, NEW u \in Users,
             ConfirmedBy(Visible(k), u), ~ConfirmedBy(Visible(k)', u)
      PROVE  (\E v \in Users : ForceConfirmSeat(k, v)) \/ LoadSnapshot
  <2>1. k \in Keys /\ store[k] # NoEntry /\ ConfirmedBy(store[k], u)
    BY <1>3 DEF Keys, Visible, Fresh, ConfirmedBy, HasSeat
  <2>2. store[k].expires_at = Persistent
    BY <1>3, <2>1 DEF SalesPersist, SaleLasts
  <2>3. Visible(k)' # Visible(k)
    BY <1>3
  <2> QED BY <1>3, <2>1, <2>2, <2>3, EverySeatStep, SeatCommandKeeps
<1>4. TypeOK /\ SalesPersist /\ [Next]_vars =>
        [\A k \in SeatKeys \ GenericKeys, u \in Users :
           (ConfirmedBy(Visible(k), u) /\ ~ConfirmedBy(Visible(k)', u))
           => \/ \E v \in Users : ForceConfirmSeat(k, v)
              \/ LoadSnapshot]_vars
  BY <1>3
<1> QED BY <1>1, <1>2, <1>4, TypeCorrect, PTL DEF Spec, ConfirmedIsKept

(* EXPIRE GT never shortens and EXPIRE LT never lengthens the life of a    *)
(* key, for every clock value and every number of seconds, zero and        *)
(* negative ones included.                                                 *)
THEOREM ExpireOptionsHold == Spec => ExpireHonoursOption
<1> USE TimeAssumption
<1>1. ASSUME TypeOK, NEW k \in GenericKeys, NEW n \in ExpireSeconds, NEW o, Expire(k, n, o)
      PROVE  /\ o = "GT" => Outlives(Visible(k)', Visible(k))
             /\ o = "LT" => Outlives(Visible(k), Visible(k)')
  <2> DEFINE e == Purged(k)
             f == ExpireOutcome(e, now, n, o).entry
  <2>1. k \in Keys /\ Visible(k) = e /\ e \in Slot /\ now \in Nat /\ n \in Int
    BY <1>1, PurgedType DEF Keys, Visible, Purged, TypeOK
  <2>2. Visible(k)' = Fresh(f, now)
    BY <1>1, <2>1, SeatCommandShows DEF Expire
  <2>3. Fresh(e, now) = e
    BY FreshTwice DEF Purged
  <2>4. Fresh(f, now) = f
    BY <2>1, <2>3, GenericStaysFresh
  <2>5. CASE e = NoEntry \/ ~should_apply_expiry(o, e.expires_at, now + n)
    <3>1. f = e
      BY <2>5 DEF ExpireOutcome, Outcome, compute_deadline
    <3>2. e # NoEntry => e.expires_at \in Int
      BY <2>1 DEF Slot, Entry, Persistent
    <3> QED BY <2>1, <2>2, <2>4, <3>1, <3>2 DEF Outlives
  <2>6. CASE e # NoEntry /\ should_apply_expiry(o, e.expires_at, now + n)
    <3>1. e \in Entry /\ e.expires_at \in Int
      BY <2>1, <2>6 DEF Slot, Entry, Persistent
    <3>2. e.expires_at # Persistent => e.expires_at > now
      BY <2>1, <2>3, <2>6, <3>1 DEF Fresh, is_expired
    <3>3. CASE n =< 0
      <4>1. f = NoEntry
        BY <2>6, <3>3 DEF ExpireOutcome, Outcome, compute_deadline
      <4>2. o # "GT"
        BY <2>1, <2>6, <3>1, <3>2, <3>3 DEF should_apply_expiry
      <4> QED BY <2>2, <2>4, <4>1, <4>2 DEF Outlives
    <3>4. CASE n > 0
      <4>1. f = [e EXCEPT !.expires_at = now + n]
        BY <2>1, <2>6, <3>4 DEF ExpireOutcome, Outcome, compute_deadline
      <4>2. f \in Entry /\ f.expires_at = now + n
        BY <2>1, <3>1, <3>4, <4>1 DEF Entry
      <4>3. f # NoEntry /\ f.expires_at # Persistent
        BY <2>1, <3>4, <4>2, NoneAssumption DEF Persistent
      <4> HIDE DEF e, f
      <4> QED BY <2>1, <2>2, <2>4, <2>6, <3>1, <4>2, <4>3 DEF Outlives, should_apply_expiry
    <3> QED BY <2>1, <3>3, <3>4
  <2> QED BY <2>5, <2>6
<1>2. TypeOK /\ [Next]_vars =>
        [\A k \in GenericKeys, n \in ExpireSeconds :
           /\ Expire(k, n, "GT") => Outlives(Visible(k)', Visible(k))
           /\ Expire(k, n, "LT") => Outlives(Visible(k), Visible(k)')]_vars
  BY <1>1
<1> QED BY <1>2, TypeCorrect, PTL DEF Spec, ExpireHonoursOption
=============================================================================
