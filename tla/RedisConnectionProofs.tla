----------------------- MODULE RedisConnectionProofs ------------------------
(***************************************************************************)
(* Proofs about RedisConnection: types, the use of the lock, and the       *)
(* streams of requests, for any threads, commands, answers and cuts.       *)
(***************************************************************************)
EXTENDS RedisConnection, RESPProofs, FiniteSetTheorems

(* The types of a connection and of a call whose results are in Results. *)
Conn ==
  [c2s : Seq(Byte), s2c : Seq(Byte), buffer : Seq(Byte),
   state : {"open", "fin", "eof", "reset"}, sent : Seq(Nat), executed : Seq(DOMAIN Answer),
   garbled : BOOLEAN, lagging : BOOLEAN]
Call(Results) ==
  [pc : {"idle", "lock", "send", "read"}, id : Nat, attempt : {1, 2}, buffer : Seq(Byte),
   clean : BOOLEAN, result : Results]

Types ==
  /\ peer \in {"app_server", "raw_client"}
  /\ issued \in Seq(DOMAIN Answer)
  /\ holder \in Threads \cup {None}
  /\ conns \in Seq(Conn)
  /\ current \in 0..Len(conns)
  /\ faults \in 0..MaxFaults /\ cuts \in 0..MaxCuts
  /\ \E Results : thread \in [Threads -> Call(Results)]

(* Only the holder of the lock uses the connection; only the commands of   *)
(* a thread are sent for it.                                               *)
CallOK(t) ==
  /\ thread[t].pc \in {"send", "read"} <=> holder = t
  /\ thread[t].pc \in {"send", "read"} => current # 0
  /\ thread[t].pc = "lock" => thread[t].attempt = 1
  /\ thread[t].buffer # <<>> => thread[t].pc = "read"
  /\ thread[t].id \in 0..Len(issued)
  /\ thread[t].pc # "idle" => /\ peer = "app_server"
                              /\ thread[t].id # 0 /\ issued[thread[t].id] \in Calls[t]
                              /\ thread[t].result = [tag |-> "none"]
  /\ peer = "raw_client" => thread[t] = NoCall

Control ==
  /\ \A t \in Threads : CallOK(t)
  /\ \A c \in DOMAIN conns : conns[c].state = "fin" => c # current

(* A connection or a call is changed, and the others are not. *)
Changed(c, y) ==
  /\ conns' \in Seq(Conn) /\ Len(conns') = Len(conns)
  /\ conns'[c] = y
  /\ \A k \in 1..Len(conns) : k # c => conns'[k] = conns[k]
Moved(t, z) ==
  /\ \E Results : thread' \in [Threads -> Call(Results)]
  /\ thread'[t] = z
  /\ \A u \in Threads : u # t => thread'[u] = thread[u]

(* A connection is added. *)
Added ==
  /\ conns' \in Seq(Conn) /\ Len(conns') = Len(conns) + 1
  /\ conns'[Len(conns) + 1] = NewConn
  /\ \A k \in 1..Len(conns) : conns'[k] = conns[k]

(* One connection is closed and another added. *)
Replaced(c, y) ==
  /\ conns' \in Seq(Conn) /\ Len(conns') = Len(conns) + 1
  /\ conns'[Len(conns) + 1] = NewConn
  /\ conns'[c] = y
  /\ \A k \in 1..Len(conns) : k # c => conns'[k] = conns[k]

(* What the steps make of a connection. *)
Close(x) == [x EXCEPT !.state = IF @ = "open" THEN "fin" ELSE "reset", !.s2c = <<>>]
Lag(x) == [x EXCEPT !.lagging = TRUE]
Commanded(x, id, bytes) == [x EXCEPT !.c2s = @ \o bytes, !.sent = Append(@, id)]
Fetched(x, n) == [x EXCEPT !.s2c = SubSeq(@, n + 1, Len(@))]
Received(x, n) == [x EXCEPT !.buffer = @ \o SubSeq(x.c2s, 1, n), !.c2s = SubSeq(@, n + 1, Len(@))]
Out(x, bytes) == IF x.state = "open" THEN x.s2c \o bytes ELSE x.s2c
Done(x, frame) == [x EXCEPT !.s2c = Out(x, EncodeReply(AnswerTo(frame.value))),
                            !.buffer = SubSeq(@, frame.next, Len(@)),
                            !.executed = IF x.garbled THEN @ ELSE Append(@, frame.value)]
Failed(x) == [x EXCEPT !.s2c = Out(x, EncodeReply(ErrorReply)), !.buffer = <<>>, !.garbled = TRUE]
Left(x) == [x EXCEPT !.state = "reset", !.c2s = <<>>, !.buffer = <<>>]
Stopped(x) == [x EXCEPT !.state = "eof", !.c2s = <<>>, !.buffer = <<>>]
Dead(x) == [x EXCEPT !.state = "reset", !.c2s = <<>>, !.s2c = <<>>]

(* A sequence of connections with one of them replaced. *)
LEMMA PutConn ==
  ASSUME NEW S, NEW s \in Seq(S), NEW c \in 1..Len(s), NEW y \in S
  PROVE  /\ [s EXCEPT ![c] = y] \in Seq(S) /\ Len([s EXCEPT ![c] = y]) = Len(s)
         /\ [s EXCEPT ![c] = y][c] = y
         /\ \A k \in 1..Len(s) : k # c => [s EXCEPT ![c] = y][k] = s[k]
OBVIOUS

(* A sequence of connections and another one. *)
LEMMA AddConn ==
  ASSUME NEW S, NEW s \in Seq(S), NEW y \in S
  PROVE  /\ Append(s, y) \in Seq(S) /\ Len(Append(s, y)) = Len(s) + 1
         /\ Append(s, y)[Len(s) + 1] = y
         /\ \A k \in 1..Len(s) : Append(s, y)[k] = s[k]
OBVIOUS

(* A new connection. *)
LEMMA NewConnType == NewConn \in Conn
<1>1. <<>> \in Seq(Byte) /\ <<>> \in Seq(Nat) /\ <<>> \in Seq(DOMAIN Answer)
  OBVIOUS
<1> QED BY <1>1 DEF NewConn, Conn

(* One of the calls replaced. *)
LEMMA PutCall ==
  ASSUME NEW R, thread \in [Threads -> Call(R)], NEW t \in Threads, NEW Q, NEW z \in Call(Q),
         thread' = [thread EXCEPT ![t] = z]
  PROVE  Moved(t, z)
<1>1. \A u \in Threads : thread[u] \in Call(R \cup Q)
  BY DEF Call
<1>2. z \in Call(R \cup Q)
  BY DEF Call
<1>3. thread' \in [Threads -> Call(R \cup Q)]
  BY <1>1, <1>2
<1> QED BY <1>3 DEF Moved

(* execute() ends. *)
LEMMA EndCall ==
  ASSUME Types, NEW t \in Threads, NEW r, End(t, r)
  PROVE  /\ holder' = None
         /\ Moved(t, [thread[t] EXCEPT !.pc = "idle", !.buffer = <<>>, !.result = r])
<1>1. PICK R : thread \in [Threads -> Call(R)]
  BY DEF Types
<1> DEFINE z == [thread[t] EXCEPT !.pc = "idle", !.buffer = <<>>, !.result = r]
<1>2. z \in Call(R \cup {r})
  <2>1. thread[t] \in Call(R) /\ <<>> \in Seq(Byte)
    BY <1>1
  <2> QED BY <2>1 DEF Call
<1>3. thread' = [thread EXCEPT ![t] = z]
  BY <1>1 DEF End, Call
<1> HIDE DEF z
<1>4. Moved(t, z)
  BY <1>1, <1>2, <1>3, PutCall
<1> QED BY <1>4 DEF z, End

(* Closing keeps what the server has read and what is on its way. *)
LEMMA CloseFacts ==
  ASSUME NEW x \in Conn
  PROVE  /\ Close(x) \in Conn
         /\ Close(x).c2s = x.c2s /\ Close(x).s2c = <<>> /\ Close(x).buffer = x.buffer
         /\ x.state = "open" => Close(x).state = "fin"
         /\ x.state # "open" => Close(x).state = "reset"
         /\ Close(x).sent = x.sent /\ Close(x).executed = x.executed
         /\ Close(x).garbled = x.garbled /\ Close(x).lagging = x.lagging
<1>1. <<>> \in Seq(Byte)
  OBVIOUS
<1> QED BY <1>1 DEF Close, Conn

(* A call that gives up changes nothing of the streams. *)
LEMMA LagFacts ==
  ASSUME NEW x \in Conn
  PROVE  /\ Lag(x) \in Conn
         /\ Lag(x).c2s = x.c2s /\ Lag(x).s2c = x.s2c /\ Lag(x).buffer = x.buffer
         /\ Lag(x).state = x.state
         /\ Lag(x).sent = x.sent /\ Lag(x).executed = x.executed
         /\ Lag(x).garbled = x.garbled /\ Lag(x).lagging
BY DEF Lag, Conn

(* A command is sent. *)
LEMMA CommandedFacts ==
  ASSUME NEW x \in Conn, NEW id \in Nat, NEW bytes \in Seq(Byte)
  PROVE  LET y == Commanded(x, id, bytes)
         IN /\ y \in Conn
            /\ y.c2s = x.c2s \o bytes /\ y.s2c = x.s2c /\ y.buffer = x.buffer
            /\ y.state = x.state
            /\ y.sent = Append(x.sent, id) /\ y.executed = x.executed
            /\ y.garbled = x.garbled /\ y.lagging = x.lagging
<1>1. x.c2s \o bytes \in Seq(Byte) /\ Append(x.sent, id) \in Seq(Nat)
  BY DEF Conn
<1> QED BY <1>1 DEF Commanded, Conn

(* The client reads. *)
LEMMA FetchedFacts ==
  ASSUME NEW x \in Conn, NEW n \in 1..Len(x.s2c)
  PROVE  LET y == Fetched(x, n)
         IN /\ y \in Conn
            /\ y.c2s = x.c2s /\ y.s2c = SubSeq(x.s2c, n + 1, Len(x.s2c)) /\ y.buffer = x.buffer
            /\ y.state = x.state
            /\ y.sent = x.sent /\ y.executed = x.executed
            /\ y.garbled = x.garbled /\ y.lagging = x.lagging
<1>1. SubSeq(x.s2c, n + 1, Len(x.s2c)) \in Seq(Byte)
  BY DEF Conn
<1> QED BY <1>1 DEF Fetched, Conn

(* The server reads. *)
LEMMA ReceivedFacts ==
  ASSUME NEW x \in Conn, NEW n \in 1..Len(x.c2s)
  PROVE  LET y == Received(x, n)
         IN /\ y \in Conn
            /\ y.c2s = SubSeq(x.c2s, n + 1, Len(x.c2s)) /\ y.s2c = x.s2c
            /\ y.buffer = x.buffer \o SubSeq(x.c2s, 1, n)
            /\ y.state = x.state
            /\ y.sent = x.sent /\ y.executed = x.executed
            /\ y.garbled = x.garbled /\ y.lagging = x.lagging
<1>1. /\ SubSeq(x.c2s, n + 1, Len(x.c2s)) \in Seq(Byte)
      /\ SubSeq(x.c2s, 1, n) \in Seq(Byte)
  BY DEF Conn
<1>2. x.buffer \o SubSeq(x.c2s, 1, n) \in Seq(Byte)
  BY <1>1 DEF Conn
<1> QED BY <1>1, <1>2 DEF Received, Conn

(* The bytes of an answer. *)
LEMMA OutFacts ==
  ASSUME NEW x \in Conn, NEW a, IsReply(a)
  PROVE  Out(x, EncodeReply(a)) \in Seq(Byte)
<1>1. EncodeReply(a) \in Seq(Byte)
  BY ReplyBytes
<1> HIDE DEF EncodeReply
<1>2. x.s2c \o EncodeReply(a) \in Seq(Byte)
  BY <1>1 DEF Conn
<1> QED BY <1>2 DEF Out, Conn

(* Every answer is a reply. *)
LEMMA AnswerReply ==
  /\ \A c : IsReply(AnswerTo(c))
  /\ IsReply(ErrorReply)
  /\ \A c \in DOMAIN Answer : AnswerTo(c) = Answer[c]
<1>1. IsReply(ErrorReply)
  BY Zenon DEF IsReply
<1>2. \A c \in DOMAIN Answer : IsReply(Answer[c])
  BY AnswersAssumption
<1> HIDE DEF IsReply, ErrorReply
<1> QED BY <1>1, <1>2 DEF AnswerTo

(* A command is executed and answered. *)
LEMMA DoneFacts ==
  ASSUME NEW x \in Conn, NEW frame, frame.next \in 1..(Len(x.buffer) + 1),
         ~x.garbled => frame.value \in DOMAIN Answer
  PROVE  LET y == Done(x, frame)
         IN /\ y \in Conn
            /\ y.c2s = x.c2s /\ y.s2c = Out(x, EncodeReply(AnswerTo(frame.value)))
            /\ y.buffer = SubSeq(x.buffer, frame.next, Len(x.buffer))
            /\ y.state = x.state /\ y.sent = x.sent
            /\ x.garbled => y.executed = x.executed
            /\ ~x.garbled => y.executed = Append(x.executed, frame.value)
            /\ y.garbled = x.garbled /\ y.lagging = x.lagging
<1> DEFINE s == Out(x, EncodeReply(AnswerTo(frame.value)))
<1>1. s \in Seq(Byte)
  <2> DEFINE a == AnswerTo(frame.value)
  <2>1. IsReply(a)
    BY AnswerReply
  <2> HIDE DEF a
  <2>2. Out(x, EncodeReply(a)) \in Seq(Byte)
    BY <2>1, OutFacts
  <2> QED BY <2>2 DEF a
<1>2. SubSeq(x.buffer, frame.next, Len(x.buffer)) \in Seq(Byte)
  BY DEF Conn
<1>3. ~x.garbled => Append(x.executed, frame.value) \in Seq(DOMAIN Answer)
  BY DEF Conn
<1> HIDE DEF s
<1>4. Done(x, frame) = [x EXCEPT !.s2c = s, !.buffer = SubSeq(@, frame.next, Len(@)),
                                 !.executed = IF x.garbled THEN @ ELSE Append(@, frame.value)]
  BY DEF Done, s
<1>5. /\ x.executed \in Seq(DOMAIN Answer)
      /\ (IF x.garbled THEN x.executed ELSE Append(x.executed, frame.value)) \in Seq(DOMAIN Answer)
  BY <1>3 DEF Conn
<1>6. LET y == Done(x, frame)
      IN /\ y \in Conn
         /\ y.c2s = x.c2s /\ y.s2c = s
         /\ y.buffer = SubSeq(x.buffer, frame.next, Len(x.buffer))
         /\ y.state = x.state /\ y.sent = x.sent
         /\ y.executed = IF x.garbled THEN x.executed ELSE Append(x.executed, frame.value)
         /\ y.garbled = x.garbled /\ y.lagging = x.lagging
  BY <1>1, <1>2, <1>4, <1>5 DEF Conn
<1> QED BY <1>6 DEF s

(* Bytes that are no command are answered with an error. *)
LEMMA FailedFacts ==
  ASSUME NEW x \in Conn
  PROVE  LET y == Failed(x)
         IN /\ y \in Conn
            /\ y.c2s = x.c2s /\ y.s2c = Out(x, EncodeReply(ErrorReply)) /\ y.buffer = <<>>
            /\ y.state = x.state /\ y.sent = x.sent /\ y.executed = x.executed
            /\ y.garbled /\ y.lagging = x.lagging
<1> DEFINE s == Out(x, EncodeReply(ErrorReply))
<1>1. s \in Seq(Byte) /\ <<>> \in Seq(Byte)
  <2> DEFINE a == ErrorReply
  <2>1. IsReply(a)
    BY AnswerReply
  <2> HIDE DEF a
  <2>2. Out(x, EncodeReply(a)) \in Seq(Byte)
    BY <2>1, OutFacts
  <2> QED BY <2>2 DEF a
<1> HIDE DEF s
<1>2. Failed(x) = [x EXCEPT !.s2c = s, !.buffer = <<>>, !.garbled = TRUE]
  BY DEF Failed, s
<1>3. LET y == Failed(x)
      IN /\ y \in Conn
         /\ y.c2s = x.c2s /\ y.s2c = s /\ y.buffer = <<>>
         /\ y.state = x.state /\ y.sent = x.sent /\ y.executed = x.executed
         /\ y.garbled /\ y.lagging = x.lagging
  BY <1>1, <1>2 DEF Conn
<1> QED BY <1>3 DEF s

(* The server drops what it has not read, or the connection breaks. *)
LEMMA EndingFacts ==
  ASSUME NEW x \in Conn
  PROVE  /\ Left(x) \in Conn /\ Stopped(x) \in Conn /\ Dead(x) \in Conn
         /\ Left(x).state = "reset" /\ Stopped(x).state = "eof" /\ Dead(x).state = "reset"
         /\ Left(x).buffer = <<>> /\ Stopped(x).buffer = <<>> /\ Dead(x).buffer = x.buffer
         /\ Left(x).s2c = x.s2c /\ Stopped(x).s2c = x.s2c /\ Dead(x).s2c = <<>>
         /\ \A y \in {Left(x), Stopped(x), Dead(x)} :
              /\ y.sent = x.sent /\ y.executed = x.executed
              /\ y.garbled = x.garbled /\ y.lagging = x.lagging
<1>1. <<>> \in Seq(Byte)
  OBVIOUS
<1> QED BY <1>1 DEF Left, Stopped, Dead, Conn

(* The types, one by one. *)
LEMMA TypeFacts ==
  ASSUME Types
  PROVE  /\ peer \in {"app_server", "raw_client"}
         /\ issued \in Seq(DOMAIN Answer) /\ Len(issued) \in Nat
         /\ holder \in Threads \cup {None}
         /\ conns \in Seq(Conn) /\ Len(conns) \in Nat
         /\ current \in 0..Len(conns)
         /\ faults \in Nat /\ faults \in 0..MaxFaults /\ cuts \in 0..MaxCuts
<1>1. /\ peer \in {"app_server", "raw_client"}
      /\ issued \in Seq(DOMAIN Answer)
      /\ holder \in Threads \cup {None}
      /\ conns \in Seq(Conn)
      /\ current \in 0..Len(conns)
      /\ faults \in 0..MaxFaults /\ cuts \in 0..MaxCuts
  BY DEF Types
<1>2. faults \in Nat
  BY <1>1, BoundsAssumption
<1>3. Len(issued) \in Nat /\ Len(conns) \in Nat
  BY <1>1
<1> QED BY <1>1, <1>2, <1>3

(* Every connection is one. *)
LEMMA ConnOf ==
  ASSUME Types, NEW c \in 1..Len(conns)
  PROVE  conns[c] \in Conn
BY TypeFacts

(* The call and the connection of the holder of the lock. *)
LEMMA HolderFacts ==
  ASSUME Types, Control, NEW t \in Threads, thread[t].pc \in {"send", "read"}
  PROVE  /\ peer = "app_server"
         /\ holder = t
         /\ current \in 1..Len(conns)
         /\ conns[current] \in Conn
         /\ thread[t].id \in 1..Len(issued) /\ thread[t].id \in Nat
         /\ issued[thread[t].id] \in DOMAIN Answer
         /\ thread[t].attempt \in {1, 2} /\ thread[t].clean \in BOOLEAN
         /\ thread[t].buffer \in Seq(Byte)
         /\ \A u \in Threads : u # t => thread[u].pc \notin {"send", "read"}
<1>1. CallOK(t) /\ \A u \in Threads : CallOK(u)
  BY DEF Control
<1>2. /\ peer = "app_server" /\ holder = t /\ current # 0
      /\ thread[t].id # 0 /\ thread[t].id \in 0..Len(issued)
  BY <1>1 DEF CallOK
<1>3. current \in 0..Len(conns) /\ Len(conns) \in Nat /\ Len(issued) \in Nat
      /\ issued \in Seq(DOMAIN Answer)
  BY TypeFacts
<1> DEFINE id == thread[t].id
           n == Len(conns)
           k == Len(issued)
<1>4. current \in 1..n /\ id \in 1..k /\ id \in Nat
  <2>1. current # 0 /\ id # 0 /\ id \in 0..k /\ current \in 0..n /\ n \in Nat /\ k \in Nat
    BY <1>2, <1>3
  <2> HIDE DEF id, n, k
  <2> QED BY ONLY <2>1
<1>5. issued[id] \in DOMAIN Answer
  BY <1>3, <1>4
<1>6. PICK R : thread \in [Threads -> Call(R)]
  BY DEF Types
<1>7. thread[t].attempt \in {1, 2} /\ thread[t].clean \in BOOLEAN /\ thread[t].buffer \in Seq(Byte)
  BY <1>6 DEF Call
<1>8. \A u \in Threads : u # t => thread[u].pc \notin {"send", "read"}
  BY <1>1, <1>2 DEF CallOK
<1> QED BY <1>2, <1>4, <1>5, <1>7, <1>8, ConnOf

(* execute() is called. *)
LEMMA BeginFacts ==
  ASSUME Types, NEW t \in Threads, NEW tokens \in Calls[t], Begin(t, tokens)
  PROVE  /\ peer = "app_server" /\ thread[t].pc = "idle"
         /\ issued' = Append(issued, tokens) /\ tokens \in DOMAIN Answer
         /\ Moved(t, [NoCall EXCEPT !.pc = "lock", !.id = Len(issued) + 1])
         /\ UNCHANGED <<peer, holder, current, conns, faults, cuts>>
<1>1. PICK R : thread \in [Threads -> Call(R)]
  BY DEF Types
<1> DEFINE z == [NoCall EXCEPT !.pc = "lock", !.id = Len(issued) + 1]
           n == [tag |-> "none"]
<1>2. z \in Call({n})
  <2>1. <<>> \in Seq(Byte) /\ Len(issued) + 1 \in Nat
    BY TypeFacts
  <2> QED BY <2>1 DEF NoCall, Call
<1>3. thread' = [thread EXCEPT ![t] = z]
  BY DEF Begin
<1>4. tokens \in DOMAIN Answer
  BY CallsAssumption
<1> HIDE DEF z, n
<1>5. Moved(t, z)
  BY <1>1, <1>2, <1>3, PutCall
<1> QED BY <1>4, <1>5 DEF Begin, At, z

(* The lock is taken. *)
LEMMA EnterFacts ==
  ASSUME Types, NEW t \in Threads, Enter(t)
  PROVE  /\ thread[t].pc = "lock" /\ holder = None
         /\ \/ /\ current # 0 /\ holder' = t
               /\ Moved(t, [thread[t] EXCEPT !.pc = "send"])
               /\ UNCHANGED <<current, conns, faults>>
            \/ /\ current = 0 /\ holder' = t
               /\ Moved(t, [thread[t] EXCEPT !.pc = "send"])
               /\ Added /\ current' = Len(conns) + 1 /\ UNCHANGED faults
            \/ /\ current = 0 /\ Fault /\ holder' = None
               /\ Moved(t, [thread[t] EXCEPT !.pc = "idle", !.buffer = <<>>, !.result = Upstream])
               /\ UNCHANGED <<current, conns>>
         /\ UNCHANGED <<peer, issued, cuts>>
<1>1. PICK R : thread \in [Threads -> Call(R)]
  BY DEF Types
<1> DEFINE v == thread[t]
           z == [v EXCEPT !.pc = "send"]
<1>2. z \in Call(R)
  <2>1. v \in Call(R)
    BY <1>1
  <2> HIDE DEF v
  <2> QED BY ONLY <2>1 DEF Call
<1>3. thread' = [thread EXCEPT ![t].pc = "send"] => thread' = [thread EXCEPT ![t] = z]
  BY <1>1 DEF Call
<1> HIDE DEF z
<1>4. thread' = [thread EXCEPT ![t].pc = "send"] => Moved(t, z)
  BY <1>1, <1>2, <1>3, PutCall
<1>5. conns' = Append(conns, NewConn) => Added
  BY TypeFacts, AddConn, NewConnType DEF Added
<1>6. End(t, Upstream) =>
        /\ holder' = None
        /\ Moved(t, [thread[t] EXCEPT !.pc = "idle", !.buffer = <<>>, !.result = Upstream])
  BY EndCall
<1>7. thread[t].pc = "lock" /\ holder = None
  BY DEF Enter, At
<1> QED BY <1>4, <1>5, <1>6, <1>7 DEF Enter, z

(* The command is sent. *)
LEMMA SendFacts ==
  ASSUME Types, Control, NEW t \in Threads, Send(t)
  PROVE  /\ thread[t].pc = "send" /\ conns[current].state # "reset"
         /\ EncodeCommand(issued[thread[t].id]) \in Seq(Byte)
         /\ Changed(current, Commanded(conns[current], thread[t].id,
                                       EncodeCommand(issued[thread[t].id])))
         /\ Moved(t, [thread[t] EXCEPT !.pc = "read", !.clean = ~conns[current].lagging])
         /\ UNCHANGED <<peer, issued, holder, current, faults, cuts>>
<1>1. PICK R : thread \in [Threads -> Call(R)]
  BY DEF Types
<1>2. thread[t].pc = "send" /\ conns[current].state # "reset"
  BY DEF Send, At
<1>3. /\ current \in 1..Len(conns) /\ conns[current] \in Conn /\ thread[t].id \in Nat
      /\ issued[thread[t].id] \in DOMAIN Answer
  BY <1>2, HolderFacts
<1> DEFINE x == conns[current]
           id == thread[t].id
           e == EncodeCommand(issued[id])
           z == [thread[t] EXCEPT !.pc = "read", !.clean = ~conns[current].lagging]
           y == Commanded(x, id, e)
<1>4. e \in Seq(Byte)
  <2> DEFINE c == issued[id]
  <2>1. c \in Seq(Seq(Chars))
    BY <1>3, AnswersAssumption
  <2> HIDE DEF c
  <2>2. EncodeCommand(c) \in Seq(Byte)
    BY <2>1, CommandParts
  <2> QED BY <2>2 DEF c
<1>5. z \in Call(R)
  <2>1. conns[current].lagging \in BOOLEAN
    BY <1>3 DEF Conn
  <2> DEFINE k == conns[current].lagging
             v == thread[t]
  <2>2. k \in BOOLEAN /\ v \in Call(R)
    BY <1>1, <2>1
  <2> HIDE DEF k, v
  <2>3. [v EXCEPT !.pc = "read", !.clean = ~k] \in Call(R)
    BY ONLY <2>2 DEF Call
  <2> QED BY <2>3 DEF k, v
<1>6. thread' = [thread EXCEPT ![t] = z]
  BY <1>1 DEF Send, Call
<1> HIDE DEF z
<1>7. Moved(t, z)
  BY <1>1, <1>5, <1>6, PutCall
<1>8. conns' = [conns EXCEPT ![current] = y]
  BY <1>3, TypeFacts DEF Send, Conn, Commanded
<1> HIDE DEF e
<1>9. y \in Conn
  BY <1>3, <1>4, CommandedFacts
<1> HIDE DEF y
<1>10. Changed(current, y)
  BY <1>3, <1>8, <1>9, PutConn, TypeFacts DEF Changed
<1> QED BY <1>2, <1>4, <1>7, <1>10 DEF Send, z, y, e

(* What is left of a connection that the client closes. *)
LEMMA ClosedFacts ==
  ASSUME Types, current \in 1..Len(conns)
  PROVE  /\ Closed = [conns EXCEPT ![current] = Close(conns[current])]
         /\ conns' = Closed => Changed(current, Close(conns[current]))
         /\ conns' = Append(Closed, NewConn) => Replaced(current, Close(conns[current]))
<1> DEFINE y == Close(conns[current])
           s == [conns EXCEPT ![current] = y]
<1>1. conns \in Seq(Conn) /\ conns[current] \in Conn
  BY TypeFacts, ConnOf
<1>2. Closed = s
  BY <1>1 DEF Closed, Close, Conn
<1>3. y \in Conn
  BY <1>1, CloseFacts
<1> HIDE DEF y
<1>4. /\ s \in Seq(Conn) /\ Len(s) = Len(conns) /\ s[current] = y
      /\ \A k \in 1..Len(conns) : k # current => s[k] = conns[k]
  BY <1>1, <1>3, PutConn
<1>5. conns' = s => Changed(current, y)
  BY <1>4 DEF Changed
<1> HIDE DEF s
<1>6. /\ Append(s, NewConn) \in Seq(Conn) /\ Len(Append(s, NewConn)) = Len(s) + 1
      /\ Append(s, NewConn)[Len(s) + 1] = NewConn
      /\ \A k \in 1..Len(s) : Append(s, NewConn)[k] = s[k]
  BY <1>4, AddConn, NewConnType
<1>7. conns' = Append(s, NewConn) => Replaced(current, y)
  BY <1>4, <1>6 DEF Replaced
<1> QED BY <1>2, <1>5, <1>7 DEF y, s

(* An OSError: the command is sent once more, or the call fails. *)
Retried(t) ==
  /\ thread[t].attempt = 1
  /\ current' = Len(conns) + 1
  /\ Replaced(current, Close(conns[current]))
  /\ Moved(t, [thread[t] EXCEPT !.pc = "send", !.attempt = 2, !.buffer = <<>>])
  /\ UNCHANGED <<peer, issued, holder, cuts>>
GaveUp(t) ==
  /\ thread[t].attempt = 2
  /\ Changed(current, Lag(conns[current]))
  /\ holder' = None
  /\ Moved(t, [thread[t] EXCEPT !.pc = "idle", !.buffer = <<>>, !.result = Upstream])
  /\ UNCHANGED <<peer, issued, current, cuts>>
WasRefused(t) ==
  /\ thread[t].attempt = 1
  /\ current' = 0
  /\ Changed(current, Close(conns[current]))
  /\ holder' = None
  /\ Moved(t, [thread[t] EXCEPT !.pc = "idle", !.buffer = <<>>, !.result = Upstream])
  /\ UNCHANGED <<peer, issued, cuts>>

(* What OnOSError does to the call, to its connection and to the lock. *)
LEMMA OSErrorFacts ==
  ASSUME Types, Control, NEW t \in Threads, thread[t].pc \in {"send", "read"}, OnOSError(t),
         UNCHANGED <<peer, issued, cuts>>
  PROVE  Retried(t) \/ GaveUp(t)
<1>1. PICK R : thread \in [Threads -> Call(R)]
  BY DEF Types
<1>2. current \in 1..Len(conns) /\ conns[current] \in Conn
  BY HolderFacts
<1>3. CASE /\ thread[t].attempt = 1
           /\ current' = Len(conns) + 1
           /\ conns' = Append(Closed, NewConn)
           /\ thread' = [thread EXCEPT ![t].pc = "send", ![t].attempt = 2, ![t].buffer = <<>>]
           /\ UNCHANGED holder
  <2> DEFINE z == [thread[t] EXCEPT !.pc = "send", !.attempt = 2, !.buffer = <<>>]
  <2>1. z \in Call(R)
    <3>1. <<>> \in Seq(Byte) /\ thread[t] \in Call(R)
      BY <1>1
    <3> QED BY <3>1 DEF Call
  <2>2. thread' = [thread EXCEPT ![t] = z]
    BY <1>1, <1>3 DEF Call
  <2> HIDE DEF z
  <2>3. Moved(t, z)
    BY <1>1, <2>1, <2>2, PutCall
  <2>4. Replaced(current, Close(conns[current]))
    BY <1>2, <1>3, ClosedFacts
  <2> QED BY <1>3, <2>3, <2>4 DEF Retried, z
<1>4. CASE /\ thread[t].attempt = 2
           /\ conns' = [conns EXCEPT ![current].lagging = TRUE]
           /\ UNCHANGED current
           /\ End(t, Upstream)
  <2> DEFINE y == Lag(conns[current])
  <2>1. conns' = [conns EXCEPT ![current] = y]
    BY <1>2, <1>4, TypeFacts DEF Lag
  <2>2. y \in Conn
    BY <1>2, LagFacts
  <2> HIDE DEF y
  <2>3. Changed(current, y)
    BY <1>2, <2>1, <2>2, PutConn, TypeFacts DEF Changed
  <2>4. /\ holder' = None
        /\ Moved(t, [thread[t] EXCEPT !.pc = "idle", !.buffer = <<>>, !.result = Upstream])
    BY <1>4, EndCall
  <2> QED BY <1>4, <2>3, <2>4 DEF GaveUp, y
<1> QED BY <1>3, <1>4 DEF OnOSError

(* sendall() or recv() finds the connection broken, or times out. *)
LEMMA BrokenFacts ==
  ASSUME Types, Control, NEW t \in Threads, Broken(t) \/ TimesOut(t)
  PROVE  /\ thread[t].pc \in {"send", "read"}
         /\ \/ Retried(t) /\ (Fault \/ UNCHANGED faults)
            \/ GaveUp(t) /\ (Fault \/ UNCHANGED faults)
            \/ WasRefused(t) /\ Fault
         /\ UNCHANGED faults => conns[current].state = "reset"
<1>1. thread[t].pc \in {"send", "read"}
  BY DEF Broken, TimesOut, At
<1>2. current \in 1..Len(conns)
  BY <1>1, HolderFacts
<1>3. ASSUME Refuse(t), UNCHANGED <<peer, issued, cuts>> PROVE WasRefused(t)
  <2>1. Changed(current, Close(conns[current]))
    BY <1>2, <1>3, ClosedFacts DEF Refuse
  <2>2. /\ holder' = None
        /\ Moved(t, [thread[t] EXCEPT !.pc = "idle", !.buffer = <<>>, !.result = Upstream])
    BY <1>3, EndCall DEF Refuse
  <2> QED BY <1>3, <2>1, <2>2 DEF Refuse, WasRefused
<1>4. UNCHANGED <<peer, issued, cuts>>
  BY DEF Broken, TimesOut
<1>5. /\ \/ OnOSError(t) /\ (Fault \/ UNCHANGED faults)
         \/ Refuse(t) /\ Fault
      /\ UNCHANGED faults => conns[current].state = "reset"
  <2>1. Fault => ~UNCHANGED faults
    BY TypeFacts DEF Fault
  <2> QED BY <2>1 DEF Broken, TimesOut
<1> QED BY <1>1, <1>3, <1>4, <1>5, OSErrorFacts

(* What the result says of the reply in the buffer. *)
Decoded(r, p, length, shape) ==
  \/ p.tag = "refused" /\ r = Conflict
  \/ p.tag = "malformed" /\ r = Upstream
  \/ p.tag = "ok" /\ ~(p.next = length + 1 /\ Fits(p.value, shape)) /\ r = Upstream
  \/ p.tag = "ok" /\ p.next = length + 1 /\ Fits(p.value, shape) /\ r = Value(p.value)

(* recv() returns the first n bytes, which make the buffer b. *)
Got(t, n, b) ==
  /\ n \in 1..Len(conns[current].s2c)
  /\ b \in Seq(Byte) /\ b = thread[t].buffer \o SubSeq(conns[current].s2c, 1, n)
  /\ Changed(current, Fetched(conns[current], n))
  /\ \/ /\ ParseReply(b).tag = "incomplete"
        /\ Moved(t, [thread[t] EXCEPT !.buffer = b])
        /\ UNCHANGED holder
     \/ \E r : /\ Decoded(r, ParseReply(b), Len(b), Shape[issued[thread[t].id][1][1]])
               /\ holder' = None
               /\ Moved(t, [thread[t] EXCEPT !.pc = "idle", !.buffer = <<>>, !.result = r])

(* recv() returns at least one byte, and the bound on its cuts is kept. *)
LEMMA ChunkCuts ==
  ASSUME Types, NEW bytes, NEW n, Chunk(bytes, n)
  PROVE  cuts' \in 0..MaxCuts /\ n \in 1..Len(bytes)
<1>1. cuts \in 0..MaxCuts /\ MaxCuts \in Nat
  BY TypeFacts, BoundsAssumption
<1> QED BY <1>1 DEF Chunk

(* The buffer is parsed. *)
LEMMA ParseFacts ==
  ASSUME Types, NEW t \in Threads, NEW b \in Seq(Byte), NEW p, TryParse(t, b, p)
  PROVE  \/ /\ p.tag = "incomplete"
            /\ Moved(t, [thread[t] EXCEPT !.buffer = b])
            /\ UNCHANGED holder
         \/ \E r : /\ Decoded(r, p, Len(b), Shape[issued[thread[t].id][1][1]])
                   /\ holder' = None
                   /\ Moved(t, [thread[t] EXCEPT !.pc = "idle", !.buffer = <<>>, !.result = r])
<1> DEFINE shape == Shape[issued[thread[t].id][1][1]]
           whole == p.next = Len(b) + 1 /\ Fits(p.value, shape)
<1>1. PICK R : thread \in [Threads -> Call(R)]
  BY DEF Types
<1>2. CASE p.tag = "incomplete" /\ thread' = [thread EXCEPT ![t].buffer = b] /\ UNCHANGED holder
  <2> DEFINE z == [thread[t] EXCEPT !.buffer = b]
  <2>1. z \in Call(R)
    <3>1. thread[t] \in Call(R)
      BY <1>1
    <3> QED BY <3>1 DEF Call
  <2>2. thread' = [thread EXCEPT ![t] = z]
    BY <1>1, <1>2 DEF Call
  <2> HIDE DEF z
  <2>3. Moved(t, z)
    BY <1>1, <2>1, <2>2, PutCall
  <2> QED BY <1>2, <2>3 DEF z
<1>3. ASSUME NEW r, End(t, r), Decoded(r, p, Len(b), shape)
      PROVE  \E q : /\ Decoded(q, p, Len(b), shape)
                    /\ holder' = None
                    /\ Moved(t, [thread[t] EXCEPT !.pc = "idle", !.buffer = <<>>, !.result = q])
  BY <1>3, EndCall
<1>4. CASE p.tag = "refused" /\ End(t, Conflict)
  BY <1>3, <1>4 DEF Decoded
<1>5. CASE p.tag = "malformed" /\ End(t, Upstream)
  BY <1>3, <1>5 DEF Decoded
<1>6. CASE p.tag = "ok" /\ whole /\ End(t, Value(p.value))
  BY <1>3, <1>6 DEF Decoded
<1>7. CASE p.tag = "ok" /\ ~whole /\ End(t, Upstream)
  BY <1>3, <1>7 DEF Decoded
<1>8. \/ p.tag = "incomplete" /\ thread' = [thread EXCEPT ![t].buffer = b] /\ UNCHANGED holder
      \/ p.tag = "refused" /\ End(t, Conflict)
      \/ p.tag = "malformed" /\ End(t, Upstream)
      \/ p.tag = "ok" /\ End(t, IF whole THEN Value(p.value) ELSE Upstream)
  BY Zenon DEF TryParse
<1> HIDE DEF whole
<1>9. (p.tag = "ok" /\ End(t, IF whole THEN Value(p.value) ELSE Upstream)) =>
        \/ p.tag = "ok" /\ whole /\ End(t, Value(p.value))
        \/ p.tag = "ok" /\ ~whole /\ End(t, Upstream)
  <2>1. CASE whole
    <3>1. (IF whole THEN Value(p.value) ELSE Upstream) = Value(p.value)
      BY <2>1
    <3> QED BY <2>1, <3>1, Zenon
  <2>2. CASE ~whole
    <3>1. (IF whole THEN Value(p.value) ELSE Upstream) = Upstream
      BY <2>2
    <3> QED BY <2>2, <3>1, Zenon
  <2> QED BY <2>1, <2>2
<1> QED BY <1>2, <1>4, <1>5, <1>6, <1>7, <1>8, <1>9

(* The client reads some of the bytes on their way. *)
LEMMA ReadFacts ==
  ASSUME Types, Control, NEW t \in Threads, Read(t)
  PROVE  /\ thread[t].pc = "read"
         /\ \E n, b : Got(t, n, b)
         /\ UNCHANGED <<peer, issued, current, faults>> /\ cuts' \in 0..MaxCuts
<1>1. thread[t].pc = "read" /\ UNCHANGED <<peer, issued, current, faults>>
  BY DEF Read, At
<1>2. current \in 1..Len(conns) /\ conns[current] \in Conn /\ thread[t].buffer \in Seq(Byte)
  BY <1>1, HolderFacts
<1>3. PICK n \in DOMAIN conns[current].s2c :
        /\ Chunk(conns[current].s2c, n)
        /\ conns' = [conns EXCEPT ![current].s2c = SubSeq(@, n + 1, Len(@))]
        /\ \E buffer \in {thread[t].buffer \o SubSeq(conns[current].s2c, 1, n)} :
             \E parsed \in {ParseReply(buffer)} : TryParse(t, buffer, parsed)
  BY Zenon DEF Read
<1> DEFINE s == conns[current].s2c
           b == thread[t].buffer \o SubSeq(s, 1, n)
           y == Fetched(conns[current], n)
<1>4. n \in 1..Len(s) /\ cuts' \in 0..MaxCuts
  BY <1>3, ChunkCuts
<1>5. b \in Seq(Byte)
  <2>1. s \in Seq(Byte)
    BY <1>2 DEF Conn
  <2>2. SubSeq(s, 1, n) \in Seq(Byte)
    BY <1>4, <2>1
  <2> QED BY <1>2, <2>2
<1>6. TryParse(t, b, ParseReply(b))
  BY <1>3, Zenon
<1>7. conns' = [conns EXCEPT ![current] = y]
  BY <1>2, <1>3, TypeFacts DEF Fetched
<1>8. y \in Conn
  BY <1>2, <1>4, FetchedFacts
<1> HIDE DEF y, b
<1>9. Changed(current, y)
  BY <1>2, <1>7, <1>8, PutConn, TypeFacts DEF Changed
<1>10. Got(t, n, b)
  <2>1. n \in 1..Len(conns[current].s2c) /\ b = thread[t].buffer \o SubSeq(conns[current].s2c, 1, n)
    BY <1>4 DEF b
  <2>2. Changed(current, Fetched(conns[current], n))
    BY <1>9 DEF y
  <2> DEFINE p == ParseReply(b)
  <2>3. \/ /\ p.tag = "incomplete"
           /\ Moved(t, [thread[t] EXCEPT !.buffer = b])
           /\ UNCHANGED holder
        \/ \E r : /\ Decoded(r, p, Len(b), Shape[issued[thread[t].id][1][1]])
                  /\ holder' = None
                  /\ Moved(t, [thread[t] EXCEPT !.pc = "idle", !.buffer = <<>>, !.result = r])
    <3>1. TryParse(t, b, p)
      BY <1>6
    <3> HIDE DEF p
    <3> QED BY <1>5, <3>1, ParseFacts
  <2> QED BY <1>5, <2>1, <2>2, <2>3, Zenon DEF Got
<1> QED BY <1>1, <1>4, <1>10

(* recv() returns no bytes. *)
LEMMA ReadEofFacts ==
  ASSUME Types, Control, NEW t \in Threads, ReadEof(t)
  PROVE  /\ thread[t].pc = "read" /\ conns[current].state = "eof"
         /\ Changed(current, Close(conns[current])) /\ current' = 0
         /\ holder' = None
         /\ Moved(t, [thread[t] EXCEPT !.pc = "idle", !.buffer = <<>>, !.result = Upstream])
         /\ UNCHANGED <<peer, issued, faults, cuts>>
<1>1. /\ thread[t].pc = "read" /\ conns[current].state = "eof"
      /\ conns' = Closed /\ current' = 0 /\ End(t, Upstream)
      /\ UNCHANGED <<peer, issued, faults, cuts>>
  BY DEF ReadEof, At
<1>2. current \in 1..Len(conns)
  BY <1>1, HolderFacts
<1>3. Changed(current, Close(conns[current]))
  BY <1>1, <1>2, ClosedFacts
<1>4. /\ holder' = None
      /\ Moved(t, [thread[t] EXCEPT !.pc = "idle", !.buffer = <<>>, !.result = Upstream])
  BY <1>1, EndCall
<1> QED BY <1>1, <1>3, <1>4

(* The server does something on connection c. *)
Serves == UNCHANGED <<peer, issued, thread, holder, current>>

(* The server reads. *)
LEMMA RecvFacts ==
  ASSUME Types, NEW c \in 1..Len(conns), Recv(c)
  PROVE  /\ conns[c].state \in {"open", "fin"}
         /\ \E n \in 1..Len(conns[c].c2s) : Changed(c, Received(conns[c], n))
         /\ UNCHANGED faults /\ cuts' \in 0..MaxCuts /\ Serves
<1>1. conns[c] \in Conn
  BY ConnOf
<1>2. PICK n \in DOMAIN conns[c].c2s :
        /\ Chunk(conns[c].c2s, n)
        /\ conns' = [conns EXCEPT ![c].buffer = @ \o SubSeq(conns[c].c2s, 1, n),
                                  ![c].c2s = SubSeq(@, n + 1, Len(@))]
  BY Zenon DEF Recv
<1> DEFINE y == Received(conns[c], n)
<1>3. n \in 1..Len(conns[c].c2s) /\ cuts' \in 0..MaxCuts
  BY <1>2, ChunkCuts
<1>4. conns' = [conns EXCEPT ![c] = y]
  BY <1>1, <1>2, TypeFacts DEF Received, Conn
<1>5. y \in Conn
  BY <1>1, <1>3, ReceivedFacts
<1> HIDE DEF y
<1>6. Changed(c, y)
  BY <1>4, <1>5, PutConn, TypeFacts DEF Changed
<1>7. conns[c].state \in {"open", "fin"} /\ UNCHANGED faults /\ Serves
  BY DEF Recv, Serves
<1> QED BY <1>3, <1>6, <1>7 DEF y

(* The server ends the connection, or it breaks. *)
LEMMA EndingSteps ==
  ASSUME Types, NEW c \in 1..Len(conns), Leave(c) \/ Stop(c) \/ Reset(c)
  PROVE  /\ \/ conns[c].state = "fin" /\ Changed(c, Left(conns[c])) /\ UNCHANGED faults
            \/ conns[c].state = "open" /\ Changed(c, Stopped(conns[c])) /\ Fault
            \/ conns[c].state \in {"open", "eof"} /\ Changed(c, Dead(conns[c])) /\ Fault
         /\ UNCHANGED cuts /\ Serves
<1>1. conns[c] \in Conn
  BY ConnOf
<1>2. Left(conns[c]) \in Conn /\ Stopped(conns[c]) \in Conn /\ Dead(conns[c]) \in Conn
  BY <1>1, EndingFacts
<1>3. /\ Leave(c) => conns' = [conns EXCEPT ![c] = Left(conns[c])]
      /\ Stop(c) => conns' = [conns EXCEPT ![c] = Stopped(conns[c])]
      /\ Reset(c) => conns' = [conns EXCEPT ![c] = Dead(conns[c])]
  <2>1. Leave(c) => conns' = [conns EXCEPT ![c] = Left(conns[c])]
    BY <1>1, TypeFacts DEF Leave, Left, Conn
  <2>2. Stop(c) => conns' = [conns EXCEPT ![c] = Stopped(conns[c])]
    BY <1>1, TypeFacts DEF Stop, Stopped, Conn
  <2>3. Reset(c) => conns' = [conns EXCEPT ![c] = Dead(conns[c])]
    BY <1>1, TypeFacts DEF Reset, Dead, Conn
  <2> QED BY <2>1, <2>2, <2>3
<1>4. /\ Leave(c) => Changed(c, Left(conns[c]))
      /\ Stop(c) => Changed(c, Stopped(conns[c]))
      /\ Reset(c) => Changed(c, Dead(conns[c]))
  <2>1. conns \in Seq(Conn)
    BY TypeFacts
  <2>2. ASSUME NEW y \in Conn, conns' = [conns EXCEPT ![c] = y] PROVE Changed(c, y)
    BY <2>1, <2>2, PutConn DEF Changed
  <2> QED BY ONLY <1>2, <1>3, <2>2
<1> QED BY <1>4 DEF Leave, Stop, Reset, Serves

(* The server handles what its buffer starts with; unless bytes were        *)
(* malformed before, that is a command with an answer.                      *)
LEMMA HandleFacts ==
  ASSUME Types, NEW c \in 1..Len(conns), Handle(c),
         (~conns[c].garbled /\ ParseFrame(conns[c].buffer).tag = "ok") =>
           ParseFrame(conns[c].buffer).value \in DOMAIN Answer
  PROVE  /\ conns[c].state \in {"open", "fin", "reset"}
         /\ \/ /\ ParseFrame(conns[c].buffer).tag = "ok"
               /\ ParseFrame(conns[c].buffer).next \in 1..(Len(conns[c].buffer) + 1)
               /\ Changed(c, Done(conns[c], ParseFrame(conns[c].buffer)))
            \/ /\ ParseFrame(conns[c].buffer).tag = "malformed"
               /\ Changed(c, Failed(conns[c]))
         /\ UNCHANGED <<faults, cuts>> /\ Serves
<1> DEFINE x == conns[c]
           frame == ParseFrame(x.buffer)
<1>1. x \in Conn
  BY ConnOf
<1>2. conns[c].state \in {"open", "fin", "reset"} /\ UNCHANGED <<faults, cuts>> /\ Serves
  BY DEF Handle, Serves
<1>3. Respond(c, frame)
  BY Zenon DEF Handle
<1>4. frame.tag = "ok" => frame.next \in 1..(Len(x.buffer) + 1)
  <2> DEFINE b == x.buffer
             o == <<>>
  <2>1. b \in Seq(Byte) /\ o \in Seq(Byte)
    BY <1>1 DEF Conn
  <2> HIDE DEF b, o
  <2>2. Outcome(ParseFrame(b), 2, Len(b) + 1)
    BY <2>1, FrameStable
  <2> DEFINE p == ParseFrame(b)
  <2>3. p.tag = "ok" => p.next \in 2..(Len(b) + 1)
    <3> HIDE DEF p
    <3> QED BY <2>2, Tags DEF Outcome, p
  <2>4. p.tag = "ok" => p.next \in 1..(Len(b) + 1)
    <3>1. Len(b) \in Nat
      BY <2>1
    <3> HIDE DEF p
    <3> QED BY <2>3, <3>1
  <2> QED BY <2>4 DEF b
<1> HIDE DEF frame
<1>5. CASE frame.tag = "ok"
  <2> DEFINE y == Done(x, frame)
  <2>1. y \in Conn
    BY <1>1, <1>4, <1>5, DoneFacts DEF frame
  <2>2. conns' = [conns EXCEPT
          ![c].s2c = Sent(c, EncodeReply(AnswerTo(frame.value))),
          ![c].buffer = SubSeq(@, frame.next, Len(@)),
          ![c].executed = IF conns[c].garbled THEN @ ELSE Append(@, frame.value)]
    BY <1>3, <1>5, Zenon DEF Respond
  <2>3. conns' = [conns EXCEPT ![c] = y]
    BY <1>1, <2>2, TypeFacts DEF Done, Out, Sent, Conn
  <2> HIDE DEF y
  <2>4. Changed(c, y)
    BY <2>1, <2>3, PutConn, TypeFacts DEF Changed
  <2> QED BY <1>2, <1>4, <1>5, <2>4 DEF y, frame
<1>6. CASE frame.tag # "ok"
  <2> DEFINE y == Failed(x)
  <2>1. y \in Conn
    BY <1>1, FailedFacts
  <2>2. /\ frame.tag = "malformed"
        /\ conns' = [conns EXCEPT ![c].s2c = Sent(c, EncodeReply(ErrorReply)),
                                  ![c].buffer = <<>>,
                                  ![c].garbled = TRUE]
    BY <1>3, <1>6, Zenon DEF Respond
  <2>3. conns' = [conns EXCEPT ![c] = y]
    BY <1>1, <2>2, TypeFacts DEF Failed, Out, Sent, Conn
  <2> HIDE DEF y
  <2>4. Changed(c, y)
    BY <2>1, <2>3, PutConn, TypeFacts DEF Changed
  <2> QED BY <1>2, <2>2, <2>4 DEF y, frame
<1> QED BY <1>5, <1>6

-----------------------------------------------------------------------------
(* The bytes of a sequence of commands, or of their answers *)

Concats(f, q) == FlattenSeq([i \in DOMAIN q |-> f[q[i]]])

Wire(q) == Concats([c \in DOMAIN Answer |-> EncodeCommand(c)], q)

(* A function on the first numbers is a sequence. *)
LEMMA FunSeq ==
  ASSUME NEW V, NEW n \in Nat, NEW f \in [1..n -> V]
  PROVE  f \in Seq(V) /\ Len(f) = n
OBVIOUS

(* Strings of bytes, one after the other. *)
LEMMA BytesAssoc ==
  \A a, b, c \in Seq(Byte) : (a \o b) \o c = a \o (b \o c)
BY ConcatAssoc

(* The same, said of three strings of bytes. *)
Same3(a, b, c) == (a \o b) \o c = a \o (b \o c)

(* It holds of any three. *)
LEMMA BytesSame == \A a, b, c \in Seq(Byte) : Same3(a, b, c)
BY BytesAssoc DEF Same3

(* Each element of the sequence makes bytes. *)
LEMMA ConcatsFacts ==
  ASSUME NEW S, NEW f \in [S -> Seq(Byte)], NEW q \in Seq(S)
  PROVE  /\ Concats(f, q) \in Seq(Byte)
         /\ Concats(f, <<>>) = <<>>
         /\ \A c \in S : Concats(f, Append(q, c)) = Concats(f, q) \o f[c]
         /\ q # <<>> => Concats(f, q) = f[q[1]] \o Concats(f, Tail(q))
<1> DEFINE s == [i \in DOMAIN q |-> f[q[i]]]
<1>1. s \in Seq(Seq(Byte)) /\ Len(s) = Len(q)
  <2>1. DOMAIN q = 1..Len(q) /\ Len(q) \in Nat
    OBVIOUS
  <2>2. \A i \in 1..Len(q) : f[q[i]] \in Seq(Byte)
    <3>1. \A i \in 1..Len(q) : q[i] \in S
      OBVIOUS
    <3> QED BY <3>1
  <2> DEFINE V == Seq(Byte)
  <2>3. s \in [1..Len(q) -> V]
    BY <2>1, <2>2
  <2> HIDE DEF V, s
  <2> DEFINE n == Len(q)
  <2>4. n \in Nat /\ s \in [1..n -> V]
    BY <2>1, <2>3
  <2> HIDE DEF n
  <2>5. s \in Seq(V) /\ Len(s) = n
    BY <2>4, FunSeq
  <2> QED BY <2>5 DEF V, n
<1>2. Concats(f, q) = FlattenSeq(s)
  BY DEF Concats
<1>3. Concats(f, q) \in Seq(Byte)
  <2> HIDE DEF s
  <2> QED BY <1>1, <1>2, FlattenType
<1>4. Concats(f, <<>>) = <<>>
  <2>1. [i \in DOMAIN <<>> |-> f[<<>>[i]]] = <<>>
    OBVIOUS
  <2> QED BY <2>1, FlattenEmpty DEF Concats
<1>5. ASSUME NEW c \in S
      PROVE  Concats(f, Append(q, c)) = Concats(f, q) \o f[c]
  <2> DEFINE x == f[c]
             a == [i \in DOMAIN Append(q, c) |-> f[Append(q, c)[i]]]
  <2>1. x \in Seq(Byte)
    OBVIOUS
  <2>2. a = Append(s, x)
    <3>1. a \in Seq(Seq(Byte)) /\ Append(s, x) \in Seq(Seq(Byte)) /\ Len(a) = Len(q) + 1
          /\ Len(Append(s, x)) = Len(q) + 1
      BY <1>1
    <3>2. \A i \in 1..Len(a) : a[i] = Append(s, x)[i]
      BY <1>1, <3>1
    <3> HIDE DEF a, s, x
    <3> QED BY <3>1, <3>2, SameElements
  <2>3. Concats(f, Append(q, c)) = FlattenSeq(a)
    BY DEF Concats
  <2> HIDE DEF s, x, a
  <2>4. FlattenSeq(Append(s, x)) = FlattenSeq(s) \o x
    BY <1>1, <2>1, FlattenAppend
  <2> QED BY <1>2, <2>2, <2>3, <2>4 DEF x
<1>6. ASSUME q # <<>>
      PROVE  Concats(f, q) = f[q[1]] \o Concats(f, Tail(q))
  <2> DEFINE a == [i \in DOMAIN Tail(q) |-> f[Tail(q)[i]]]
             h == f[q[1]]
  <2>1. s # <<>> /\ Head(s) = h
    BY <1>1, <1>6
  <2>2. Tail(s) = a
    <3>1. Tail(q) \in Seq(S) /\ Len(Tail(q)) = Len(q) - 1
          /\ \A i \in 1..Len(Tail(q)) : Tail(q)[i] = q[i + 1]
      BY <1>6
    <3>2. Tail(s) \in Seq(Seq(Byte)) /\ Len(Tail(s)) = Len(s) - 1
          /\ \A i \in 1..Len(Tail(s)) : Tail(s)[i] = s[i + 1]
      <4> HIDE DEF s
      <4> QED BY <1>1, <2>1
    <3>3. a \in Seq(Seq(Byte)) /\ Len(a) = Len(Tail(q))
      BY <3>1
    <3>4. \A i \in 1..Len(a) : a[i] = Tail(s)[i]
      BY <1>1, <3>1, <3>2, <3>3
    <3> DEFINE l == Tail(s)
    <3>5. l \in Seq(Seq(Byte)) /\ Len(l) = Len(a) /\ \A i \in 1..Len(a) : a[i] = l[i]
      BY <1>1, <3>1, <3>2, <3>3, <3>4
    <3> HIDE DEF a, l
    <3>6. a = l
      BY <3>3, <3>5, SameElements
    <3> QED BY <3>6 DEF l
  <2>3. Concats(f, Tail(q)) = FlattenSeq(a)
    BY DEF Concats
  <2> HIDE DEF s, a, h
  <2>4. FlattenSeq(s) = Head(s) \o FlattenSeq(Tail(s))
    BY <1>1, <2>1, FlattenHead
  <2> QED BY <1>2, <2>1, <2>2, <2>3, <2>4 DEF h
<1> QED BY <1>3, <1>4, <1>5, <1>6

(* The encoding of every command and of every answer. *)
LEMMA AnswerBytes ==
  ASSUME NEW c \in DOMAIN Answer
  PROVE  /\ EncodeCommand(c) \in Seq(Byte) /\ EncodeCommand(c) # <<>>
         /\ EncodeReply(Answer[c]) \in Seq(Byte) /\ Len(EncodeReply(Answer[c])) >= 1
         /\ \A r \in Seq(Byte) :
              ParseFrame(EncodeCommand(c) \o r) = Parsed(c, Len(EncodeCommand(c)) + 1)
<1>1. c \in Seq(Seq(Chars)) /\ IsReply(Answer[c])
  BY AnswersAssumption
<1> DEFINE a == Answer[c]
           o == <<>>
<1>2. o \in Seq(Byte)
  OBVIOUS
<1> HIDE DEF a, o
<1>3. IsReply(a)
  BY <1>1 DEF a
<1>4. EncodeCommand(c) \in Seq(Byte) /\ EncodeCommand(c) # <<>>
  BY <1>1, <1>2, CommandFirst
<1>5. EncodeReply(a) \in Seq(Byte) /\ Len(EncodeReply(a)) >= 1
  BY <1>3, ReplyBytes
<1>6. ASSUME NEW r \in Seq(Byte)
      PROVE  ParseFrame(EncodeCommand(c) \o r) = Parsed(c, Len(EncodeCommand(c)) + 1)
  BY <1>1, CommandFirst
<1> QED BY <1>4, <1>5, <1>6 DEF a

(* The bytes of commands. *)
LEMMA WireFacts ==
  ASSUME NEW q \in Seq(DOMAIN Answer)
  PROVE  /\ Wire(q) \in Seq(Byte)
         /\ Wire(<<>>) = <<>>
         /\ \A c \in DOMAIN Answer : Wire(Append(q, c)) = Wire(q) \o EncodeCommand(c)
         /\ q # <<>> => Wire(q) = EncodeCommand(q[1]) \o Wire(Tail(q))
<1> DEFINE S == DOMAIN Answer
           f == [c \in S |-> EncodeCommand(c)]
<1>1. f \in [S -> Seq(Byte)]
  BY AnswerBytes
<1>2. \A c \in S : f[c] = EncodeCommand(c)
  OBVIOUS
<1>3. \A p : Wire(p) = Concats(f, p)
  BY DEF Wire
<1>4. q # <<>> => q[1] \in S
  OBVIOUS
<1>5. q \in Seq(S)
  OBVIOUS
<1>6. \A c : c \in DOMAIN Answer <=> c \in S
  OBVIOUS
<1> HIDE DEF f, S
<1>7. /\ Concats(f, q) \in Seq(Byte)
      /\ Concats(f, <<>>) = <<>>
      /\ \A c \in S : Concats(f, Append(q, c)) = Concats(f, q) \o f[c]
      /\ q # <<>> => Concats(f, q) = f[q[1]] \o Concats(f, Tail(q))
  BY <1>1, <1>5, ConcatsFacts
<1> QED BY <1>2, <1>3, <1>4, <1>6, <1>7

(* The bytes of answers. *)
LEMMA AnswersFacts ==
  ASSUME NEW q \in Seq(DOMAIN Answer)
  PROVE  /\ Answers(q) \in Seq(Byte)
         /\ Answers(<<>>) = <<>>
         /\ \A c \in DOMAIN Answer : Answers(Append(q, c)) = Answers(q) \o EncodeReply(Answer[c])
         /\ q # <<>> => Answers(q) = EncodeReply(Answer[q[1]]) \o Answers(Tail(q))
<1> DEFINE S == DOMAIN Answer
           f == [c \in S |-> EncodeReply(Answer[c])]
<1>1. f \in [S -> Seq(Byte)]
  BY AnswerBytes
<1>2. \A c \in S : f[c] = EncodeReply(Answer[c])
  OBVIOUS
<1>3. \A p \in Seq(DOMAIN Answer) : Answers(p) = Concats(f, p)
  <2> SUFFICES ASSUME NEW p \in Seq(DOMAIN Answer) PROVE Answers(p) = Concats(f, p)
    OBVIOUS
  <2>1. \A i \in DOMAIN p : EncodeReply(AnswerTo(p[i])) = f[p[i]]
    BY AnswerReply
  <2>2. [i \in DOMAIN p |-> EncodeReply(AnswerTo(p[i]))] = [i \in DOMAIN p |-> f[p[i]]]
    BY <2>1
  <2> HIDE DEF f
  <2> QED BY <2>2, Zenon DEF Answers, Concats
<1>4. q # <<>> => q[1] \in S
  OBVIOUS
<1>5. q \in Seq(S)
  OBVIOUS
<1>6. \A c : c \in DOMAIN Answer <=> c \in S
  OBVIOUS
<1>7. /\ <<>> \in Seq(S) /\ \A c \in S : Append(q, c) \in Seq(S)
      /\ q # <<>> => Tail(q) \in Seq(S)
  OBVIOUS
<1>8. \A p \in Seq(S) : Answers(p) = Concats(f, p)
  BY <1>3
<1> HIDE DEF f, S
<1>9. /\ Concats(f, q) \in Seq(Byte)
      /\ Concats(f, <<>>) = <<>>
      /\ \A c \in S : Concats(f, Append(q, c)) = Concats(f, q) \o f[c]
      /\ q # <<>> => Concats(f, q) = f[q[1]] \o Concats(f, Tail(q))
  BY <1>1, <1>5, ConcatsFacts
<1> QED BY <1>2, <1>4, <1>5, <1>6, <1>7, <1>8, <1>9

-----------------------------------------------------------------------------
(* The stream of requests on a connection *)

Commands(iss, x) == [i \in DOMAIN x.sent |-> iss[x.sent[i]]]

(* What the server has still to execute are the commands of queue: they    *)
(* are in its buffer and in the bytes to come, and after them come bytes   *)
(* that are no command.                                                    *)
Queued(iss, pr, x, queue) ==
  /\ queue \in Seq(DOMAIN Answer) /\ Commands(iss, x) = x.executed \o queue
  /\ \E rest, r \in Seq(Byte) :
       /\ x.buffer \o r = Wire(queue) \o rest
       /\ ParseFrame(rest).tag # "ok"
       /\ pr = "app_server" => rest = <<>>
       /\ x.state \in {"open", "fin"} => r = x.c2s
       /\ x.state = "eof" => x.buffer = <<>>

Stream(iss, pr, x) ==
  /\ \A k \in 1..Len(x.sent) : x.sent[k] \in 1..Len(iss)
  /\ x.garbled => pr = "raw_client" /\ Commands(iss, x) = x.executed
  /\ ~x.garbled => \E queue : Queued(iss, pr, x, queue)

(* The commands sent. *)
LEMMA CommandsFacts ==
  ASSUME NEW iss \in Seq(DOMAIN Answer), NEW x \in Conn,
         \A k \in 1..Len(x.sent) : x.sent[k] \in 1..Len(iss)
  PROVE  /\ Commands(iss, x) \in Seq(DOMAIN Answer) /\ Len(Commands(iss, x)) = Len(x.sent)
         /\ \A k \in 1..Len(x.sent) : Commands(iss, x)[k] = iss[x.sent[k]]
         /\ x.executed \in Seq(DOMAIN Answer) /\ x.buffer \in Seq(Byte) /\ x.c2s \in Seq(Byte)
         /\ x.s2c \in Seq(Byte) /\ x.sent \in Seq(Nat) /\ DOMAIN x.sent = 1..Len(x.sent)
<1>1. /\ x.sent \in Seq(Nat) /\ x.executed \in Seq(DOMAIN Answer) /\ x.buffer \in Seq(Byte)
      /\ x.c2s \in Seq(Byte) /\ x.s2c \in Seq(Byte)
  BY DEF Conn
<1>2. DOMAIN x.sent = 1..Len(x.sent)
  BY <1>1
<1>3. \A k \in 1..Len(x.sent) : iss[x.sent[k]] \in DOMAIN Answer
  OBVIOUS
<1>4. Commands(iss, x) \in Seq(DOMAIN Answer) /\ Len(Commands(iss, x)) = Len(x.sent)
      /\ \A k \in 1..Len(x.sent) : Commands(iss, x)[k] = iss[x.sent[k]]
  <2> DEFINE n == Len(x.sent)
             s == [k \in 1..n |-> iss[x.sent[k]]]
  <2>1. Commands(iss, x) = s
    BY ONLY <1>2 DEF Commands
  <2>2. n \in Nat /\ s \in [1..n -> DOMAIN Answer]
    BY <1>1, <1>3
  <2>3. \A k \in 1..n : s[k] = iss[x.sent[k]]
    OBVIOUS
  <2> HIDE DEF n, s
  <2>4. s \in Seq(DOMAIN Answer) /\ Len(s) = n
    BY <2>2, FunSeq
  <2> QED BY ONLY <2>1, <2>3, <2>4 DEF n
<1> QED BY <1>1, <1>2, <1>4

(* A step that leaves the requests alone, or drops those in flight. *)
LEMMA StreamKept ==
  ASSUME NEW iss, NEW pr, NEW x \in Conn, NEW y, Stream(iss, pr, x),
         y.sent = x.sent, y.executed = x.executed, y.garbled = x.garbled, y.buffer = x.buffer,
         y.state \in {"open", "fin"} => x.state \in {"open", "fin"} /\ y.c2s = x.c2s,
         y.state = "eof" => x.state = "eof"
  PROVE  Stream(iss, pr, y)
<1>1. Commands(iss, y) = Commands(iss, x)
  BY DEF Commands
<1>2. ASSUME NEW queue, Queued(iss, pr, x, queue) PROVE Queued(iss, pr, y, queue)
  BY <1>1, <1>2 DEF Queued
<1> QED BY <1>1, <1>2 DEF Stream

(* The server stops reading. *)
LEMMA StreamDropped ==
  ASSUME NEW iss, NEW pr, NEW x \in Conn, NEW y, Stream(iss, pr, x),
         y.sent = x.sent, y.executed = x.executed, y.garbled = x.garbled, y.buffer = <<>>,
         y.state \in {"eof", "reset"}
  PROVE  Stream(iss, pr, y)
<1>1. Commands(iss, y) = Commands(iss, x)
  BY DEF Commands
<1>2. ASSUME NEW queue, Queued(iss, pr, x, queue) PROVE Queued(iss, pr, y, queue)
  <2>1. PICK rest \in Seq(Byte) : /\ ParseFrame(rest).tag # "ok"
                                  /\ pr = "app_server" => rest = <<>>
    BY <1>2 DEF Queued
  <2> DEFINE w == Wire(queue) \o rest
             o == <<>>
  <2>2. w \in Seq(Byte) /\ o \o w = w
    BY <1>2, WireFacts DEF Queued
  <2>3. y.buffer = o
    OBVIOUS
  <2> HIDE DEF w, o
  <2>4. y.buffer \o w = w
    BY <2>2, <2>3
  <2>5. y.state \notin {"open", "fin"}
    OBVIOUS
  <2> QED BY <1>1, <1>2, <2>1, <2>2, <2>4, <2>5 DEF Queued, w
<1> QED BY <1>1, <1>2 DEF Stream

(* The server reads. *)
LEMMA StreamReceived ==
  ASSUME NEW iss, NEW pr, NEW x \in Conn, Stream(iss, pr, x), x.state \in {"open", "fin"},
         NEW n \in 1..Len(x.c2s)
  PROVE  Stream(iss, pr, Received(x, n))
<1> DEFINE y == Received(x, n)
           a == SubSeq(x.c2s, 1, n)
           b == SubSeq(x.c2s, n + 1, Len(x.c2s))
<1>1. /\ y.sent = x.sent /\ y.executed = x.executed /\ y.garbled = x.garbled
      /\ y.state = x.state /\ y.buffer = x.buffer \o a /\ y.c2s = b
  BY ReceivedFacts
<1>2. Commands(iss, y) = Commands(iss, x)
  BY <1>1 DEF Commands
<1>3. x.c2s \in Seq(Byte) /\ x.buffer \in Seq(Byte)
  BY DEF Conn
<1>4. a \in Seq(Byte) /\ b \in Seq(Byte) /\ x.c2s = a \o b
  <2>1. n \in 0..Len(x.c2s)
    BY <1>3
  <2> QED BY <1>3, <2>1, SplitAt
<1> HIDE DEF y, a, b
<1>5. y.buffer \o y.c2s = x.buffer \o x.c2s
  <2> DEFINE u == x.buffer
  <2>1. u \in Seq(Byte)
    BY <1>3
  <2> HIDE DEF u
  <2>2. (u \o a) \o b = u \o (a \o b)
    BY <1>4, <2>1, BytesAssoc
  <2> QED BY <1>1, <1>4, <2>2 DEF u
<1>6. ASSUME NEW queue, Queued(iss, pr, x, queue) PROVE Queued(iss, pr, y, queue)
  <2>1. /\ x.buffer \o x.c2s = y.buffer \o y.c2s /\ y.c2s \in Seq(Byte)
        /\ y.state # "eof"
    BY <1>1, <1>4, <1>5
  <2> QED BY <1>1, <1>2, <1>6, <2>1 DEF Queued
<1> QED BY <1>1, <1>2, <1>6 DEF Stream, y

(* No bytes are no command. *)
LEMMA NoFrame == ParseFrame(<<>>) = Incomplete
<1> DEFINE e == <<>>
<1>1. Len(e) = 0
  OBVIOUS
<1> HIDE DEF e
<1>2. ArrayHeader(e, 1) = Incomplete
  BY <1>1 DEF ArrayHeader
<1>3. ParseFrame(e) = ArrayHeader(e, 1)
  <2> DEFINE h == ArrayHeader(e, 1)
  <2>1. h.tag # "ok"
    BY <1>2, Tags
  <2>2. ParseFrame(e) = Then(h, LAMBDA count, next :
          Items(count, next, [start \in 1..(Len(e) + 1) |-> BulkString(e, start)]))
    BY Zenon DEF ParseFrame
  <2> HIDE DEF h
  <2> QED BY <2>1, <2>2, Zenon DEF Then, h
<1> QED BY <1>2, <1>3 DEF e

(* Equal concatenations of parts of the same lengths. *)
LEMMA SameParts ==
  ASSUME NEW a \in Seq(Byte), NEW b \in Seq(Byte), NEW c \in Seq(Byte), NEW d \in Seq(Byte),
         Len(a) = Len(c), a \o b = c \o d
  PROVE  a = c /\ b = d
<1>0. a \in Seq(Byte) /\ b \in Seq(Byte)
  OBVIOUS
<1>1. /\ \A i \in 1..Len(a) : (a \o b)[i] = a[i]
      /\ \A i \in 1..Len(b) : (a \o b)[Len(a) + i] = b[i]
      /\ Len(a \o b) = Len(a) + Len(b)
  BY ONLY <1>0, ConcatElements, ConcatLen
<1>2. /\ \A i \in 1..Len(c) : (c \o d)[i] = c[i]
      /\ \A i \in 1..Len(d) : (c \o d)[Len(c) + i] = d[i]
      /\ Len(c \o d) = Len(c) + Len(d)
  OBVIOUS
<1>3. Len(a) \in Nat /\ Len(b) \in Nat /\ Len(d) \in Nat
  OBVIOUS
<1> DEFINE w == a \o b
<1>4. /\ \A i \in 1..Len(a) : w[i] = a[i] /\ w[i] = c[i]
      /\ \A i \in 1..Len(b) : w[Len(a) + i] = b[i]
      /\ \A i \in 1..Len(d) : w[Len(a) + i] = d[i]
      /\ Len(a) + Len(b) = Len(a) + Len(d)
  BY <1>1, <1>2
<1> HIDE DEF w
<1>5. Len(b) = Len(d)
  BY <1>3, <1>4
<1>6. \A i \in 1..Len(b) : b[i] = d[i]
  BY <1>4, <1>5
<1>7. \A i \in 1..Len(a) : a[i] = c[i]
  BY <1>4
<1>8. a = c
  BY <1>7, SameElements
<1>9. b = d
  BY <1>5, <1>6, SameElements
<1> QED BY <1>8, <1>9

(* The first element of the second of two sequences. *)
LEMMA HeadTail ==
  ASSUME NEW S, NEW a \in Seq(S), NEW q \in Seq(S), q # <<>>
  PROVE  /\ Tail(q) \in Seq(S) /\ q[1] \in S
         /\ a \o q = Append(a, q[1]) \o Tail(q)
<1>1. /\ Tail(q) \in Seq(S) /\ Len(Tail(q)) = Len(q) - 1 /\ q[1] \in S
      /\ \A i \in 1..Len(Tail(q)) : Tail(q)[i] = q[i + 1]
  OBVIOUS
<1> DEFINE t == Tail(q)
           h == Append(a, q[1])
<1>2. /\ h \in Seq(S) /\ Len(h) = Len(a) + 1 /\ h[Len(a) + 1] = q[1]
      /\ \A i \in 1..Len(a) : h[i] = a[i]
  BY <1>1
<1>3. /\ a \o q \in Seq(S) /\ Len(a \o q) = Len(a) + Len(q)
      /\ \A i \in 1..Len(a) : (a \o q)[i] = a[i]
      /\ \A i \in 1..Len(q) : (a \o q)[Len(a) + i] = q[i]
      /\ Len(a) \in Nat /\ Len(q) \in Nat /\ Len(q) >= 1
  OBVIOUS
<1> HIDE DEF t, h
<1>4. /\ h \o t \in Seq(S) /\ Len(h \o t) = Len(h) + Len(t)
      /\ \A i \in 1..Len(h) : (h \o t)[i] = h[i]
      /\ \A i \in 1..Len(t) : (h \o t)[Len(h) + i] = t[i]
  BY <1>1, <1>2 DEF t
<1> DEFINE m == Len(a)
           n == Len(q)
           u == a \o q
           v == h \o t
<1>5. Len(u) = m + n /\ Len(v) = m + n /\ Len(h) = m + 1 /\ Len(t) = n - 1
      /\ m \in Nat /\ n \in Nat /\ n >= 1
  <2>1. /\ Len(u) = m + n /\ Len(v) = Len(h) + Len(t) /\ Len(h) = m + 1 /\ Len(t) = n - 1
        /\ m \in Nat /\ n \in Nat /\ n >= 1
    BY <1>1, <1>2, <1>3, <1>4 DEF t
  <2> HIDE DEF m, n, u, v
  <2> QED BY <2>1
<1>6. ASSUME NEW i \in 1..(m + n) PROVE u[i] = v[i]
  <2>1. CASE i \in 1..m
    <3>1. i \in 1..Len(h)
      BY <1>5, <2>1
    <3> QED BY <1>2, <1>3, <1>4, <2>1, <3>1
  <2>2. CASE i = m + 1
    <3>1. 1 \in 1..n /\ m + 1 \in 1..Len(h)
      BY <1>5
    <3> QED BY <1>2, <1>3, <1>4, <2>2, <3>1
  <2>3. CASE i > m + 1
    <3> DEFINE j == i - (m + 1)
    <3>1. j \in 1..(n - 1) /\ j + 1 \in 1..n /\ i = (m + 1) + j /\ i = m + (j + 1)
      <4> HIDE DEF m, n, u, v
      <4> QED BY <1>5, <2>3
    <3> HIDE DEF j
    <3>2. u[m + (j + 1)] = q[j + 1]
      BY <1>3, <3>1
    <3>3. v[(m + 1) + j] = t[j]
      BY <1>4, <1>5, <3>1
    <3>4. t[j] = q[j + 1]
      BY <1>1, <1>5, <3>1 DEF t
    <3> QED BY <3>1, <3>2, <3>3, <3>4
  <2> HIDE DEF m, n, u, v
  <2> QED BY <1>5, <2>1, <2>2, <2>3
<1>7. u = v
  <2>1. u \in Seq(S) /\ v \in Seq(S) /\ Len(u) = Len(v) /\ \A i \in 1..Len(u) : u[i] = v[i]
    BY <1>3, <1>4, <1>5, <1>6
  <2> HIDE DEF u, v
  <2> QED BY <2>1, SameElements
<1> QED BY <1>1, <1>7 DEF t, h

(* What the parser says of the buffer of handle_client: the first queued    *)
(* command, or, when nothing is queued, that there is none.                 *)
LEMMA FrameOf ==
  ASSUME NEW iss \in Seq(DOMAIN Answer), NEW pr, NEW x \in Conn, NEW queue,
         Queued(iss, pr, x, queue)
  PROVE  /\ ParseFrame(x.buffer).tag = "ok" =>
              /\ queue # <<>>
              /\ ParseFrame(x.buffer) = Parsed(queue[1], Len(EncodeCommand(queue[1])) + 1)
              /\ Len(EncodeCommand(queue[1])) <= Len(x.buffer)
         /\ ParseFrame(x.buffer).tag = "malformed" => queue = <<>> /\ pr # "app_server"
         /\ (ParseFrame(x.buffer) = Incomplete /\ x.state = "open" /\ x.c2s = <<>>) => queue = <<>>
         /\ (x.buffer = <<>> /\ x.state = "open" /\ x.c2s = <<>>) => queue = <<>>
<1> DEFINE b == x.buffer
<1>0. b \in Seq(Byte) /\ queue \in Seq(DOMAIN Answer)
  BY DEF Conn, Queued
<1>1. PICK rest \in Seq(Byte), r \in Seq(Byte) :
        /\ x.buffer \o r = Wire(queue) \o rest
        /\ ParseFrame(rest).tag # "ok"
        /\ pr = "app_server" => rest = <<>>
        /\ x.state \in {"open", "fin"} => r = x.c2s
        /\ x.state = "eof" => x.buffer = <<>>
  BY DEF Queued
<1> DEFINE w == Wire(queue) \o rest
<1>2. b \o r = w
  BY <1>1
<1> HIDE DEF b, w
<1>3. /\ Outcome(ParseFrame(b), 2, Len(b) + 1)
      /\ ParseFrame(b) # Incomplete => ParseFrame(w) = ParseFrame(b)
  BY <1>0, <1>2, FrameStable
<1>4. CASE queue # <<>>
  <2> DEFINE c == queue[1]
             e == EncodeCommand(c)
             v == Wire(Tail(queue)) \o rest
  <2>1. c \in DOMAIN Answer /\ Tail(queue) \in Seq(DOMAIN Answer)
    BY <1>0, <1>4, HeadTail
  <2>2. e \in Seq(Byte) /\ Wire(Tail(queue)) \in Seq(Byte)
    BY <2>1, AnswerBytes, WireFacts
  <2>3. Wire(queue) = e \o Wire(Tail(queue))
    BY <1>0, <1>4, WireFacts
  <2>4. w = e \o v
    <3> DEFINE l == Wire(Tail(queue))
    <3>1. l \in Seq(Byte) /\ Wire(queue) = e \o l /\ w = Wire(queue) \o rest /\ v = l \o rest
      BY <2>2, <2>3 DEF w
    <3> HIDE DEF l, e, v
    <3>2. Same3(e, l, rest)
      BY <2>2, <3>1, BytesSame
    <3> QED BY ONLY <3>1, <3>2 DEF Same3
  <2>5. v \in Seq(Byte)
    BY <2>2
  <2>6. ParseFrame(w) = Parsed(c, Len(e) + 1)
    <3> HIDE DEF v
    <3> QED BY <2>1, <2>4, <2>5, AnswerBytes
  <2> DEFINE p == Parsed(c, Len(e) + 1)
  <2>7. p.tag = "ok" /\ p.next = Len(e) + 1 /\ p # Incomplete
    BY Tags
  <2>8. Len(e) \in Nat /\ Len(b) \in Nat
    BY <1>0, <2>2
  <2> HIDE DEF p, c, e, v
  <2>9. ParseFrame(b).tag = "ok" => ParseFrame(b) = p /\ p.next \in 2..(Len(b) + 1)
    <3>1. ParseFrame(b).tag = "ok" => ParseFrame(b) # Incomplete
      BY Tags
    <3>2. ParseFrame(b).tag = "ok" => ParseFrame(b).next \in 2..(Len(b) + 1)
      BY <1>3, Tags DEF Outcome
    <3> QED BY <1>3, <2>6, <3>1, <3>2 DEF p
  <2>10. ParseFrame(b).tag = "ok" => Len(e) <= Len(b)
    BY <2>7, <2>8, <2>9
  <2>11. ParseFrame(b).tag # "malformed"
    <3>1. ParseFrame(b).tag = "malformed" => ParseFrame(b) # Incomplete
      BY Tags
    <3> QED BY <1>3, <2>6, <2>7, <3>1 DEF p
  <2>12. (x.state = "open" /\ x.c2s = <<>>) => w = b
    BY <1>0, <1>1, <1>2
  <2>13. (x.state = "open" /\ x.c2s = <<>>) => ParseFrame(b) # Incomplete
    BY <2>6, <2>7, <2>12 DEF p
  <2>14. b = <<>> => ParseFrame(b) = Incomplete
    BY NoFrame
  <2> QED BY <1>4, <2>9, <2>10, <2>11, <2>13, <2>14 DEF b, p, c, e
<1>5. CASE queue = <<>>
  <2>1. w = rest
    <3>1. Wire(queue) = <<>>
      BY <1>0, <1>5, WireFacts
    <3> QED BY <3>1 DEF w
  <2>2. ParseFrame(w).tag # "ok"
    BY <1>1, <2>1
  <2>3. ParseFrame(b).tag # "ok"
    BY <1>3, <2>2, Tags
  <2>4. pr = "app_server" => b = <<>>
    <3>1. pr = "app_server" => b \o r = <<>>
      BY <1>1, <1>2, <2>1
    <3> QED BY <1>0, <3>1
  <2>5. pr = "app_server" => ParseFrame(b).tag # "malformed"
    BY <2>4, NoFrame, Tags
  <2> QED BY <1>5, <2>3, <2>5 DEF b
<1> QED BY <1>4, <1>5

(* A command is executed. *)
LEMMA StreamDone ==
  ASSUME NEW iss \in Seq(DOMAIN Answer), NEW pr, NEW x \in Conn, Stream(iss, pr, x),
         x.state # "eof", ParseFrame(x.buffer).tag = "ok",
         ParseFrame(x.buffer).next \in 1..(Len(x.buffer) + 1),
         ~x.garbled => ParseFrame(x.buffer).value \in DOMAIN Answer
  PROVE  Stream(iss, pr, Done(x, ParseFrame(x.buffer)))
<1> DEFINE frame == ParseFrame(x.buffer)
           y == Done(x, frame)
           b == x.buffer
<1>1. /\ y.sent = x.sent /\ y.garbled = x.garbled /\ y.state = x.state /\ y.c2s = x.c2s
      /\ y.buffer = SubSeq(b, frame.next, Len(b))
      /\ x.garbled => y.executed = x.executed
      /\ ~x.garbled => y.executed = Append(x.executed, frame.value)
  BY DoneFacts
<1> HIDE DEF y
<1>2. Commands(iss, y) = Commands(iss, x)
  BY <1>1 DEF Commands
<1>3. CASE x.garbled
  BY <1>1, <1>2, <1>3 DEF Stream, y
<1>4. CASE ~x.garbled
  <2>1. PICK queue : Queued(iss, pr, x, queue)
    BY <1>4 DEF Stream
  <2> DEFINE c == queue[1]
             e == EncodeCommand(c)
             t == Tail(queue)
  <2>2. /\ queue # <<>> /\ frame = Parsed(c, Len(e) + 1) /\ Len(e) <= Len(b)
        /\ queue \in Seq(DOMAIN Answer)
    <3>1. queue \in Seq(DOMAIN Answer)
      BY <2>1 DEF Queued
    <3> QED BY <2>1, <3>1, FrameOf
  <2>3. c \in DOMAIN Answer /\ t \in Seq(DOMAIN Answer)
    BY <2>2, HeadTail
  <2>4. e \in Seq(Byte) /\ Wire(t) \in Seq(Byte) /\ Wire(queue) = e \o Wire(t)
    BY <2>2, <2>3, AnswerBytes, WireFacts
  <2>5. frame.value = c /\ frame.next = Len(e) + 1
    BY <2>2, Tags
  <2>6. PICK rest \in Seq(Byte), r \in Seq(Byte) :
          /\ x.buffer \o r = Wire(queue) \o rest
          /\ ParseFrame(rest).tag # "ok"
          /\ pr = "app_server" => rest = <<>>
          /\ x.state \in {"open", "fin"} => r = x.c2s
    BY <2>1 DEF Queued
  <2> DEFINE n == Len(e)
             p == SubSeq(b, 1, n)
             q == SubSeq(b, n + 1, Len(b))
             u == q \o r
             v == Wire(t) \o rest
  <2>7. /\ b \in Seq(Byte) /\ n \in 0..Len(b)
    <3>1. b \in Seq(Byte)
      BY DEF Conn
    <3> QED BY <2>2, <2>4, <3>1
  <2>8. p \in Seq(Byte) /\ Len(p) = n /\ q \in Seq(Byte) /\ b = p \o q
    <3> HIDE DEF b, n
    <3> QED BY <2>7, SplitAt
  <2>9. u \in Seq(Byte) /\ v \in Seq(Byte)
    <3> HIDE DEF q
    <3> QED BY <2>4, <2>6, <2>8
  <2>10. p \o u = e \o v
    <3> DEFINE w == Wire(t)
    <3>1. (p \o q) \o r = p \o (q \o r)
      <4> HIDE DEF p, q
      <4> QED BY <2>6, <2>8, BytesAssoc
    <3>2. (e \o w) \o rest = e \o (w \o rest)
      <4>1. w \in Seq(Byte) /\ e \in Seq(Byte)
        BY <2>4
      <4> HIDE DEF w, e
      <4> QED BY <2>6, <4>1, BytesAssoc
    <3> HIDE DEF p, q, e
    <3> QED BY <2>4, <2>6, <2>8, <3>1, <3>2
  <2>11. q \o r = Wire(t) \o rest
    <3>1. p \in Seq(Byte) /\ e \in Seq(Byte) /\ Len(p) = Len(e)
      BY <2>4, <2>8
    <3> HIDE DEF p, u, e, v
    <3>2. u = v
      BY <2>9, <2>10, <3>1, SameParts
    <3> QED BY <3>2 DEF u, v
  <2>12. Commands(iss, x) = Append(x.executed, c) \o t
    <3>1. x.executed \in Seq(DOMAIN Answer) /\ Commands(iss, x) = x.executed \o queue
      BY <2>1 DEF Queued, Conn
    <3> QED BY <2>2, <3>1, HeadTail
  <2>13. y.buffer = q /\ y.executed = Append(x.executed, c)
    BY <1>1, <1>4, <2>5
  <2> HIDE DEF q, t, frame
  <2>14. Queued(iss, pr, y, t)
    BY <1>1, <1>2, <2>3, <2>6, <2>11, <2>12, <2>13 DEF Queued
  <2>15. ~y.garbled
    BY <1>1, <1>4
  <2>16. Stream(iss, pr, y)
    BY <1>1, <2>14, <2>15 DEF Stream
  <2> QED BY <2>16 DEF y, frame
<1> QED BY <1>3, <1>4

(* The bytes are no command. *)
LEMMA StreamFailed ==
  ASSUME NEW iss \in Seq(DOMAIN Answer), NEW pr \in {"app_server", "raw_client"},
         NEW x \in Conn, Stream(iss, pr, x), ParseFrame(x.buffer).tag = "malformed"
  PROVE  Stream(iss, pr, Failed(x))
<1> DEFINE y == Failed(x)
<1>1. y.sent = x.sent /\ y.executed = x.executed /\ y.garbled
  BY FailedFacts
<1> HIDE DEF y
<1>2. Commands(iss, y) = Commands(iss, x)
  BY <1>1 DEF Commands
<1>3. pr = "raw_client" /\ Commands(iss, x) = x.executed
  <2>1. CASE x.garbled
    BY <2>1 DEF Stream
  <2>2. CASE ~x.garbled
    <3>1. PICK queue : Queued(iss, pr, x, queue)
      BY <2>2 DEF Stream
    <3>2. queue = <<>> /\ pr # "app_server"
      BY <3>1, FrameOf
    <3>3. x.executed \in Seq(DOMAIN Answer) /\ Commands(iss, x) = x.executed \o queue
      BY <3>1 DEF Queued, Conn
    <3> QED BY <3>2, <3>3
  <2> QED BY <2>1, <2>2
<1>4. Stream(iss, pr, y)
  BY <1>1, <1>2, <1>3 DEF Stream
<1> QED BY <1>4 DEF y

(* A command after the second of two sequences. *)
LEMMA AppendLast ==
  \A a, q \in Seq(DOMAIN Answer), c \in DOMAIN Answer : Append(a \o q, c) = a \o Append(q, c)
OBVIOUS

(* A command is sent. *)
LEMMA StreamCommanded ==
  ASSUME NEW iss \in Seq(DOMAIN Answer), NEW x \in Conn, Stream(iss, "app_server", x),
         x.state # "reset", NEW id \in 1..Len(iss)
  PROVE  /\ Stream(iss, "app_server", Commanded(x, id, EncodeCommand(iss[id])))
         /\ Commands(iss, Commanded(x, id, EncodeCommand(iss[id]))) =
              Append(Commands(iss, x), iss[id])
<1> DEFINE c == iss[id]
           e == EncodeCommand(c)
           y == Commanded(x, id, e)
<1>0. c \in DOMAIN Answer
  OBVIOUS
<1>1. e \in Seq(Byte) /\ id \in Nat
  BY <1>0, AnswerBytes
<1> HIDE DEF e
<1>2. /\ y.c2s = x.c2s \o e /\ y.buffer = x.buffer /\ y.state = x.state
      /\ y.sent = Append(x.sent, id) /\ y.executed = x.executed /\ y.garbled = x.garbled
  BY <1>1, CommandedFacts
<1> HIDE DEF y
<1>3. \A k \in 1..Len(x.sent) : x.sent[k] \in 1..Len(iss)
  BY DEF Stream
<1>4. /\ x.sent \in Seq(Nat) /\ x.executed \in Seq(DOMAIN Answer) /\ x.buffer \in Seq(Byte)
      /\ x.c2s \in Seq(Byte) /\ DOMAIN x.sent = 1..Len(x.sent)
      /\ Commands(iss, x) \in Seq(DOMAIN Answer) /\ Len(Commands(iss, x)) = Len(x.sent)
      /\ \A k \in 1..Len(x.sent) : Commands(iss, x)[k] = iss[x.sent[k]]
  BY <1>3, CommandsFacts
<1>5. /\ Len(y.sent) = Len(x.sent) + 1 /\ DOMAIN y.sent = 1..(Len(x.sent) + 1)
      /\ y.sent[Len(x.sent) + 1] = id
      /\ \A k \in 1..Len(x.sent) : y.sent[k] = x.sent[k]
      /\ Len(x.sent) \in Nat
  BY <1>1, <1>2, <1>4
<1>6. \A k \in 1..Len(y.sent) : y.sent[k] \in 1..Len(iss)
  <2> DEFINE n == Len(x.sent)
  <2>1. /\ Len(y.sent) = n + 1 /\ n \in Nat /\ y.sent[n + 1] \in 1..Len(iss)
        /\ \A k \in 1..n : y.sent[k] \in 1..Len(iss)
    BY <1>3, <1>5
  <2> HIDE DEF n
  <2> QED BY ONLY <2>1
<1>7. Commands(iss, y) = Append(Commands(iss, x), c)
  <2> DEFINE a == Commands(iss, x)
             n == Len(x.sent)
             s == [k \in 1..(n + 1) |-> iss[y.sent[k]]]
  <2>1. Commands(iss, y) = s
    BY <1>5 DEF Commands
  <2>2. /\ n \in Nat /\ a \in Seq(DOMAIN Answer) /\ Len(a) = n
        /\ \A k \in 1..n : a[k] = iss[y.sent[k]] /\ iss[y.sent[k]] \in DOMAIN Answer
        /\ iss[y.sent[n + 1]] = c /\ c \in DOMAIN Answer
    <3>1. /\ n \in Nat /\ a \in Seq(DOMAIN Answer) /\ Len(a) = n
          /\ \A k \in 1..n : a[k] = iss[x.sent[k]] /\ y.sent[k] = x.sent[k]
          /\ y.sent[n + 1] = id
      BY <1>4, <1>5
    <3>2. \A k \in 1..n : iss[x.sent[k]] \in DOMAIN Answer
      BY <1>3
    <3> QED BY <1>0, <3>1, <3>2
  <2> HIDE DEF a, n, c
  <2>3. /\ Append(a, c) \in Seq(DOMAIN Answer) /\ Len(Append(a, c)) = n + 1
        /\ \A k \in 1..n : Append(a, c)[k] = a[k]
        /\ Append(a, c)[n + 1] = c
    BY <2>2
  <2>4. s \in Seq(DOMAIN Answer) /\ Len(s) = n + 1
    <3>1. \A k \in 1..(n + 1) : iss[y.sent[k]] \in DOMAIN Answer
      BY <2>2
    <3>2. n + 1 \in Nat /\ s \in [1..(n + 1) -> DOMAIN Answer]
      BY <2>2, <3>1
    <3> DEFINE m == n + 1
    <3>3. m \in Nat /\ s \in [1..m -> DOMAIN Answer]
      BY <3>2
    <3> HIDE DEF s, m
    <3>4. s \in Seq(DOMAIN Answer) /\ Len(s) = m
      BY <3>3, FunSeq
    <3> QED BY <3>4 DEF m
  <2>5. \A k \in 1..(n + 1) : s[k] = Append(a, c)[k]
    BY <2>2, <2>3
  <2> DEFINE z == Append(a, c)
  <2>6. /\ z \in Seq(DOMAIN Answer) /\ Len(s) = Len(z) /\ s \in Seq(DOMAIN Answer)
        /\ \A k \in 1..Len(s) : s[k] = z[k]
    BY <2>3, <2>4, <2>5
  <2> HIDE DEF s, z
  <2>7. s = z
    BY <2>6, SameElements
  <2> QED BY <2>1, <2>7 DEF a, z
<1>8. ~y.garbled /\ ~x.garbled
  BY <1>2 DEF Stream, Conn
<1>9. PICK queue : Queued(iss, "app_server", x, queue)
  BY <1>8 DEF Stream
<1>10. PICK rest \in Seq(Byte), r \in Seq(Byte) :
         /\ x.buffer \o r = Wire(queue) \o rest
         /\ rest = <<>>
         /\ ParseFrame(rest).tag # "ok"
         /\ x.state \in {"open", "fin"} => r = x.c2s
         /\ x.state = "eof" => x.buffer = <<>>
  BY <1>9 DEF Queued
<1>11. queue \in Seq(DOMAIN Answer) /\ Commands(iss, x) = x.executed \o queue
  BY <1>9 DEF Queued
<1> DEFINE q == Append(queue, c)
<1>12. q \in Seq(DOMAIN Answer) /\ Wire(q) = Wire(queue) \o e /\ Wire(queue) \in Seq(Byte)
  <2>1. queue \in Seq(DOMAIN Answer) /\ c \in DOMAIN Answer
    BY <1>0, <1>11
  <2>2. Wire(queue) \in Seq(Byte) /\ Wire(Append(queue, c)) = Wire(queue) \o EncodeCommand(c)
    BY ONLY <2>1, WireFacts, Zenon
  <2>3. Append(queue, c) \in Seq(DOMAIN Answer)
    <3> HIDE DEF c
    <3> QED BY ONLY <2>1
  <2> QED BY ONLY <2>2, <2>3, Zenon DEF e, q
<1>13. Commands(iss, y) = x.executed \o q
  <2> DEFINE e1 == x.executed
  <2>1. e1 \in Seq(DOMAIN Answer) /\ Commands(iss, x) = e1 \o queue
    BY <1>4, <1>11
  <2> HIDE DEF e1, c
  <2>2. Append(e1 \o queue, c) = e1 \o Append(queue, c)
    <3>1. e1 \in Seq(DOMAIN Answer) /\ queue \in Seq(DOMAIN Answer) /\ c \in DOMAIN Answer
      BY <1>0, <1>11, <2>1 DEF c
    <3> QED BY ONLY <3>1, AppendLast, Zenon
  <2> QED BY <1>7, <2>1, <2>2 DEF e1
<1> DEFINE s == r \o e
<1>14. s \in Seq(Byte) /\ y.buffer \o s = Wire(q) \o rest
  <2> DEFINE b == x.buffer
             w == Wire(queue)
  <2>1. b \in Seq(Byte) /\ w \in Seq(Byte) /\ b \o r = w \o rest /\ y.buffer = b /\ Wire(q) = w \o e
    BY <1>2, <1>4, <1>10, <1>12
  <2> HIDE DEF b, w, q, s, c
  <2>2. b \o (r \o e) = (b \o r) \o e
    <3>1. b \in Seq(Byte) /\ r \in Seq(Byte) /\ e \in Seq(Byte)
      BY <1>1, <1>10, <2>1
    <3>2. Same3(b, r, e)
      BY <3>1, BytesSame
    <3> QED BY ONLY <3>2 DEF Same3
  <2>3. w \o rest = w /\ (w \o e) \o rest = w \o e /\ r \o e \in Seq(Byte)
    BY <1>1, <1>10, <2>1
  <2> QED BY <2>1, <2>2, <2>3 DEF s
<1>15. /\ y.state \in {"open", "fin"} => s = y.c2s
       /\ y.state = "eof" => y.buffer = <<>>
  BY <1>2, <1>10
<1> HIDE DEF s, q
<1>16. Queued(iss, "app_server", y, q)
  BY <1>2, <1>10, <1>12, <1>13, <1>14, <1>15 DEF Queued
<1>17. Stream(iss, "app_server", y)
  BY <1>6, <1>8, <1>16 DEF Stream
<1> QED BY <1>7, <1>17 DEF y, e

(* A call is begun. *)
LEMMA StreamBegun ==
  ASSUME NEW iss \in Seq(DOMAIN Answer), NEW pr, NEW x \in Conn, Stream(iss, pr, x),
         NEW c \in DOMAIN Answer
  PROVE  Stream(Append(iss, c), pr, x) /\ Commands(Append(iss, c), x) = Commands(iss, x)
<1> DEFINE z == Append(iss, c)
<1>1. Len(z) = Len(iss) + 1 /\ Len(iss) \in Nat /\ \A i \in 1..Len(iss) : z[i] = iss[i]
  OBVIOUS
<1>2. \A k \in 1..Len(x.sent) : x.sent[k] \in 1..Len(iss)
  BY DEF Stream
<1>3. DOMAIN x.sent = 1..Len(x.sent)
  BY DEF Conn
<1> HIDE DEF z
<1>4. Commands(z, x) = Commands(iss, x)
  BY <1>1, <1>2, <1>3 DEF Commands
<1>5. \A k \in 1..Len(x.sent) : x.sent[k] \in 1..Len(z)
  BY <1>1, <1>2
<1>6. Stream(z, pr, x)
  BY <1>4, <1>5 DEF Stream, Queued
<1> QED BY <1>4, <1>6 DEF z

(* A new connection, and that of a client that pipelines commands. *)
LEMMA StreamNew ==
  ASSUME NEW iss, NEW pr
  PROVE  Stream(iss, pr, NewConn)
<1> DEFINE o == <<>>
           x == NewConn
<1>1. /\ x.sent = o /\ x.executed = o /\ x.buffer = o /\ x.c2s = o /\ ~x.garbled
      /\ x.state = "open"
  BY DEF NewConn
<1>2. Commands(iss, x) = o
  BY <1>1 DEF Commands
<1>3. o \in Seq(DOMAIN Answer) /\ o \in Seq(Byte) /\ o \o o = o /\ Len(o) = 0 /\ Wire(o) = o
  <2>1. o \in Seq(DOMAIN Answer)
    OBVIOUS
  <2>2. o \in Seq(Byte) /\ o \o o = o /\ Len(o) = 0
    OBVIOUS
  <2>3. Wire(<<>>) = <<>>
    BY <2>1, WireFacts
  <2> QED BY <2>1, <2>2, <2>3
<1>4. ParseFrame(o).tag # "ok"
  BY NoFrame, Tags
<1> HIDE DEF o, x
<1>5. x.buffer \o o = Wire(o) \o o
  BY <1>1, <1>3
<1>6. Queued(iss, pr, x, o)
  BY <1>1, <1>2, <1>3, <1>4, <1>5 DEF Queued, o
<1>7. 1..Len(x.sent) = {}
  BY <1>1, <1>3
<1>8. Stream(iss, pr, x)
  BY <1>1, <1>6, <1>7 DEF Stream
<1> QED BY <1>8 DEF x

Piped(s) == [NewConn EXCEPT !.c2s = Bytes(s), !.sent = [i \in DOMAIN s.commands |-> i]]

(* What it has sent. *)
LEMMA PipedFacts ==
  ASSUME NEW s \in Streams
  PROVE  /\ s.commands \in Seq(DOMAIN Answer) /\ s.rest \in Seq(Byte)
         /\ Bytes(s) = Wire(s.commands) \o s.rest /\ Bytes(s) \in Seq(Byte)
         /\ Piped(s) \in Conn /\ Piped(s).c2s = Bytes(s)
         /\ Piped(s).sent = [i \in 1..Len(s.commands) |-> i] /\ Piped(s).executed = <<>>
         /\ Piped(s).buffer = <<>> /\ Piped(s).state = "open" /\ ~Piped(s).garbled
         /\ ~Piped(s).lagging /\ Piped(s).s2c = <<>>
         /\ Len(Piped(s).sent) = Len(s.commands)
<1> DEFINE q == s.commands
           w == Wire(q)
           x == Piped(s)
<1>1. /\ q \in Seq(DOMAIN Answer) /\ s.rest \in Seq(Byte)
      /\ DOMAIN q = 1..Len(q) /\ Len(q) \in Nat
  BY StreamsAssumption
<1>2. Bytes(s) = w \o s.rest
  <2>1. [i \in DOMAIN q |-> EncodeCommand(q[i])] =
          [i \in DOMAIN q |-> [c \in DOMAIN Answer |-> EncodeCommand(c)][q[i]]]
    BY <1>1
  <2> QED BY <2>1, Zenon DEF Bytes, Wire, Concats
<1>3. w \in Seq(Byte) /\ Bytes(s) \in Seq(Byte)
  <2>1. w \in Seq(Byte)
    BY <1>1, WireFacts
  <2> HIDE DEF w
  <2> QED BY <1>1, <1>2, <2>1
<1> DEFINE n == Len(q)
           d == [i \in 1..n |-> i]
<1>4. d \in Seq(Nat) /\ Len(d) = n
  <2>1. n \in Nat /\ d \in [1..n -> Nat]
    BY <1>1
  <2> HIDE DEF d, n
  <2> QED BY <2>1, FunSeq
<1>5. x = [NewConn EXCEPT !.c2s = Bytes(s), !.sent = d]
  BY <1>1 DEF Piped
<1> HIDE DEF d, x
<1>6. /\ x \in Conn /\ x.c2s = Bytes(s) /\ x.sent = d /\ x.executed = <<>> /\ x.buffer = <<>>
      /\ x.state = "open" /\ ~x.garbled /\ ~x.lagging /\ x.s2c = <<>>
  <2>1. <<>> \in Seq(Byte) /\ <<>> \in Seq(DOMAIN Answer)
    OBVIOUS
  <2> QED BY <1>3, <1>4, <1>5, <2>1 DEF NewConn, Conn
<1> QED BY <1>1, <1>2, <1>3, <1>4, <1>6 DEF d, x

(* Its stream. *)
LEMMA StreamPiped ==
  ASSUME NEW s \in Streams, NEW pr, pr # "app_server"
  PROVE  Stream(s.commands, pr, Piped(s))
<1> DEFINE q == s.commands
           o == <<>>
           w == Wire(q)
           x == Piped(s)
           r == Bytes(s)
<1>1. /\ q \in Seq(DOMAIN Answer) /\ s.rest \in Seq(Byte) /\ ParseFrame(s.rest).tag # "ok"
      /\ r = w \o s.rest /\ r \in Seq(Byte)
      /\ x.c2s = r /\ x.sent = [i \in 1..Len(q) |-> i] /\ x.executed = o
      /\ x.buffer = o /\ x.state = "open" /\ ~x.garbled /\ Len(x.sent) = Len(q)
  BY PipedFacts, StreamsAssumption
<1> HIDE DEF x, r, w
<1>2. Commands(q, x) = q
  <2>1. Commands(q, x) = [i \in 1..Len(q) |-> q[i]]
    BY <1>1 DEF Commands
  <2> QED BY <1>1, <2>1
<1>3. o \o q = q /\ o \o r = r
  BY <1>1
<1>4. /\ x.buffer \o r = Wire(q) \o s.rest
      /\ x.state \in {"open", "fin"} => r = x.c2s
      /\ x.state # "eof" /\ Commands(q, x) = x.executed \o q
  BY <1>1, <1>2, <1>3 DEF w
<1> HIDE DEF o
<1>5. Queued(q, pr, x, q)
  <2> HIDE DEF q
  <2> QED BY <1>1, <1>4 DEF Queued
<1>6. \A k \in 1..Len(x.sent) : x.sent[k] \in 1..Len(q)
  BY <1>1
<1>7. Stream(q, pr, x)
  <2> HIDE DEF q
  <2> QED BY <1>1, <1>5, <1>6 DEF Stream
<1> QED BY <1>7 DEF x

-----------------------------------------------------------------------------
(* Types, the use of the lock and the streams of requests *)

Streams1 == \A c \in 1..Len(conns) : Stream(issued, peer, conns[c])

Base == Types /\ Control /\ Streams1

(* What a step leaves of a call. *)
LEMMA CallFields ==
  ASSUME Types, NEW t \in Threads, NEW r, NEW b, NEW k
  PROVE  LET x == thread[t]
             ended == [x EXCEPT !.pc = "idle", !.buffer = <<>>, !.result = r]
             entered == [x EXCEPT !.pc = "send"]
             sent == [x EXCEPT !.pc = "read", !.clean = k]
             retried == [x EXCEPT !.pc = "send", !.attempt = 2, !.buffer = <<>>]
             reads == [x EXCEPT !.buffer = b]
         IN /\ x.pc \in {"idle", "lock", "send", "read"} /\ x.attempt \in {1, 2} /\ x.id \in Nat
            /\ x.clean \in BOOLEAN /\ x.buffer \in Seq(Byte)
            /\ ended.pc = "idle" /\ ended.id = x.id /\ ended.attempt = x.attempt
            /\ ended.buffer = <<>> /\ ended.clean = x.clean /\ ended.result = r
            /\ entered.pc = "send" /\ entered.id = x.id /\ entered.attempt = x.attempt
            /\ entered.buffer = x.buffer /\ entered.clean = x.clean /\ entered.result = x.result
            /\ sent.pc = "read" /\ sent.id = x.id /\ sent.attempt = x.attempt
            /\ sent.buffer = x.buffer /\ sent.clean = k /\ sent.result = x.result
            /\ retried.pc = "send" /\ retried.id = x.id /\ retried.attempt = 2
            /\ retried.buffer = <<>> /\ retried.clean = x.clean /\ retried.result = x.result
            /\ reads.pc = x.pc /\ reads.id = x.id /\ reads.attempt = x.attempt
            /\ reads.buffer = b /\ reads.clean = x.clean /\ reads.result = x.result
<1>1. PICK R : thread \in [Threads -> Call(R)]
  BY DEF Types
<1>2. thread[t] \in Call(R)
  BY <1>1
<1> QED BY <1>2 DEF Call

(* The call that execute() begins with. *)
LEMMA NewCallFields ==
  ASSUME NEW i
  PROVE  LET z == [NoCall EXCEPT !.pc = "lock", !.id = i]
         IN /\ z.pc = "lock" /\ z.id = i /\ z.attempt = 1 /\ z.buffer = <<>>
            /\ z.clean /\ z.result = [tag |-> "none"]
BY DEF NoCall

(* The types after a step. *)
LEMMA TypesAfter ==
  ASSUME Types, peer' = peer, issued' \in Seq(DOMAIN Answer), holder' \in Threads \cup {None},
         conns' \in Seq(Conn), current' \in 0..Len(conns'), Fault \/ UNCHANGED faults,
         cuts' \in 0..MaxCuts, \E Results : thread' \in [Threads -> Call(Results)]
  PROVE  Types'
<1>1. faults' \in 0..MaxFaults
  BY TypeFacts, BoundsAssumption DEF Fault
<1>2. peer' \in {"app_server", "raw_client"}
  BY TypeFacts
<1> QED BY <1>1, <1>2 DEF Types

(* Who uses the connection after a step of the holder of the lock. *)
LEMMA ControlAfter ==
  ASSUME Types, Control, NEW t \in Threads, NEW z, Moved(t, z),
         peer = "app_server", peer' = peer, issued' = issued,
         thread[t].pc # "idle",
         thread[t].pc \in {"send", "read"} \/ holder = None,
         z.id = thread[t].id,
         \/ z.pc = "send" /\ holder' = t /\ current' # 0 /\ z.buffer = <<>>
            /\ z.result = thread[t].result
         \/ z.pc = "read" /\ holder' = t /\ current' # 0 /\ z.result = thread[t].result
         \/ z.pc = "idle" /\ holder' = None /\ z.buffer = <<>>,
         \A c \in 1..Len(conns') : conns'[c].state = "fin" => c # current',
         conns' \in Seq(Conn)
  PROVE  Control'
<1>1. \A u \in Threads : CallOK(u)
  BY DEF Control
<1>2. CallOK(t)'
  <2>1. t # None
    BY NoneAssumption
  <2>2. /\ thread'[t] = z /\ thread[t].id \in 0..Len(issued) /\ thread[t].id # 0
        /\ issued[thread[t].id] \in Calls[t] /\ thread[t].result = [tag |-> "none"]
    BY <1>1 DEF CallOK, Moved
  <2> QED BY <2>1, <2>2 DEF CallOK
<1>3. ASSUME NEW u \in Threads, u # t PROVE CallOK(u)'
  <2>1. thread'[u] = thread[u]
    BY <1>3 DEF Moved
  <2>2. thread[u].pc \notin {"send", "read"} /\ holder' # u
    BY <1>1, <1>3, NoneAssumption DEF CallOK
  <2> QED BY <1>1, <2>1, <2>2 DEF CallOK
<1>4. DOMAIN conns' = 1..Len(conns')
  OBVIOUS
<1> QED BY <1>2, <1>3, <1>4 DEF Control

(* Nothing changes for the calls when the server does something. *)
LEMMA ControlServed ==
  ASSUME Types, Control, Serves, NEW c \in 1..Len(conns), NEW y, Changed(c, y),
         y.state = "fin" => conns[c].state = "fin"
  PROVE  Control'
<1>1. \A u \in Threads : CallOK(u)'
  BY DEF Control, CallOK, Serves
<1>2. DOMAIN conns = 1..Len(conns) /\ DOMAIN conns' = 1..Len(conns)
  BY TypeFacts DEF Changed
<1>3. \A k \in 1..Len(conns) : conns'[k].state = "fin" => k # current'
  BY <1>2 DEF Control, Serves, Changed
<1> QED BY <1>1, <1>2, <1>3 DEF Control

(* The streams after a step that changes one connection. *)
LEMMA StreamsChanged ==
  ASSUME Base, NEW c \in 1..Len(conns), NEW y, Changed(c, y), peer' = peer, issued' = issued,
         Stream(issued, peer, y)
  PROVE  Streams1'
<1>1. ASSUME NEW k \in 1..Len(conns') PROVE Stream(issued', peer', conns'[k])
  BY DEF Base, Streams1, Changed
<1> QED BY <1>1 DEF Streams1

(* The streams after a step that closes one connection and makes another. *)
LEMMA StreamsReplaced ==
  ASSUME Base, NEW c \in 1..Len(conns), NEW y, Replaced(c, y), peer' = peer, issued' = issued,
         Stream(issued, peer, y)
  PROVE  Streams1'
<1>1. ASSUME NEW k \in 1..Len(conns') PROVE Stream(issued', peer', conns'[k])
  <2>1. Len(conns) \in Nat
    BY TypeFacts DEF Base
  <2>2. k \in 1..Len(conns) \/ k = Len(conns) + 1
    BY <2>1 DEF Replaced
  <2>3. Stream(issued, peer, NewConn)
    BY StreamNew
  <2> QED BY <2>2, <2>3 DEF Base, Streams1, Replaced
<1> QED BY <1>1 DEF Streams1

(* The streams after a step that makes a connection. *)
LEMMA StreamsAdded ==
  ASSUME Base, Added, peer' = peer, issued' = issued
  PROVE  Streams1'
<1>1. ASSUME NEW k \in 1..Len(conns') PROVE Stream(issued', peer', conns'[k])
  <2>1. Len(conns) \in Nat
    BY TypeFacts DEF Base
  <2>2. k \in 1..Len(conns) \/ k = Len(conns) + 1
    BY <2>1 DEF Added
  <2>3. Stream(issued, peer, NewConn)
    BY StreamNew
  <2> QED BY <2>2, <2>3 DEF Base, Streams1, Added
<1> QED BY <1>1 DEF Streams1

(* Closing a connection, or leaving it behind, keeps its stream. *)
LEMMA StreamClosed ==
  ASSUME Base, NEW c \in 1..Len(conns)
  PROVE  /\ Stream(issued, peer, Close(conns[c])) /\ Stream(issued, peer, Lag(conns[c]))
         /\ \A n \in 1..Len(conns[c].s2c) : Stream(issued, peer, Fetched(conns[c], n))
<1> DEFINE x == conns[c]
<1>1. x \in Conn /\ Stream(issued, peer, x)
  BY ConnOf DEF Base, Streams1
<1> HIDE DEF x
<1>2. Stream(issued, peer, Close(x))
  <2> DEFINE y == Close(x)
  <2>1. /\ y.sent = x.sent /\ y.executed = x.executed /\ y.garbled = x.garbled
        /\ y.buffer = x.buffer /\ y.c2s = x.c2s
        /\ y.state \in {"fin", "reset"} /\ (y.state = "fin" => x.state = "open")
    BY <1>1, CloseFacts DEF Conn
  <2> HIDE DEF y
  <2> QED BY <1>1, <2>1, StreamKept DEF y
<1>3. Stream(issued, peer, Lag(x))
  <2> DEFINE y == Lag(x)
  <2>1. /\ y.sent = x.sent /\ y.executed = x.executed /\ y.garbled = x.garbled
        /\ y.buffer = x.buffer /\ y.c2s = x.c2s /\ y.state = x.state
    BY <1>1, LagFacts
  <2> HIDE DEF y
  <2> QED BY <1>1, <2>1, StreamKept DEF y
<1>4. ASSUME NEW n \in 1..Len(x.s2c) PROVE Stream(issued, peer, Fetched(x, n))
  <2> DEFINE y == Fetched(x, n)
  <2>1. /\ y.sent = x.sent /\ y.executed = x.executed /\ y.garbled = x.garbled
        /\ y.buffer = x.buffer /\ y.c2s = x.c2s /\ y.state = x.state
    BY <1>1, FetchedFacts
  <2> HIDE DEF y
  <2> QED BY <1>1, <2>1, StreamKept DEF y
<1> QED BY <1>2, <1>3, <1>4 DEF x

(* At the start. *)
LEMMA InitBase == Init => Base
<1> SUFFICES ASSUME Init PROVE Base
  OBVIOUS
<1>1. /\ thread = [t \in Threads |-> NoCall] /\ holder = None /\ current = 0
      /\ faults = 0 /\ cuts = 0
  BY DEF Init
<1>2. MaxFaults \in Nat /\ MaxCuts \in Nat
  BY BoundsAssumption
<1>3. faults \in 0..MaxFaults /\ cuts \in 0..MaxCuts
  BY <1>1, <1>2
<1>4. \E Results : thread \in [Threads -> Call(Results)]
  <2>1. NoCall \in Call({[tag |-> "none"]})
    <3>1. <<>> \in Seq(Byte)
      OBVIOUS
    <3> QED BY <3>1 DEF NoCall, Call
  <2> QED BY <1>1, <2>1
<1>5. /\ peer \in {"app_server", "raw_client"} /\ issued \in Seq(DOMAIN Answer)
      /\ conns \in Seq(Conn)
      /\ \A c \in 1..Len(conns) : Stream(issued, peer, conns[c]) /\ conns[c].state = "open"
  <2>1. CASE peer = "app_server" /\ issued = <<>> /\ conns = <<>>
    BY <2>1
  <2>2. CASE /\ peer = "raw_client"
             /\ \E s \in Streams :
                  /\ issued = s.commands
                  /\ conns = <<[NewConn EXCEPT !.c2s = Bytes(s),
                                               !.sent = [i \in DOMAIN s.commands |-> i]]>>
    <3>1. PICK s \in Streams :
            /\ issued = s.commands
            /\ conns = <<[NewConn EXCEPT !.c2s = Bytes(s),
                                         !.sent = [i \in DOMAIN s.commands |-> i]]>>
      BY <2>2
    <3> DEFINE x == Piped(s)
               pr == peer
    <3>2. peer # "app_server"
      BY <2>2
    <3>3. x \in Conn /\ Stream(s.commands, peer, x) /\ x.state = "open"
      <4>1. pr # "app_server"
        BY <3>2
      <4> HIDE DEF pr
      <4>2. Stream(s.commands, pr, Piped(s))
        BY <4>1, StreamPiped
      <4>3. Piped(s) \in Conn /\ Piped(s).state = "open"
        BY PipedFacts
      <4> QED BY <4>2, <4>3 DEF pr
    <3>4. conns = <<x>>
      BY <3>1 DEF Piped
    <3> HIDE DEF x
    <3>5. conns \in Seq(Conn) /\ Len(conns) = 1 /\ conns[1] = x
      BY <3>3, <3>4
    <3>6. issued \in Seq(DOMAIN Answer)
      BY <3>1, PipedFacts
    <3>7. ASSUME NEW c \in 1..Len(conns)
          PROVE  Stream(issued, peer, conns[c]) /\ conns[c].state = "open"
      <4>1. c = 1
        BY <3>5
      <4> QED BY <3>1, <3>3, <3>5, <4>1
    <3> QED BY <2>2, <3>5, <3>6, <3>7
  <2> QED BY <2>1, <2>2 DEF Init
<1>6. Types
  <2>1. holder \in Threads \cup {None} /\ current \in 0..Len(conns)
    BY <1>1, <1>5
  <2> QED BY <1>3, <1>4, <1>5, <2>1 DEF Types
<1>7. Control
  <2>1. ASSUME NEW t \in Threads PROVE CallOK(t)
    <3>1. t # None /\ 0 \in 0..Len(issued)
      BY <1>5, NoneAssumption
    <3> QED BY <1>1, <3>1 DEF CallOK, NoCall
  <2>2. DOMAIN conns = 1..Len(conns)
    BY <1>5
  <2> QED BY <1>5, <2>1, <2>2 DEF Control
<1> QED BY <1>5, <1>6, <1>7 DEF Base, Streams1

(* A call of execute() keeps the invariant: issued grows at its end. *)
LEMMA BeginBase ==
  ASSUME Base, NEW t \in Threads, NEW tokens \in Calls[t], Begin(t, tokens)
  PROVE  Base'
<1> DEFINE z == [NoCall EXCEPT !.pc = "lock", !.id = Len(issued) + 1]
<1>0. Types /\ Control /\ Streams1
  BY DEF Base
<1>1. /\ peer = "app_server" /\ thread[t].pc = "idle"
      /\ issued' = Append(issued, tokens) /\ tokens \in DOMAIN Answer
      /\ Moved(t, z)
      /\ UNCHANGED <<peer, holder, current, conns, faults, cuts>>
  BY <1>0, BeginFacts
<1>2. /\ issued \in Seq(DOMAIN Answer) /\ Len(issued) \in Nat /\ conns \in Seq(Conn)
      /\ holder \in Threads \cup {None} /\ current \in 0..Len(conns) /\ cuts \in 0..MaxCuts
  BY <1>0, TypeFacts
<1>3. /\ issued' \in Seq(DOMAIN Answer) /\ Len(issued') = Len(issued) + 1
      /\ issued'[Len(issued) + 1] = tokens
      /\ \A i \in 1..Len(issued) : issued'[i] = issued[i]
  BY <1>1, <1>2
<1>4. Types'
  BY <1>0, <1>1, <1>2, <1>3, TypesAfter DEF Moved
<1>5. Streams1'
  BY <1>0, <1>1, <1>2, StreamBegun, ConnOf DEF Streams1
<1>6. Control'
  <2>1. \A u \in Threads : CallOK(u)
    BY <1>0 DEF Control
  <2>2. CallOK(t)'
    <3>1. /\ z.pc = "lock" /\ z.id = Len(issued) + 1 /\ z.attempt = 1 /\ z.buffer = <<>>
          /\ z.result = [tag |-> "none"]
      BY NewCallFields
    <3> HIDE DEF z
    <3>2. thread'[t] = z
      BY <1>1 DEF Moved
    <3>3. z.id \in 0..Len(issued') /\ z.id # 0
      BY <1>2, <1>3, <3>1
    <3>4. holder # t
      BY <1>1, <2>1 DEF CallOK
    <3> QED BY <1>1, <1>3, <3>1, <3>2, <3>3, <3>4 DEF CallOK
  <2>3. ASSUME NEW u \in Threads, u # t PROVE CallOK(u)'
    <3>1. thread'[u] = thread[u]
      BY <1>1, <2>3 DEF Moved
    <3>2. thread[u].id # 0 /\ thread[u].id \in 0..Len(issued) =>
            thread[u].id \in 0..Len(issued') /\ issued'[thread[u].id] = issued[thread[u].id]
      BY <1>2, <1>3
    <3>3. thread[u].id \in 0..Len(issued')
      <4>1. thread[u].id \in 0..Len(issued)
        BY <2>1 DEF CallOK
      <4> QED BY <1>2, <1>3, <4>1
    <3> QED BY <1>1, <2>1, <3>1, <3>2, <3>3 DEF CallOK
  <2> QED BY <1>0, <1>1, <2>2, <2>3 DEF Control
<1> QED BY <1>4, <1>5, <1>6 DEF Base

(* Taking the lock keeps the invariant, with the connection made or refused. *)
LEMMA EnterBase ==
  ASSUME Base, NEW t \in Threads, Enter(t)
  PROVE  Base'
<1> DEFINE x == thread[t]
           ended == [thread[t] EXCEPT !.pc = "idle", !.buffer = <<>>, !.result = Upstream]
           entered == [thread[t] EXCEPT !.pc = "send"]
<1>0. Types /\ Control /\ Streams1
  BY DEF Base
<1>1. /\ x.pc = "lock" /\ holder = None
      /\ \/ /\ current # 0 /\ holder' = t
            /\ Moved(t, entered)
            /\ UNCHANGED <<current, conns, faults>>
         \/ /\ current = 0 /\ holder' = t
            /\ Moved(t, entered)
            /\ Added /\ current' = Len(conns) + 1 /\ UNCHANGED faults
         \/ /\ current = 0 /\ Fault /\ holder' = None
            /\ Moved(t, ended)
            /\ UNCHANGED <<current, conns>>
      /\ UNCHANGED <<peer, issued, cuts>>
  BY <1>0, EnterFacts
<1>2. /\ issued \in Seq(DOMAIN Answer) /\ conns \in Seq(Conn) /\ Len(conns) \in Nat
      /\ holder \in Threads \cup {None} /\ current \in 0..Len(conns) /\ cuts \in 0..MaxCuts
      /\ DOMAIN conns = 1..Len(conns)
  BY <1>0, TypeFacts
<1>3. /\ entered.pc = "send" /\ entered.id = x.id /\ entered.buffer = x.buffer
      /\ entered.result = x.result
      /\ ended.pc = "idle" /\ ended.id = x.id /\ ended.buffer = <<>>
  BY <1>0, CallFields
<1> HIDE DEF ended, entered
<1>4. /\ x.buffer = <<>> /\ peer = "app_server"
      /\ \A c \in 1..Len(conns) : conns[c].state = "fin" => c # current
  BY <1>0, <1>1, <1>2 DEF Control, CallOK
<1>5. CASE current # 0 /\ holder' = t /\ Moved(t, entered) /\ UNCHANGED <<current, conns, faults>>
  <2>1. Types'
    BY <1>0, <1>1, <1>2, <1>5, TypesAfter DEF Moved
  <2>2. Control'
    BY <1>0, <1>1, <1>2, <1>3, <1>4, <1>5, ControlAfter
  <2>3. Streams1'
    BY <1>0, <1>1, <1>5 DEF Streams1
  <2> QED BY <2>1, <2>2, <2>3 DEF Base
<1>6. CASE /\ current = 0 /\ holder' = t /\ Moved(t, entered)
           /\ Added /\ current' = Len(conns) + 1 /\ UNCHANGED faults
  <2>0. conns' \in Seq(Conn) /\ Len(conns') = Len(conns) + 1 /\ current' \in 0..Len(conns')
        /\ current' # 0
    BY <1>2, <1>6 DEF Added
  <2>1. Types'
    BY <1>0, <1>1, <1>2, <1>6, <2>0, TypesAfter DEF Moved
  <2>2. \A c \in 1..Len(conns') : conns'[c].state = "fin" => c # current'
    <3>1. NewConn.state = "open"
      BY DEF NewConn
    <3> QED BY <1>2, <1>6, <3>1 DEF Added
  <2>3. Control'
    BY <1>0, <1>1, <1>2, <1>3, <1>4, <1>6, <2>0, <2>2, ControlAfter
  <2>4. Streams1'
    BY <1>1, <1>6, StreamsAdded
  <2> QED BY <2>1, <2>3, <2>4 DEF Base
<1>7. CASE /\ current = 0 /\ Fault /\ holder' = None /\ Moved(t, ended)
           /\ UNCHANGED <<current, conns>>
  <2>1. Types'
    BY <1>0, <1>1, <1>2, <1>7, TypesAfter DEF Moved
  <2>2. Control'
    BY <1>0, <1>1, <1>2, <1>3, <1>4, <1>7, ControlAfter
  <2>3. Streams1'
    BY <1>0, <1>1, <1>7 DEF Streams1
  <2> QED BY <2>1, <2>2, <2>3 DEF Base
<1> QED BY <1>1, <1>5, <1>6, <1>7

(* sendall() keeps the invariant: the command is queued behind the others. *)
LEMMA SendBase ==
  ASSUME Base, NEW t \in Threads, Send(t)
  PROVE  Base'
<1> DEFINE x == thread[t]
           c == conns[current]
           e == EncodeCommand(issued[x.id])
           y == Commanded(c, x.id, e)
           z == [thread[t] EXCEPT !.pc = "read", !.clean = ~conns[current].lagging]
<1>0. Types /\ Control /\ Streams1
  BY DEF Base
<1>1. /\ x.pc = "send" /\ c.state # "reset" /\ e \in Seq(Byte)
      /\ Changed(current, y) /\ Moved(t, z)
      /\ UNCHANGED <<peer, issued, holder, current, faults, cuts>>
  BY <1>0, SendFacts
<1>2. /\ peer = "app_server" /\ holder = t /\ current \in 1..Len(conns) /\ c \in Conn
      /\ x.id \in 1..Len(issued) /\ x.id \in Nat
  BY <1>0, <1>1, HolderFacts
<1>3. /\ issued \in Seq(DOMAIN Answer) /\ conns \in Seq(Conn) /\ Len(conns) \in Nat
      /\ holder \in Threads \cup {None} /\ current \in 0..Len(conns) /\ cuts \in 0..MaxCuts
      /\ DOMAIN conns = 1..Len(conns)
  BY <1>0, TypeFacts
<1>4. z.pc = "read" /\ z.id = x.id /\ z.result = x.result
  <2>1. \A k : LET w == [thread[t] EXCEPT !.pc = "read", !.clean = k]
               IN w.pc = "read" /\ w.id = x.id /\ w.result = x.result
    BY <1>0, CallFields
  <2> QED BY <2>1
<1> HIDE DEF z
<1>5. y.state = c.state
  <2> HIDE DEF e, c
  <2> QED BY <1>1, <1>2, CommandedFacts
<1>6. Stream(issued, peer, y)
  <2>1. Stream(issued, peer, c)
    BY <1>0, <1>2 DEF Streams1
  <2> HIDE DEF c
  <2> QED BY <1>1, <1>2, <1>3, <2>1, StreamCommanded
<1> HIDE DEF y
<1>7. Types'
  BY <1>0, <1>1, <1>3, TypesAfter DEF Moved, Changed
<1>8. \A k \in 1..Len(conns) : conns[k].state = "fin" => k # current
  BY <1>0, <1>3 DEF Control
<1>9. \A k \in 1..Len(conns') : conns'[k].state = "fin" => k # current'
  BY <1>1, <1>2, <1>3, <1>5, <1>8 DEF Changed
<1>10. Control'
  <2>1. conns' \in Seq(Conn) /\ current' # 0
    BY <1>1, <1>2 DEF Changed
  <2> QED BY <1>0, <1>1, <1>2, <1>4, <1>9, <2>1, ControlAfter
<1>11. Streams1'
  BY <1>1, <1>2, <1>6, StreamsChanged
<1> QED BY <1>7, <1>10, <1>11 DEF Base

(* An OSError keeps the invariant: the server may still execute what it got. *)
LEMMA BrokenBase ==
  ASSUME Base, NEW t \in Threads, Broken(t) \/ TimesOut(t)
  PROVE  Base'
<1> DEFINE x == thread[t]
           c == conns[current]
           ended == [thread[t] EXCEPT !.pc = "idle", !.buffer = <<>>, !.result = Upstream]
           retried == [thread[t] EXCEPT !.pc = "send", !.attempt = 2, !.buffer = <<>>]
<1>0. Types /\ Control /\ Streams1
  BY DEF Base
<1>1. /\ x.pc \in {"send", "read"}
      /\ \/ Retried(t) \/ GaveUp(t) \/ WasRefused(t)
      /\ Fault \/ UNCHANGED faults
  BY <1>0, BrokenFacts
<1>2. peer = "app_server" /\ holder = t /\ current \in 1..Len(conns) /\ c \in Conn
  BY <1>0, <1>1, HolderFacts
<1>3. /\ issued \in Seq(DOMAIN Answer) /\ conns \in Seq(Conn) /\ Len(conns) \in Nat
      /\ holder \in Threads \cup {None} /\ current \in 0..Len(conns) /\ cuts \in 0..MaxCuts
      /\ DOMAIN conns = 1..Len(conns)
  BY <1>0, TypeFacts
<1>4. /\ retried.pc = "send" /\ retried.id = x.id /\ retried.buffer = <<>>
      /\ retried.result = x.result
      /\ ended.pc = "idle" /\ ended.id = x.id /\ ended.buffer = <<>>
  BY <1>0, CallFields
<1> HIDE DEF ended, retried
<1>5. \A k \in 1..Len(conns) : conns[k].state = "fin" => k # current
  BY <1>0, <1>3 DEF Control
<1>6. Stream(issued, peer, Close(c)) /\ Stream(issued, peer, Lag(c)) /\ Lag(c).state = c.state
  BY <1>2, StreamClosed, LagFacts
<1>7. CASE Retried(t)
  <2> DEFINE y == Close(c)
  <2>1. /\ current' = Len(conns) + 1 /\ Replaced(current, y) /\ Moved(t, retried)
        /\ UNCHANGED <<peer, issued, holder, cuts>>
    BY <1>7 DEF Retried, retried
  <2> HIDE DEF y
  <2>2. /\ conns' \in Seq(Conn) /\ Len(conns') = Len(conns) + 1 /\ current' \in 0..Len(conns')
        /\ current' # 0
    BY <1>3, <2>1 DEF Replaced
  <2>3. Types'
    BY <1>0, <1>1, <1>3, <2>1, <2>2, TypesAfter DEF Moved
  <2>4. \A k \in 1..Len(conns') : conns'[k].state = "fin" => k # current'
    <3>1. NewConn.state = "open"
      BY DEF NewConn
    <3>2. conns'[current'] = NewConn
      BY <2>1 DEF Replaced
    <3> QED BY <3>1, <3>2
  <2>5. Control'
    BY <1>0, <1>1, <1>2, <1>4, <2>1, <2>2, <2>4, ControlAfter
  <2>6. Streams1'
    BY <1>2, <1>6, <2>1, StreamsReplaced DEF y
  <2> QED BY <2>3, <2>5, <2>6 DEF Base
<1>8. CASE GaveUp(t)
  <2> DEFINE y == Lag(c)
  <2>1. /\ Changed(current, y) /\ Moved(t, ended) /\ holder' = None
        /\ UNCHANGED <<peer, issued, current, cuts>>
    BY <1>8 DEF GaveUp, ended
  <2>2. y.state = c.state
    BY <1>6
  <2> HIDE DEF y
  <2>3. Types'
    BY <1>0, <1>1, <1>3, <2>1, TypesAfter DEF Moved, Changed
  <2>4. \A k \in 1..Len(conns') : conns'[k].state = "fin" => k # current'
    BY <1>2, <1>3, <1>5, <2>1, <2>2 DEF Changed
  <2>5. Control'
    <3>1. conns' \in Seq(Conn)
      BY <2>1 DEF Changed
    <3> QED BY <1>0, <1>1, <1>2, <1>4, <2>1, <2>4, <3>1, ControlAfter
  <2>6. Streams1'
    BY <1>2, <1>6, <2>1, StreamsChanged DEF y
  <2> QED BY <2>3, <2>5, <2>6 DEF Base
<1>9. CASE WasRefused(t)
  <2> DEFINE y == Close(c)
  <2>1. /\ Changed(current, y) /\ Moved(t, ended) /\ holder' = None /\ current' = 0
        /\ UNCHANGED <<peer, issued, cuts>>
    BY <1>9 DEF WasRefused, ended
  <2> HIDE DEF y
  <2>2. conns' \in Seq(Conn) /\ current' \in 0..Len(conns')
    BY <1>3, <2>1 DEF Changed
  <2>3. Types'
    BY <1>0, <1>1, <1>3, <2>1, <2>2, TypesAfter DEF Moved
  <2>4. \A k \in 1..Len(conns') : conns'[k].state = "fin" => k # current'
    BY <2>1, <2>2
  <2>5. Control'
    BY <1>0, <1>1, <1>2, <1>4, <2>1, <2>2, <2>4, ControlAfter
  <2>6. Streams1'
    BY <1>2, <1>6, <2>1, StreamsChanged DEF y
  <2> QED BY <2>3, <2>5, <2>6 DEF Base
<1> QED BY <1>1, <1>7, <1>8, <1>9

(* recv() of the client keeps the invariant: only s2c and the call change. *)
LEMMA ReadBase ==
  ASSUME Base, NEW t \in Threads, Read(t)
  PROVE  Base'
<1> DEFINE x == thread[t]
           c == conns[current]
<1>0. Types /\ Control /\ Streams1
  BY DEF Base
<1>1. /\ x.pc = "read" /\ \E n, b : Got(t, n, b)
      /\ UNCHANGED <<peer, issued, current, faults>> /\ cuts' \in 0..MaxCuts
  BY <1>0, ReadFacts
<1>2. PICK n, b : Got(t, n, b)
  BY <1>1
<1> DEFINE y == Fetched(c, n)
<1>3. peer = "app_server" /\ holder = t /\ current \in 1..Len(conns) /\ c \in Conn
  BY <1>0, <1>1, HolderFacts
<1>4. /\ issued \in Seq(DOMAIN Answer) /\ conns \in Seq(Conn) /\ Len(conns) \in Nat
      /\ holder \in Threads \cup {None} /\ current \in 0..Len(conns)
      /\ DOMAIN conns = 1..Len(conns)
  BY <1>0, TypeFacts
<1>5. n \in 1..Len(c.s2c) /\ Changed(current, y)
  BY <1>2 DEF Got
<1>6. Stream(issued, peer, y) /\ y.state = c.state
  <2>1. y.state = c.state
    <3> HIDE DEF c
    <3> QED BY <1>3, <1>5, FetchedFacts
  <2> QED BY <1>3, <1>5, <2>1, StreamClosed
<1> HIDE DEF y
<1>7. \A k \in 1..Len(conns) : conns[k].state = "fin" => k # current
  BY <1>0, <1>4 DEF Control
<1>8. \A k \in 1..Len(conns') : conns'[k].state = "fin" => k # current'
  BY <1>1, <1>3, <1>4, <1>5, <1>6, <1>7 DEF Changed
<1>9. Streams1'
  BY <1>1, <1>3, <1>5, <1>6, StreamsChanged
<1>10. conns' \in Seq(Conn) /\ current' \in 0..Len(conns') /\ current' # 0
  BY <1>1, <1>3, <1>4, <1>5 DEF Changed
<1> DEFINE z == [thread[t] EXCEPT !.buffer = b]
<1>11. CASE Moved(t, z) /\ UNCHANGED holder
  <2>1. z.pc = "read" /\ z.id = x.id /\ z.result = x.result
    <3>1. \A d : LET w == [thread[t] EXCEPT !.buffer = d]
                 IN w.pc = x.pc /\ w.id = x.id /\ w.result = x.result
      BY <1>0, CallFields
    <3> QED BY <1>1, <3>1
  <2> HIDE DEF z
  <2>2. Types'
    BY <1>0, <1>1, <1>4, <1>10, <1>11, TypesAfter DEF Moved
  <2>3. Control'
    BY <1>0, <1>1, <1>3, <1>8, <1>10, <1>11, <2>1, ControlAfter
  <2> QED BY <1>9, <2>2, <2>3 DEF Base
<1>12. ASSUME NEW r, holder' = None,
              Moved(t, [thread[t] EXCEPT !.pc = "idle", !.buffer = <<>>, !.result = r])
       PROVE  Base'
  <2> DEFINE v == [thread[t] EXCEPT !.pc = "idle", !.buffer = <<>>, !.result = r]
  <2>1. v.pc = "idle" /\ v.id = x.id /\ v.buffer = <<>> /\ Moved(t, v)
    <3>1. \A d : LET w == [thread[t] EXCEPT !.pc = "idle", !.buffer = <<>>, !.result = d]
                 IN w.pc = "idle" /\ w.id = x.id /\ w.buffer = <<>>
      BY <1>0, CallFields
    <3> QED BY <1>12, <3>1
  <2> HIDE DEF v
  <2>2. Types'
    BY <1>0, <1>1, <1>4, <1>10, <1>12, <2>1, TypesAfter DEF Moved
  <2>3. Control'
    BY <1>0, <1>1, <1>3, <1>8, <1>10, <1>12, <2>1, ControlAfter
  <2> QED BY <1>9, <2>2, <2>3 DEF Base
<1>13. \/ Moved(t, z) /\ UNCHANGED holder
       \/ \E r : /\ holder' = None
                 /\ Moved(t, [thread[t] EXCEPT !.pc = "idle", !.buffer = <<>>, !.result = r])
  BY <1>2 DEF Got
<1> QED BY <1>11, <1>12, <1>13

(* The end of the connection, read by the client, keeps the invariant. *)
LEMMA ReadEofBase ==
  ASSUME Base, NEW t \in Threads, ReadEof(t)
  PROVE  Base'
<1> DEFINE x == thread[t]
           c == conns[current]
           ended == [thread[t] EXCEPT !.pc = "idle", !.buffer = <<>>, !.result = Upstream]
           y == Close(c)
<1>0. Types /\ Control /\ Streams1
  BY DEF Base
<1>1. /\ x.pc = "read" /\ Changed(current, y) /\ current' = 0 /\ holder' = None
      /\ Moved(t, ended) /\ UNCHANGED <<peer, issued, faults, cuts>>
  BY <1>0, ReadEofFacts
<1>2. peer = "app_server" /\ holder = t /\ current \in 1..Len(conns) /\ c \in Conn
  BY <1>0, <1>1, HolderFacts
<1>3. /\ issued \in Seq(DOMAIN Answer) /\ conns \in Seq(Conn) /\ Len(conns) \in Nat
      /\ holder \in Threads \cup {None} /\ cuts \in 0..MaxCuts
  BY <1>0, TypeFacts
<1>4. ended.pc = "idle" /\ ended.id = x.id /\ ended.buffer = <<>>
  BY <1>0, CallFields
<1> HIDE DEF ended
<1>5. Stream(issued, peer, y)
  BY <1>2, StreamClosed
<1> HIDE DEF y
<1>6. conns' \in Seq(Conn) /\ current' \in 0..Len(conns')
  BY <1>1, <1>3 DEF Changed
<1>7. Types'
  BY <1>0, <1>1, <1>3, <1>6, TypesAfter DEF Moved
<1>8. \A k \in 1..Len(conns') : conns'[k].state = "fin" => k # current'
  BY <1>1, <1>6
<1>9. Control'
  BY <1>0, <1>1, <1>2, <1>4, <1>6, <1>8, ControlAfter
<1>10. Streams1'
  BY <1>1, <1>2, <1>5, StreamsChanged
<1> QED BY <1>7, <1>9, <1>10 DEF Base

(* A step of the server that keeps the stream. *)
LEMMA ServedBase ==
  ASSUME Base, NEW c \in 1..Len(conns), NEW y, Changed(c, y), Serves,
         Stream(issued, peer, y), y.state = "fin" => conns[c].state = "fin",
         Fault \/ UNCHANGED faults, cuts' \in 0..MaxCuts
  PROVE  Base'
<1>0. Types /\ Control /\ Streams1
  BY DEF Base
<1>1. UNCHANGED <<peer, issued, thread, holder, current>>
  BY DEF Serves
<1>2. /\ issued \in Seq(DOMAIN Answer) /\ holder \in Threads \cup {None}
      /\ current \in 0..Len(conns) /\ \E Results : thread \in [Threads -> Call(Results)]
  BY <1>0 DEF Types
<1>3. Types'
  BY <1>0, <1>1, <1>2, TypesAfter DEF Changed
<1>4. Control'
  BY <1>0, ControlServed
<1>5. Streams1'
  BY <1>1, StreamsChanged
<1> QED BY <1>3, <1>4, <1>5 DEF Base

(* What handle_client parses is a command that was sent, unless bytes were  *)
(* malformed before.                                                        *)
LEMMA FrameKnown ==
  ASSUME Base, NEW c \in 1..Len(conns), ~conns[c].garbled,
         ParseFrame(conns[c].buffer).tag = "ok"
  PROVE  ParseFrame(conns[c].buffer).value \in DOMAIN Answer
<1> DEFINE x == conns[c]
<1>1. x \in Conn /\ Stream(issued, peer, x) /\ issued \in Seq(DOMAIN Answer)
  BY ConnOf, TypeFacts DEF Base, Streams1
<1>2. PICK queue : Queued(issued, peer, x, queue)
  BY <1>1 DEF Stream
<1> DEFINE e == EncodeCommand(queue[1])
           p == Parsed(queue[1], Len(e) + 1)
<1>3. queue # <<>> /\ ParseFrame(x.buffer) = p
  BY <1>1, <1>2, FrameOf
<1>4. queue \in Seq(DOMAIN Answer)
  BY <1>2 DEF Queued
<1>5. queue[1] \in DOMAIN Answer
  BY <1>3, <1>4, HeadTail
<1>6. p.value = queue[1]
  BY Tags
<1> QED BY <1>3, <1>5, <1>6

(* Each step of handle_client, or of the network, keeps the invariant. *)
LEMMA ServerBase ==
  ASSUME Base, NEW c \in 1..Len(conns),
         Recv(c) \/ Handle(c) \/ Leave(c) \/ Stop(c) \/ Reset(c)
  PROVE  Base'
<1> DEFINE x == conns[c]
<1>0. /\ Types /\ x \in Conn /\ Stream(issued, peer, x) /\ issued \in Seq(DOMAIN Answer)
      /\ peer \in {"app_server", "raw_client"} /\ cuts \in 0..MaxCuts
  BY ConnOf, TypeFacts DEF Base, Streams1
<1>1. CASE Recv(c)
  <2>1. /\ x.state \in {"open", "fin"}
        /\ \E n \in 1..Len(x.c2s) : Changed(c, Received(x, n))
        /\ UNCHANGED faults /\ cuts' \in 0..MaxCuts /\ Serves
    BY <1>0, <1>1, RecvFacts
  <2>2. PICK n \in 1..Len(x.c2s) : Changed(c, Received(x, n))
    BY <2>1
  <2> DEFINE y == Received(x, n)
  <2>3. Stream(issued, peer, y) /\ y.state = x.state /\ Changed(c, y)
    <3>1. Changed(c, y)
      BY <2>2
    <3> HIDE DEF x
    <3>2. Stream(issued, peer, y)
      BY <1>0, <2>1, StreamReceived
    <3> QED BY <1>0, <3>1, <3>2, ReceivedFacts
  <2> HIDE DEF y
  <2> QED BY <2>1, <2>3, ServedBase
<1>2. CASE Handle(c)
  <2> DEFINE frame == ParseFrame(x.buffer)
  <2>1. ~x.garbled /\ frame.tag = "ok" => frame.value \in DOMAIN Answer
    BY FrameKnown
  <2>2. /\ x.state \in {"open", "fin", "reset"}
        /\ \/ /\ frame.tag = "ok"
              /\ frame.next \in 1..(Len(x.buffer) + 1)
              /\ Changed(c, Done(x, frame))
           \/ /\ frame.tag = "malformed"
              /\ Changed(c, Failed(x))
        /\ UNCHANGED <<faults, cuts>> /\ Serves
    BY <1>0, <1>2, <2>1, HandleFacts
  <2>3. CASE /\ frame.tag = "ok" /\ frame.next \in 1..(Len(x.buffer) + 1)
             /\ Changed(c, Done(x, frame))
    <3> DEFINE y == Done(x, frame)
    <3>1. y.state = x.state
      <4> HIDE DEF frame, x
      <4> QED BY <1>0, <2>1, <2>3, DoneFacts
    <3>2. Stream(issued, peer, y)
      <4> HIDE DEF x
      <4> QED BY <1>0, <2>1, <2>2, <2>3, StreamDone
    <3> HIDE DEF y
    <3> QED BY <1>0, <2>2, <2>3, <3>1, <3>2, ServedBase DEF y
  <2>4. CASE frame.tag = "malformed" /\ Changed(c, Failed(x))
    <3> DEFINE y == Failed(x)
    <3>1. y.state = x.state
      <4> HIDE DEF x
      <4> QED BY <1>0, FailedFacts
    <3>2. Stream(issued, peer, y)
      <4> HIDE DEF x
      <4> QED BY <1>0, <2>4, StreamFailed
    <3> HIDE DEF y
    <3> QED BY <1>0, <2>2, <2>4, <3>1, <3>2, ServedBase DEF y
  <2> QED BY <2>2, <2>3, <2>4
<1>3. CASE Leave(c) \/ Stop(c) \/ Reset(c)
  <2>1. /\ \/ x.state = "fin" /\ Changed(c, Left(x)) /\ UNCHANGED faults
           \/ x.state = "open" /\ Changed(c, Stopped(x)) /\ Fault
           \/ x.state \in {"open", "eof"} /\ Changed(c, Dead(x)) /\ Fault
        /\ UNCHANGED cuts /\ Serves
    BY <1>0, <1>3, EndingSteps
  <2> HIDE DEF x
  <2>2. /\ Left(x).state = "reset" /\ Stopped(x).state = "eof" /\ Dead(x).state = "reset"
        /\ Left(x).buffer = <<>> /\ Stopped(x).buffer = <<>> /\ Dead(x).buffer = x.buffer
        /\ \A y \in {Left(x), Stopped(x), Dead(x)} :
             y.sent = x.sent /\ y.executed = x.executed /\ y.garbled = x.garbled
    BY <1>0, EndingFacts
  <2>3. Stream(issued, peer, Left(x))
    <3> DEFINE y == Left(x)
    <3>1. /\ y.sent = x.sent /\ y.executed = x.executed /\ y.garbled = x.garbled
          /\ y.buffer = <<>> /\ y.state = "reset"
      BY <2>2
    <3> HIDE DEF y
    <3> QED BY <1>0, <3>1, StreamDropped DEF y
  <2>4. Stream(issued, peer, Stopped(x))
    <3> DEFINE y == Stopped(x)
    <3>1. /\ y.sent = x.sent /\ y.executed = x.executed /\ y.garbled = x.garbled
          /\ y.buffer = <<>> /\ y.state = "eof"
      BY <2>2
    <3> HIDE DEF y
    <3> QED BY <1>0, <3>1, StreamDropped DEF y
  <2>5. Stream(issued, peer, Dead(x))
    <3> DEFINE y == Dead(x)
    <3>1. /\ y.sent = x.sent /\ y.executed = x.executed /\ y.garbled = x.garbled
          /\ y.buffer = x.buffer /\ y.state = "reset"
      BY <2>2
    <3> HIDE DEF y
    <3> QED BY <1>0, <3>1, StreamKept DEF y
  <2> QED BY <1>0, <2>1, <2>2, <2>3, <2>4, <2>5, ServedBase
<1> QED BY <1>1, <1>2, <1>3

(* Every step. *)
LEMMA NextBase == Base /\ [Next]_vars => Base'
<1> SUFFICES ASSUME Base, [Next]_vars PROVE Base'
  OBVIOUS
<1>1. ASSUME NEW t \in Threads, NEW tokens \in Calls[t], Begin(t, tokens) PROVE Base'
  BY <1>1, BeginBase
<1>2. ASSUME NEW t \in Threads, ClientStep(t) PROVE Base'
  BY <1>2, EnterBase, SendBase, BrokenBase, ReadBase, ReadEofBase DEF ClientStep
<1>3. ASSUME NEW t \in Threads, TimesOut(t) PROVE Base'
  BY <1>3, BrokenBase
<1>4. ASSUME NEW c \in DOMAIN conns, ServerStep(c) \/ Leave(c) \/ Stop(c) \/ Reset(c)
      PROVE  Base'
  <2>1. c \in 1..Len(conns)
    BY TypeFacts DEF Base
  <2> QED BY <1>4, <2>1, ServerBase DEF ServerStep
<1>5. CASE UNCHANGED vars
  <2>1. Types'
    BY <1>5 DEF Base, Types, vars
  <2>2. Control'
    BY <1>5 DEF Base, Control, CallOK, vars
  <2>3. Streams1'
    BY <1>5 DEF Base, Streams1, vars
  <2> QED BY <2>1, <2>2, <2>3 DEF Base
<1>6. Quiet => UNCHANGED vars
  BY DEF Quiet
<1> QED BY <1>1, <1>2, <1>3, <1>4, <1>5, <1>6 DEF Next

(* The types, the use of the lock and the streams of requests are as stated in *)
(* Base in every reachable state, for any threads, commands and bounds.        *)
THEOREM BaseAlways == Spec => []Base
BY InitBase, NextBase, PTL DEF Spec

(* The type invariant of the model. *)
LEMMA BaseTypeOK == Base => TypeOK
<1> SUFFICES ASSUME Base PROVE TypeOK
  OBVIOUS
<1>1. Types /\ Control
  BY DEF Base
<1>2. PICK R : thread \in [Threads -> Call(R)]
  BY <1>1 DEF Types
<1>3. ASSUME NEW t \in Threads
      PROVE  /\ thread[t].pc \in {"idle", "lock", "send", "read"}
             /\ thread[t].pc \in {"send", "read"} <=> holder = t
             /\ thread[t].buffer # <<>> => At(t, "read")
             /\ At(t, "read") => current # 0
  <2>1. CallOK(t) /\ thread[t].pc \in {"idle", "lock", "send", "read"}
    BY <1>1, <1>2 DEF Control, Call
  <2> QED BY <2>1 DEF CallOK, At
<1>4. ASSUME NEW c \in DOMAIN conns
      PROVE  /\ conns[c].state \in {"open", "fin", "eof", "reset"}
             /\ conns[c].state = "fin" => c # current
  <2>1. c \in 1..Len(conns)
    BY <1>1, TypeFacts
  <2> QED BY <1>1, <2>1, ConnOf DEF Conn, Control
<1> QED BY <1>1, <1>3, <1>4, TypeFacts DEF TypeOK

(* What the server has executed is a prefix of what was sent. *)
LEMMA PrefixOf ==
  \A a, q \in Seq(DOMAIN Answer) : IsPrefix(a, a \o q)
<1> SUFFICES ASSUME NEW a \in Seq(DOMAIN Answer), NEW q \in Seq(DOMAIN Answer)
             PROVE  IsPrefix(a, a \o q)
  OBVIOUS
<1> DEFINE m == a \o q
<1>1. /\ m \in Seq(DOMAIN Answer) /\ Len(m) = Len(a) + Len(q) /\ Len(a) \in Nat /\ Len(q) \in Nat
      /\ \A i \in 1..Len(a) : m[i] = a[i]
  OBVIOUS
<1> HIDE DEF m
<1>2. Len(a) <= Len(m) /\ SubSeq(m, 1, Len(a)) = a
  BY <1>1
<1> QED BY <1>2 DEF IsPrefix, m

(* The server executes what was sent, whatever the cuts. *)
LEMMA BaseCommandsAsSent == Base => CommandsAsSent
<1> SUFFICES ASSUME Base, NEW c \in DOMAIN conns
             PROVE  LET x    == conns[c]
                        sent == [i \in DOMAIN x.sent |-> issued[x.sent[i]]]
                    IN /\ IsPrefix(x.executed, sent)
                       /\ x.garbled => x.executed = sent /\ peer = "raw_client"
                       /\ (x.state = "open" /\ x.c2s = <<>> /\ Waiting(c)) => x.executed = sent
  BY DEF CommandsAsSent
<1> DEFINE x == conns[c]
           sent == Commands(issued, x)
           b == x.buffer
           o == <<>>
<1>1. c \in 1..Len(conns) /\ issued \in Seq(DOMAIN Answer) /\ Types
  BY TypeFacts DEF Base
<1>2. x \in Conn /\ Stream(issued, peer, x)
  BY <1>1, ConnOf DEF Base, Streams1
<1>3. sent = [i \in DOMAIN x.sent |-> issued[x.sent[i]]]
  BY DEF Commands
<1>4. Waiting(c) <=> ParseFrame(b).tag = "incomplete"
  BY DEF Waiting
<1> HIDE DEF x
<1>5. x.executed \in Seq(DOMAIN Answer) /\ b \in Seq(Byte)
  BY <1>2 DEF Conn
<1>6. o \in Seq(DOMAIN Answer) /\ \A q \in Seq(DOMAIN Answer) : q \o o = q
  OBVIOUS
<1>7. CASE x.garbled
  <2>1. sent = x.executed /\ peer = "raw_client"
    BY <1>2, <1>7 DEF Stream
  <2> HIDE DEF sent, o
  <2>2. IsPrefix(x.executed, x.executed \o o)
    BY <1>5, <1>6, PrefixOf
  <2> QED BY <1>3, <1>5, <1>6, <2>1, <2>2 DEF x
<1>8. CASE ~x.garbled
  <2>1. PICK q : Queued(issued, peer, x, q)
    BY <1>2, <1>8 DEF Stream
  <2>2. q \in Seq(DOMAIN Answer) /\ sent = x.executed \o q
    BY <2>1 DEF Queued
  <2>3. ParseFrame(b).tag = "incomplete" => ParseFrame(b) = Incomplete
    <3>1. Outcome(ParseFrame(b), 2, Len(b) + 1) 
      BY <1>5, FrameStable
    <3> QED BY <3>1, Tags DEF Outcome
  <2>4. (x.state = "open" /\ x.c2s = <<>> /\ ParseFrame(b).tag = "incomplete") => q = o
    BY <1>1, <1>2, <2>1, <2>3, FrameOf
  <2> HIDE DEF sent, o, b
  <2>5. q = o => x.executed = sent
    BY <1>5, <1>6, <2>2
  <2>6. IsPrefix(x.executed, sent)
    BY <1>5, <2>2, PrefixOf
  <2> QED BY <1>3, <1>4, <1>8, <2>4, <2>5, <2>6 DEF x
<1> QED BY <1>7, <1>8

(* The lock, the connection and the buffers of a call of execute() are      *)
(* always in states that it can be in, for any number of threads.           *)
THEOREM TypeOKAlways == Spec => []TypeOK
<1>1. Spec => []Base
  BY BaseAlways
<1>2. Base => TypeOK
  BY BaseTypeOK
<1> QED BY <1>1, <1>2, PTL

(* handle_client executes exactly the commands sent on a connection, in     *)
(* order, however TCP cuts their bytes.                                     *)
THEOREM CommandsAsSentAlways == Spec => []CommandsAsSent
<1>1. Spec => []Base
  BY BaseAlways
<1>2. Base => CommandsAsSent
  BY BaseCommandsAsSent
<1> QED BY <1>1, <1>2, PTL
=============================================================================
