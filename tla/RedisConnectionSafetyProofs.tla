-------------------- MODULE RedisConnectionSafetyProofs ---------------------
(***************************************************************************)
(* Proofs about RedisConnection: what is on its way to the app server,     *)
(* what its calls return, and how often their commands are executed.       *)
(***************************************************************************)
EXTENDS RedisConnectionProofs

-----------------------------------------------------------------------------
(* A connection in step: the reply to the last command, and nothing else,  *)
(* is on its way                                                           *)

(* Nothing has arrived yet. *)
LEMMA NoReply == ParseReply(<<>>) = Incomplete
<1> DEFINE a == ErrorReply
           e == EncodeReply(a)
           o == <<>>
<1>1. IsReply(a)
  BY AnswerReply
<1> HIDE DEF a
<1>2. e \in Seq(Byte) /\ Len(e) >= 1
  BY <1>1, ReplyBytes
<1> HIDE DEF e
<1>3. e # <<>>
  BY <1>2
<1>4. o \in Seq(Byte) /\ e = o \o e
  BY <1>2
<1> HIDE DEF o
<1>5. ParseReply(o) = Incomplete
  BY <1>1, <1>2, <1>3, <1>4, ReplyPart DEF e
<1> QED BY <1>5 DEF o

(* What the client makes of a part of an answer, and of all of it. *)
LEMMA AnswerRead ==
  ASSUME NEW c \in DOMAIN Answer, NEW b \in Seq(Byte), NEW r \in Seq(Byte),
         EncodeReply(Answer[c]) = b \o r
  PROVE  /\ r # <<>> => ParseReply(b) = Incomplete
         /\ r = <<>> => ParseReply(b) = IF Answer[c] = ErrorReply THEN Refused
                                        ELSE Parsed(ReadBack(Answer[c]), Len(b) + 1)
<1> DEFINE a == Answer[c]
           e == EncodeReply(a)
           o == <<>>
<1>1. IsReply(a)
  BY AnswersAssumption
<1>2. o \in Seq(Byte) /\ e = b \o r
  OBVIOUS
<1> HIDE DEF a, o
<1>3. r # <<>> => ParseReply(b) = Incomplete
  BY <1>1, <1>2, ReplyPart
<1>4. ASSUME r = o
      PROVE  ParseReply(b) = IF a = ErrorReply THEN Refused ELSE Parsed(ReadBack(a), Len(b) + 1)
  <2>1. e \in Seq(Byte)
    BY <1>1, ReplyBytes
  <2>2. ParseReply(e \o o) = IF a = ErrorReply THEN Refused ELSE Parsed(ReadBack(a), Len(e) + 1)
    BY <1>1, <1>2, ReplyFirst
  <2> HIDE DEF e
  <2>3. b = e /\ e \o o = e
    BY <1>2, <1>4, <2>1 DEF o
  <2> QED BY <2>2, <2>3
<1> QED BY <1>3, <1>4 DEF a, o

(* A call that has all of its answer, and no more, returns it. *)
LEMMA OwnAnswer ==
  ASSUME NEW t \in Threads, NEW c \in Calls[t], NEW b \in Seq(Byte),
         EncodeReply(Answer[c]) = b,
         NEW r, Decoded(r, ParseReply(b), Len(b), Shape[c[1][1]])
  PROVE  \/ r = Conflict /\ Answer[c] = ErrorReply
         \/ r = Value(Answer[c])
<1> DEFINE a == Answer[c]
           o == <<>>
           p == ParseReply(b)
<1>1. c \in DOMAIN Answer
  BY CallsAssumption
<1>2. p = IF a = ErrorReply THEN Refused ELSE Parsed(ReadBack(a), Len(b) + 1)
  <2>1. o \in Seq(Byte) /\ b = b \o o
    OBVIOUS
  <2> HIDE DEF o
  <2>2. EncodeReply(Answer[c]) = b \o o
    BY <2>1
  <2> QED BY <1>1, <2>1, <2>2, AnswerRead DEF o
<1>3. a = ErrorReply \/ Fits(a, Shape[c[1][1]])
  BY ShapesAssumption
<1> HIDE DEF a, p
<1>4. CASE a = ErrorReply
  <2>1. p.tag = "refused"
    BY <1>2, <1>4, Tags
  <2> QED BY <1>4, <2>1 DEF Decoded, p, a
<1>5. CASE a # ErrorReply /\ Fits(a, Shape[c[1][1]])
  <2>1. ReadBack(a) = a
    <3>1. IsReply(a) /\ Is(a, "array")
      BY <1>1, <1>5, AnswersAssumption DEF Fits, a
    <3>2. ~Is(a, "simple")
      <4>1. CASE Is(a, "array") /\ a = Array(a.array)
        BY <4>1 DEF Is, Array
      <4>2. CASE Is(a, "simple") /\ a = Simple(a.simple)
        BY <3>1, <4>2 DEF Is, Simple
      <4>3. CASE IsScalar(a)
        BY <3>1, <4>3 DEF IsScalar, Is, Null, Str, Integer
      <4> QED BY <1>5, <3>1, <4>1, <4>2, <4>3 DEF IsReply
    <3> QED BY <3>2 DEF ReadBack
  <2>2. p = Parsed(a, Len(b) + 1)
    BY <1>2, <1>5, <2>1
  <2>3. p.tag = "ok" /\ p.value = a /\ p.next = Len(b) + 1
    BY <2>2, Tags
  <2> QED BY <1>5, <2>3 DEF Decoded, p, a
<1> QED BY <1>3, <1>4, <1>5

(* Nothing more comes from a connection that was closed here or is broken;  *)
(* between two calls all is answered; a call waits for the answer to the    *)
(* last command sent, of which it has read the bytes b.                     *)
Drained(x) == x.state \in {"fin", "reset"} => x.s2c = <<>>
Settled(x) == x.state \in {"open", "eof"} => x.s2c = <<>> /\ Len(x.executed) = Len(x.sent)
Awaits(iss, x, id, b) ==
  /\ x.sent # <<>> /\ x.sent[Len(x.sent)] = id
  /\ x.state \in {"open", "eof"} =>
       \/ x.s2c = <<>> /\ b = <<>> /\ Len(x.executed) = Len(x.sent) - 1
       \/ b \o x.s2c = EncodeReply(Answer[iss[id]]) /\ Len(x.executed) = Len(x.sent)

(* A change that neither executes nor reads anything. *)
LEMMA InStepKept ==
  ASSUME NEW x, NEW y, y.sent = x.sent, y.executed = x.executed,
         y.s2c = x.s2c \/ (y.s2c = <<>> /\ y.state \notin {"open", "eof"}),
         y.state \in {"open", "eof"} => x.state \in {"open", "eof"},
         y.state \in {"fin", "reset"} => x.state \in {"fin", "reset"} \/ y.s2c = <<>>
  PROVE  /\ Drained(x) => Drained(y)
         /\ Settled(x) => Settled(y)
         /\ \A iss, id, b : Awaits(iss, x, id, b) => Awaits(iss, y, id, b)
<1>1. Drained(x) => Drained(y)
  BY DEF Drained
<1>2. Settled(x) => Settled(y)
  BY DEF Settled
<1>3. ASSUME NEW iss, NEW id, NEW b, Awaits(iss, x, id, b) PROVE Awaits(iss, y, id, b)
  <2> DEFINE e == EncodeReply(Answer[iss[id]])
  <2>1. /\ x.sent # <<>> /\ x.sent[Len(x.sent)] = id
        /\ x.state \in {"open", "eof"} =>
             \/ x.s2c = <<>> /\ b = <<>> /\ Len(x.executed) = Len(x.sent) - 1
             \/ b \o x.s2c = e /\ Len(x.executed) = Len(x.sent)
    BY <1>3 DEF Awaits
  <2> HIDE DEF e
  <2>2. /\ y.sent # <<>> /\ y.sent[Len(y.sent)] = id
        /\ y.state \in {"open", "eof"} =>
             \/ y.s2c = <<>> /\ b = <<>> /\ Len(y.executed) = Len(y.sent) - 1
             \/ b \o y.s2c = e /\ Len(y.executed) = Len(y.sent)
    BY <2>1
  <2> QED BY <2>2 DEF Awaits, e
<1> QED BY <1>1, <1>2, <1>3

(* The command that the server executes is one that was sent and has not   *)
(* been executed yet: there is none between two calls, and during a call   *)
(* it is the command of that call.                                         *)
LEMMA NextCommand ==
  ASSUME NEW iss \in Seq(DOMAIN Answer), NEW x \in Conn, Stream(iss, "app_server", x),
         ParseFrame(x.buffer).tag = "ok"
  PROVE  /\ ~x.garbled
         /\ Len(x.executed) < Len(x.sent)
         /\ ParseFrame(x.buffer).value \in DOMAIN Answer
         /\ Len(x.executed) = Len(x.sent) - 1 =>
              ParseFrame(x.buffer).value = iss[x.sent[Len(x.sent)]]
<1>1. ~x.garbled
  BY DEF Stream
<1>2. PICK q : Queued(iss, "app_server", x, q)
  BY <1>1 DEF Stream
<1> DEFINE frame == ParseFrame(x.buffer)
           all == Commands(iss, x)
           n == Len(x.sent)
           k == Len(x.executed)
<1>3. q # <<>> /\ frame = Parsed(q[1], Len(EncodeCommand(q[1])) + 1)
  BY <1>2, FrameOf
<1>4. frame.value = q[1]
  BY <1>3, Tags
<1>5. /\ q \in Seq(DOMAIN Answer) /\ all = x.executed \o q
      /\ \A i \in 1..n : x.sent[i] \in 1..Len(iss)
  BY <1>1, <1>2 DEF Queued, Stream
<1>6. /\ all \in Seq(DOMAIN Answer) /\ Len(all) = n /\ x.executed \in Seq(DOMAIN Answer)
      /\ \A i \in 1..n : all[i] = iss[x.sent[i]]
      /\ x.sent \in Seq(Nat)
  BY <1>5, CommandsFacts
<1> HIDE DEF all, frame
<1>7. Len(all) = k + Len(q) /\ all[k + 1] = q[1] /\ Len(q) >= 1 /\ k \in Nat /\ n \in Nat
      /\ q[1] \in DOMAIN Answer
  BY <1>3, <1>5, <1>6
<1>8. k < n
  BY <1>6, <1>7
<1>9. k = n - 1 => q[1] = iss[x.sent[n]]
  <2>1. k = n - 1 => k + 1 = n /\ n \in 1..n
    BY ONLY <1>7, <1>8
  <2> HIDE DEF k, n
  <2> QED BY <1>6, <1>7, <2>1
<1> QED BY <1>1, <1>4, <1>7, <1>8, <1>9 DEF frame

(* handle_client answers a command. *)
LEMMA InStepDone ==
  ASSUME NEW iss \in Seq(DOMAIN Answer), NEW x \in Conn, Stream(iss, "app_server", x),
         ParseFrame(x.buffer).tag = "ok", ParseFrame(x.buffer).next \in 1..(Len(x.buffer) + 1),
         x.state # "eof"
  PROVE  LET y == Done(x, ParseFrame(x.buffer))
         IN /\ Drained(x) => Drained(y)
            /\ Settled(x) => Settled(y)
            /\ \A id \in DOMAIN iss, b \in Seq(Byte) : Awaits(iss, x, id, b) => Awaits(iss, y, id, b)
<1> DEFINE frame == ParseFrame(x.buffer)
           y == Done(x, frame)
           v == frame.value
           n == Len(x.sent)
           k == Len(x.executed)
<1>1. ~x.garbled /\ k < n /\ v \in DOMAIN Answer /\ (k = n - 1 => v = iss[x.sent[n]])
  BY NextCommand
<1>2. /\ y \in Conn /\ y.s2c = Out(x, EncodeReply(AnswerTo(v))) /\ y.state = x.state
      /\ y.sent = x.sent /\ y.executed = Append(x.executed, v)
  BY <1>1, DoneFacts
<1> DEFINE e == EncodeReply(Answer[v])
<1>3. e \in Seq(Byte) /\ AnswerTo(v) = Answer[v]
  BY <1>1, AnswerBytes DEF AnswerTo
<1>4. y.s2c = Out(x, e)
  BY <1>2, <1>3
<1> HIDE DEF y, e, frame
<1>5. Drained(x) => Drained(y)
  BY <1>2, <1>4 DEF Drained, Out
<1>6. x.executed \in Seq(DOMAIN Answer) /\ k \in Nat /\ x.sent \in Seq(Nat) /\ n \in Nat
      /\ x.s2c \in Seq(Byte)
  BY DEF Conn
<1>7. Settled(x) => Settled(y)
  BY <1>1, <1>2, <1>6 DEF Settled
<1>8. ASSUME NEW id \in DOMAIN iss, NEW b \in Seq(Byte), Awaits(iss, x, id, b)
      PROVE  Awaits(iss, y, id, b)
  <2>1. x.sent # <<>> /\ x.sent[n] = id
    BY <1>8 DEF Awaits
  <2>2. CASE x.state = "open"
    <3>1. x.s2c = <<>> /\ b = <<>> /\ k = n - 1
      <4>1. k # n
        BY <1>1, <1>6
      <4> QED BY <1>8, <2>2, <4>1 DEF Awaits
    <3>2. v = iss[id]
      BY <1>1, <2>1, <3>1
    <3>3. y.s2c = e
      BY <1>3, <1>4, <2>2, <3>1 DEF Out
    <3>4. Len(y.executed) = Len(y.sent)
      BY <1>1, <1>2, <1>6, <3>1
    <3>5. b \o y.s2c = e
      BY <1>3, <3>1, <3>3
    <3> QED BY <1>2, <2>1, <3>2, <3>4, <3>5 DEF Awaits, e
  <2>3. CASE x.state # "open"
    <3>1. y.state \notin {"open", "eof"}
      BY <1>2, <2>3 DEF Conn
    <3> QED BY <1>2, <2>1, <3>1 DEF Awaits
  <2> QED BY <2>2, <2>3
<1> QED BY <1>5, <1>7, <1>8 DEF y, frame

(* sendall() on a connection on which all is answered. *)
LEMMA InStepSent ==
  ASSUME NEW iss, NEW x \in Conn, NEW id \in Nat, NEW e \in Seq(Byte)
  PROVE  LET y == Commanded(x, id, e)
         IN /\ Drained(x) => Drained(y)
            /\ Settled(x) => Awaits(iss, y, id, <<>>)
<1> DEFINE y == Commanded(x, id, e)
<1>1. /\ y.s2c = x.s2c /\ y.state = x.state /\ y.sent = Append(x.sent, id)
      /\ y.executed = x.executed
  BY CommandedFacts
<1> HIDE DEF y
<1>2. x.sent \in Seq(Nat)
  BY DEF Conn
<1>3. Drained(x) => Drained(y)
  BY <1>1 DEF Drained
<1>4. ASSUME Settled(x) PROVE Awaits(iss, y, id, <<>>)
  <2>1. y.sent # <<>> /\ y.sent[Len(y.sent)] = id /\ Len(y.sent) = Len(x.sent) + 1
    BY <1>1, <1>2
  <2>2. Len(y.sent) - 1 = Len(x.sent)
    BY <1>2, <2>1
  <2>3. y.state \in {"open", "eof"} => y.s2c = <<>> /\ Len(y.executed) = Len(y.sent) - 1
    BY <1>1, <1>4, <2>2 DEF Settled
  <2> QED BY <2>1, <2>3 DEF Awaits
<1> QED BY <1>3, <1>4 DEF y

(* recv() of a part of an answer, or of the rest of it. *)
LEMMA InStepFetched ==
  ASSUME NEW iss \in Seq(DOMAIN Answer), NEW x \in Conn, NEW id \in DOMAIN iss,
         NEW b \in Seq(Byte), Drained(x), Awaits(iss, x, id, b),
         NEW n \in 1..Len(x.s2c)
  PROVE  LET y == Fetched(x, n)
             c == b \o SubSeq(x.s2c, 1, n)
         IN /\ c \in Seq(Byte) /\ Drained(y)
            /\ Len(y.executed) = Len(y.sent)
            /\ ParseReply(c) = Incomplete => Awaits(iss, y, id, c)
            /\ ParseReply(c) # Incomplete => Settled(y) /\ EncodeReply(Answer[iss[id]]) = c
<1> DEFINE y == Fetched(x, n)
           s == x.s2c
           g == SubSeq(s, 1, n)
           r == SubSeq(s, n + 1, Len(s))
           c == b \o g
           a == Answer[iss[id]]
           e == EncodeReply(a)
<1>1. /\ y.s2c = r /\ y.state = x.state /\ y.sent = x.sent /\ y.executed = x.executed
      /\ s \in Seq(Byte) /\ Len(s) \in Nat /\ x.state \in {"open", "fin", "eof", "reset"}
  BY FetchedFacts DEF Conn
<1>2. s # <<>>
  BY <1>1
<1>3. x.state \in {"open", "eof"}
  BY <1>1, <1>2 DEF Drained
<1>4. x.sent # <<>> /\ x.sent[Len(x.sent)] = id /\ b \o s = e /\ Len(x.executed) = Len(x.sent)
  BY <1>2, <1>3 DEF Awaits
<1>5. g \in Seq(Byte) /\ r \in Seq(Byte) /\ s = g \o r
  BY <1>1
<1> HIDE DEF y, s, e, r
<1>6. c \in Seq(Byte)
  BY <1>5
<1>7. e = c \o r
  <2> HIDE DEF g
  <2> QED BY <1>4, <1>5, BytesAssoc
<1> HIDE DEF c
<1>8. /\ r # <<>> => ParseReply(c) = Incomplete
      /\ r = <<>> => ParseReply(c) # Incomplete
  <2>1. iss[id] \in DOMAIN Answer
    OBVIOUS
  <2>2. ParseReply(c) = (IF a = ErrorReply THEN Refused ELSE Parsed(ReadBack(a), Len(c) + 1))
        => ParseReply(c) # Incomplete
    <3> HIDE DEF a
    <3> QED BY Tags
  <2> QED BY <1>5, <1>6, <1>7, <2>1, <2>2, AnswerRead DEF e
<1>9. Drained(y)
  BY <1>1, <1>3 DEF Drained
<1>10. r # <<>> => Awaits(iss, y, id, c)
  BY <1>1, <1>3, <1>4, <1>7 DEF Awaits, e
<1>11. r = <<>> => Settled(y) /\ e = c
  <2>1. r = <<>> => c \o r = c
    BY <1>6
  <2> QED BY <1>1, <1>3, <1>4, <1>7, <2>1 DEF Settled
<1> QED BY <1>1, <1>4, <1>6, <1>8, <1>9, <1>10, <1>11 DEF y, c, e, s

(* The bytes between the connection in use and the call that reads it: a   *)
(* call in step, on a connection on which none has given up, reads the     *)
(* answer to its own command, and leaves nothing of it behind.             *)
InStep(t) ==
  /\ thread[t].clean <=> ~conns[current].lagging
  /\ ParseReply(thread[t].buffer) = Incomplete
  /\ thread[t].clean => Awaits(issued, conns[current], thread[t].id, thread[t].buffer)
Resting ==
  /\ peer = "app_server" /\ current # 0 /\ ~conns[current].lagging
  /\ \A t \in Threads : thread[t].pc # "read"
Sync ==
  /\ \A c \in 1..Len(conns) : Drained(conns[c])
  /\ Resting => Settled(conns[current])
  /\ \A t \in Threads : thread[t].pc = "read" => InStep(t)

(* Nobody else reads when the lock is free or held by t. *)
LEMMA NoOtherReads ==
  ASSUME Types, Control, NEW t \in Threads, thread[t].pc \in {"send", "read"} \/ holder = None
  PROVE  \A u \in Threads : u # t => thread[u].pc # "read"
<1>1. CASE thread[t].pc \in {"send", "read"}
  BY <1>1, HolderFacts
<1>2. CASE holder = None
  <2>1. \A u \in Threads : thread[u].pc \notin {"send", "read"}
    BY <1>2, NoneAssumption DEF Control, CallOK
  <2> QED BY <2>1
<1> QED BY <1>1, <1>2

(* After a step of the call that holds the lock, or takes it. *)
LEMMA SyncMoved ==
  ASSUME Base, Sync, NEW t \in Threads, NEW z, Moved(t, z),
         thread[t].pc \in {"send", "read"} \/ holder = None,
         peer = "app_server", peer' = peer, issued' = issued,
         \A c \in 1..Len(conns') : Drained(conns'[c]),
         z.pc = "read" => /\ z.clean <=> ~conns'[current'].lagging
                          /\ ParseReply(z.buffer) = Incomplete
                          /\ z.clean => Awaits(issued, conns'[current'], z.id, z.buffer),
         (z.pc # "read" /\ current' # 0 /\ ~conns'[current'].lagging) => Settled(conns'[current'])
  PROVE  Sync'
<1>1. \A u \in Threads : u # t => thread[u].pc # "read"
  BY NoOtherReads DEF Base
<1>2. thread'[t] = z /\ \A u \in Threads : u # t => thread'[u] = thread[u]
  BY DEF Moved
<1>3. (\A c \in 1..Len(conns) : Drained(conns[c]))'
  OBVIOUS
<1>4. (Resting => Settled(conns[current]))'
  BY <1>2 DEF Resting
<1>5. ASSUME NEW u \in Threads, thread'[u].pc = "read" PROVE InStep(u)'
  <2>1. u = t
    BY <1>1, <1>2, <1>5
  <2>2. thread'[u] = z
    BY <1>2, <2>1
  <2> QED BY <1>5, <2>2 DEF InStep
<1> QED BY <1>3, <1>4, <1>5 DEF Sync

(* After a step of the server or of the network. *)
LEMMA SyncServed ==
  ASSUME Base, Sync, NEW c \in 1..Len(conns), NEW y, Changed(c, y), Serves,
         y.lagging = conns[c].lagging,
         Drained(conns[c]) => Drained(y),
         peer = "app_server" => (Settled(conns[c]) => Settled(y)),
         peer = "app_server" => \A id \in DOMAIN issued, b \in Seq(Byte) :
           Awaits(issued, conns[c], id, b) => Awaits(issued, y, id, b)
  PROVE  Sync'
<1>1. UNCHANGED <<peer, issued, thread, holder, current>>
  BY DEF Serves
<1>2. Len(conns') = Len(conns) /\ conns'[c] = y
      /\ \A k \in 1..Len(conns) : k # c => conns'[k] = conns[k]
  BY DEF Changed
<1>3. (\A k \in 1..Len(conns) : Drained(conns[k]))'
  <2>1. ASSUME NEW k \in 1..Len(conns) PROVE Drained(conns'[k])
    BY <1>2 DEF Sync
  <2> QED BY <1>2, <2>1
<1>4. (Resting => Settled(conns[current]))'
  <2> SUFFICES ASSUME Resting' PROVE Settled(conns'[current])
    BY <1>1
  <2>1. peer = "app_server" /\ current # 0 /\ ~conns'[current].lagging
        /\ \A t \in Threads : thread[t].pc # "read"
    BY <1>1 DEF Resting
  <2>2. current \in 1..Len(conns)
    BY <2>1, TypeFacts DEF Base
  <2>3. ~conns[current].lagging
    BY <1>2, <2>1, <2>2
  <2>4. Settled(conns[current])
    BY <2>1, <2>3 DEF Sync, Resting
  <2> QED BY <1>2, <2>1, <2>2, <2>4
<1>5. ASSUME NEW t \in Threads, thread'[t].pc = "read" PROVE InStep(t)'
  <2>1. thread[t].pc = "read" /\ InStep(t)
    BY <1>1, <1>5 DEF Sync
  <2>2. /\ current \in 1..Len(conns) /\ peer = "app_server"
        /\ thread[t].id \in 1..Len(issued) /\ thread[t].buffer \in Seq(Byte)
    BY <2>1, HolderFacts DEF Base
  <2>3. thread[t].id \in DOMAIN issued
    BY <2>2, TypeFacts DEF Base
  <2> DEFINE x == thread[t]
             v == conns'[current]
  <2>4. v.lagging = conns[current].lagging
    BY <1>2, <2>2
  <2>5. Awaits(issued, conns[current], x.id, x.buffer) => Awaits(issued, v, x.id, x.buffer)
    BY <1>2, <2>2, <2>3
  <2>6. /\ x.clean <=> ~v.lagging
        /\ ParseReply(x.buffer) = Incomplete
        /\ x.clean => Awaits(issued, v, x.id, x.buffer)
    BY <2>1, <2>4, <2>5 DEF InStep
  <2> QED BY <1>1, <2>6 DEF InStep
<1> QED BY <1>3, <1>4, <1>5 DEF Sync

(* At the start nothing is on its way. *)
LEMMA InitSync == Init => Sync
<1> SUFFICES ASSUME Init PROVE Sync
  OBVIOUS
<1>1. thread = [t \in Threads |-> NoCall] /\ current = 0
  BY DEF Init
<1>2. ASSUME NEW c \in 1..Len(conns) PROVE conns[c].state = "open"
  <2>1. CASE conns = <<>>
    BY <2>1
  <2>2. CASE \E s \in Streams : conns = <<Piped(s)>>
    <3>1. PICK s \in Streams : conns = <<Piped(s)>>
      BY <2>2
    <3> HIDE DEF Piped
    <3>2. c = 1 /\ conns[1] = Piped(s)
      BY <3>1
    <3> QED BY <3>2, PipedFacts
  <2> QED BY <2>1, <2>2 DEF Init, Piped
<1>3. \A t \in Threads : thread[t].pc = "idle"
  BY <1>1 DEF NoCall
<1> QED BY <1>1, <1>2, <1>3 DEF Sync, Resting, Drained

(* A call begins: the others read what they read. *)
LEMMA BeginSync ==
  ASSUME Base, Sync, NEW t \in Threads, NEW tokens \in Calls[t], Begin(t, tokens)
  PROVE  Sync'
<1> DEFINE z == [NoCall EXCEPT !.pc = "lock", !.id = Len(issued) + 1]
<1>1. /\ thread[t].pc = "idle" /\ issued' = Append(issued, tokens)
      /\ Moved(t, z) /\ UNCHANGED <<peer, holder, current, conns>>
  BY BeginFacts DEF Base
<1>2. z.pc = "lock"
  BY NewCallFields
<1> HIDE DEF z
<1>3. thread'[t] = z /\ \A u \in Threads : u # t => thread'[u] = thread[u]
  BY <1>1 DEF Moved
<1>4. \A u \in Threads : thread'[u].pc = "read" <=> thread[u].pc = "read"
  BY <1>1, <1>2, <1>3
<1>5. (\A c \in 1..Len(conns) : Drained(conns[c]))'
  BY <1>1 DEF Sync
<1>6. (Resting => Settled(conns[current]))'
  BY <1>1, <1>4 DEF Sync, Resting
<1>7. ASSUME NEW u \in Threads, thread'[u].pc = "read" PROVE InStep(u)'
  <2>1. thread[u].pc = "read" /\ thread'[u] = thread[u] /\ InStep(u)
    BY <1>1, <1>2, <1>3, <1>7 DEF Sync
  <2>2. thread[u].id \in 1..Len(issued)
    BY <2>1, HolderFacts DEF Base
  <2>3. issued'[thread[u].id] = issued[thread[u].id]
    BY <1>1, <2>2, TypeFacts DEF Base
  <2> QED BY <1>1, <2>1, <2>3 DEF InStep, Awaits
<1> QED BY <1>5, <1>6, <1>7 DEF Sync

(* A new connection. *)
LEMMA NewSettled == Settled(NewConn) /\ Drained(NewConn) /\ ~NewConn.lagging
BY DEF NewConn, Settled, Drained

(* The lock is taken. *)
LEMMA EnterSync ==
  ASSUME Base, Sync, NEW t \in Threads, Enter(t)
  PROVE  Sync'
<1> DEFINE x == thread[t]
           ended == [thread[t] EXCEPT !.pc = "idle", !.buffer = <<>>, !.result = Upstream]
           entered == [thread[t] EXCEPT !.pc = "send"]
<1>0. Types /\ Control
  BY DEF Base
<1>1. /\ x.pc = "lock" /\ holder = None
      /\ \/ /\ current # 0
            /\ Moved(t, entered)
            /\ UNCHANGED <<current, conns>>
         \/ /\ current = 0
            /\ Moved(t, entered)
            /\ Added /\ current' = Len(conns) + 1
         \/ /\ current = 0
            /\ Moved(t, ended)
            /\ UNCHANGED <<current, conns>>
      /\ UNCHANGED <<peer, issued, cuts>>
  BY <1>0, EnterFacts
<1>2. entered.pc = "send" /\ ended.pc = "idle"
  BY <1>0, CallFields
<1>3. peer = "app_server"
  BY <1>0, <1>1 DEF Control, CallOK
<1>4. \A u \in Threads : thread[u].pc # "read"
  BY <1>0, <1>1, NoOtherReads
<1> HIDE DEF ended, entered
<1>5. CASE current # 0 /\ Moved(t, entered) /\ UNCHANGED <<current, conns>>
  <2>1. ~conns[current].lagging => Settled(conns[current])
    BY <1>3, <1>4, <1>5 DEF Sync, Resting
  <2>2. \A c \in 1..Len(conns') : Drained(conns'[c])
    BY <1>5 DEF Sync
  <2> QED BY <1>1, <1>2, <1>3, <1>5, <2>1, <2>2, SyncMoved
<1>6. CASE current = 0 /\ Moved(t, entered) /\ Added /\ current' = Len(conns) + 1
  <2>1. conns'[current'] = NewConn
    BY <1>6 DEF Added
  <2>2. \A c \in 1..Len(conns') : Drained(conns'[c])
    <3>1. Len(conns) \in Nat
      BY <1>0, TypeFacts
    <3>2. ASSUME NEW c \in 1..Len(conns') PROVE Drained(conns'[c])
      <4>1. c \in 1..Len(conns) \/ c = Len(conns) + 1
        BY <1>6, <3>1 DEF Added
      <4> QED BY <1>6, <2>1, <4>1, NewSettled DEF Added, Sync
    <3> QED BY <3>2
  <2> QED BY <1>1, <1>2, <1>3, <1>6, <2>1, <2>2, SyncMoved, NewSettled
<1>7. CASE current = 0 /\ Moved(t, ended) /\ UNCHANGED <<current, conns>>
  <2>2. \A c \in 1..Len(conns') : Drained(conns'[c])
    BY <1>7 DEF Sync
  <2> QED BY <1>1, <1>2, <1>3, <1>7, <2>2, SyncMoved
<1> QED BY <1>1, <1>5, <1>6, <1>7

(* The command is sent. *)
LEMMA SendSync ==
  ASSUME Base, Sync, NEW t \in Threads, Send(t)
  PROVE  Sync'
<1> DEFINE x == thread[t]
           c == conns[current]
           e == EncodeCommand(issued[x.id])
           y == Commanded(c, x.id, e)
           z == [thread[t] EXCEPT !.pc = "read", !.clean = ~conns[current].lagging]
<1>0. Types /\ Control
  BY DEF Base
<1>1. /\ x.pc = "send" /\ e \in Seq(Byte)
      /\ Changed(current, y) /\ Moved(t, z)
      /\ UNCHANGED <<peer, issued, holder, current>>
  BY <1>0, SendFacts
<1>2. /\ peer = "app_server" /\ current \in 1..Len(conns) /\ c \in Conn /\ x.id \in Nat
      /\ \A u \in Threads : u # t => thread[u].pc \notin {"send", "read"}
  BY <1>0, <1>1, HolderFacts
<1>3. /\ z.pc = "read" /\ z.id = x.id /\ z.buffer = x.buffer /\ (z.clean <=> ~c.lagging)
  <2>1. \A k : LET w == [thread[t] EXCEPT !.pc = "read", !.clean = k]
               IN w.pc = "read" /\ w.id = x.id /\ w.buffer = x.buffer /\ w.clean = k
    BY <1>0, CallFields
  <2> QED BY <2>1
<1>4. x.buffer = <<>>
  BY <1>0, <1>1 DEF Control, CallOK
<1> HIDE DEF z, e
<1>5. \A u \in Threads : thread[u].pc # "read"
  BY <1>1, <1>2
<1>6. ~c.lagging => Settled(c)
  BY <1>2, <1>5 DEF Sync, Resting
<1>7. Drained(c)
  BY <1>2 DEF Sync
<1>8. /\ Drained(y) /\ y.lagging = c.lagging
      /\ ~c.lagging => Awaits(issued, y, x.id, <<>>)
  <2> HIDE DEF c
  <2> QED BY <1>1, <1>2, <1>6, <1>7, InStepSent, CommandedFacts
<1> HIDE DEF y
<1>9. \A k \in 1..Len(conns') : Drained(conns'[k])
  BY <1>1, <1>8 DEF Changed, Sync
<1>10. conns'[current'] = y
  BY <1>1 DEF Changed
<1>11. ParseReply(z.buffer) = Incomplete
  BY <1>3, <1>4, NoReply
<1>12. z.clean <=> ~conns'[current'].lagging
  BY <1>3, <1>8, <1>10
<1>13. z.clean => Awaits(issued, conns'[current'], z.id, z.buffer)
  BY <1>3, <1>4, <1>8, <1>10
<1> QED BY <1>1, <1>2, <1>3, <1>9, <1>11, <1>12, <1>13, SyncMoved

(* An OSError: nothing that was asked on the old connection is read. *)
LEMMA BrokenSync ==
  ASSUME Base, Sync, NEW t \in Threads, Broken(t) \/ TimesOut(t)
  PROVE  Sync'
<1> DEFINE x == thread[t]
           c == conns[current]
           ended == [thread[t] EXCEPT !.pc = "idle", !.buffer = <<>>, !.result = Upstream]
           retried == [thread[t] EXCEPT !.pc = "send", !.attempt = 2, !.buffer = <<>>]
<1>0. Types /\ Control
  BY DEF Base
<1>1. x.pc \in {"send", "read"} /\ (Retried(t) \/ GaveUp(t) \/ WasRefused(t))
  BY <1>0, BrokenFacts
<1>2. peer = "app_server" /\ current \in 1..Len(conns) /\ c \in Conn /\ Len(conns) \in Nat
  BY <1>0, <1>1, HolderFacts, TypeFacts
<1>3. retried.pc = "send" /\ ended.pc = "idle"
  BY <1>0, CallFields
<1>4. Drained(Close(c)) /\ (Drained(c) => Drained(Lag(c))) /\ Lag(c).lagging
  <2> HIDE DEF c
  <2> QED BY <1>2, CloseFacts, LagFacts DEF Drained
<1>5. \A k \in 1..Len(conns) : Drained(conns[k])
  BY DEF Sync
<1> HIDE DEF ended, retried
<1>6. CASE Retried(t)
  <2>1. /\ current' = Len(conns) + 1 /\ Replaced(current, Close(c)) /\ Moved(t, retried)
        /\ UNCHANGED <<peer, issued>>
    BY <1>6 DEF Retried, retried
  <2> DEFINE y == Close(c)
  <2>2. Drained(y) /\ Replaced(current, y)
    BY <1>4, <2>1
  <2> HIDE DEF y
  <2>3. conns'[current'] = NewConn
    BY <2>1, <2>2 DEF Replaced
  <2>4. \A k \in 1..Len(conns') : Drained(conns'[k])
    <3>1. ASSUME NEW k \in 1..Len(conns') PROVE Drained(conns'[k])
      <4>1. k \in 1..Len(conns) \/ k = Len(conns) + 1
        BY <1>2, <2>2 DEF Replaced
      <4> QED BY <1>5, <2>1, <2>2, <2>3, <4>1, NewSettled DEF Replaced
    <3> QED BY <3>1
  <2> QED BY <1>1, <1>2, <1>3, <2>1, <2>3, <2>4, SyncMoved, NewSettled
<1>7. CASE GaveUp(t)
  <2> DEFINE y == Lag(c)
  <2>1. Changed(current, y) /\ Moved(t, ended) /\ UNCHANGED <<peer, issued, current>>
    BY <1>7 DEF GaveUp, ended
  <2>2. Drained(y) /\ y.lagging
    BY <1>2, <1>4, <1>5
  <2> HIDE DEF y
  <2>3. \A k \in 1..Len(conns') : Drained(conns'[k])
    BY <1>5, <2>1, <2>2 DEF Changed
  <2>4. conns'[current'].lagging
    BY <2>1, <2>2 DEF Changed
  <2> QED BY <1>1, <1>2, <1>3, <2>1, <2>3, <2>4, SyncMoved
<1>8. CASE WasRefused(t)
  <2> DEFINE y == Close(c)
  <2>1. Changed(current, y) /\ Moved(t, ended) /\ UNCHANGED <<peer, issued>> /\ current' = 0
    BY <1>8 DEF WasRefused, ended
  <2>2. Drained(y)
    BY <1>4
  <2> HIDE DEF y
  <2>3. \A k \in 1..Len(conns') : Drained(conns'[k])
    BY <1>5, <2>1, <2>2 DEF Changed
  <2> QED BY <1>1, <1>2, <1>3, <2>1, <2>3, SyncMoved
<1> QED BY <1>1, <1>6, <1>7, <1>8

(* The end of the connection, read by the client. *)
LEMMA ReadEofSync ==
  ASSUME Base, Sync, NEW t \in Threads, ReadEof(t)
  PROVE  Sync'
<1> DEFINE x == thread[t]
           c == conns[current]
           y == Close(c)
           ended == [thread[t] EXCEPT !.pc = "idle", !.buffer = <<>>, !.result = Upstream]
<1>0. Types /\ Control
  BY DEF Base
<1>1. /\ x.pc = "read" /\ Changed(current, y) /\ current' = 0
      /\ Moved(t, ended) /\ UNCHANGED <<peer, issued>>
  BY <1>0, ReadEofFacts
<1>2. peer = "app_server" /\ c \in Conn
  BY <1>0, <1>1, HolderFacts
<1>3. ended.pc = "idle"
  BY <1>0, CallFields
<1> HIDE DEF ended
<1>4. Drained(y)
  <2> HIDE DEF c
  <2> QED BY <1>2, CloseFacts DEF Drained
<1> HIDE DEF y
<1>5. \A k \in 1..Len(conns') : Drained(conns'[k])
  BY <1>1, <1>4 DEF Changed, Sync
<1> QED BY <1>1, <1>2, <1>3, <1>5, SyncMoved

(* recv() of the client: what it has read of its answer grows, or the      *)
(* answer is complete; then a call in step has read its own, and all of it. *)
LEMMA ReadSync ==
  ASSUME Base, Sync, NEW t \in Threads, Read(t)
  PROVE  Sync'
<1> DEFINE x == thread[t]
           c == conns[current]
<1>0. Types /\ Control
  BY DEF Base
<1>1. /\ x.pc = "read" /\ \E n, b : Got(t, n, b)
      /\ UNCHANGED <<peer, issued, current, faults>>
  BY <1>0, ReadFacts
<1>2. PICK n, b : Got(t, n, b)
  BY <1>1
<1> DEFINE y == Fetched(c, n)
<1>3. /\ peer = "app_server" /\ current \in 1..Len(conns) /\ c \in Conn
      /\ x.id \in 1..Len(issued) /\ issued \in Seq(DOMAIN Answer)
      /\ x.buffer \in Seq(Byte)
  BY <1>0, <1>1, HolderFacts, TypeFacts
<1>4. /\ n \in 1..Len(c.s2c) /\ b = x.buffer \o SubSeq(c.s2c, 1, n) /\ Changed(current, y)
  BY <1>2 DEF Got
<1>5. InStep(t) /\ \A k \in 1..Len(conns) : Drained(conns[k])
  BY <1>1 DEF Sync
<1>6. /\ x.clean <=> ~c.lagging
      /\ x.clean => Awaits(issued, c, x.id, x.buffer)
      /\ Drained(c)
  BY <1>3, <1>5 DEF InStep
<1>7. Drained(y) /\ y.lagging = c.lagging
  <2>1. c \in Conn /\ n \in 1..Len(c.s2c) /\ Drained(c)
    BY <1>3, <1>4, <1>6
  <2> HIDE DEF c
  <2>2. c.s2c # <<>>
    BY <2>1
  <2>3. y.state = c.state /\ y.lagging = c.lagging
    BY <2>1, FetchedFacts
  <2> HIDE DEF y
  <2> QED BY <2>1, <2>2, <2>3 DEF Drained
<1>8. x.clean => /\ ParseReply(b) = Incomplete => Awaits(issued, y, x.id, b)
                 /\ ParseReply(b) # Incomplete => Settled(y)
  <2> DEFINE id == x.id
             g == x.buffer
  <2>1. id \in DOMAIN issued /\ g \in Seq(Byte)
    BY <1>3
  <2>2. x.clean => Awaits(issued, c, id, g)
    BY <1>6
  <2>3. b = g \o SubSeq(c.s2c, 1, n)
    BY <1>4
  <2> HIDE DEF c, g, id
  <2>4. x.clean => /\ ParseReply(b) = Incomplete => Awaits(issued, y, id, b)
                   /\ ParseReply(b) # Incomplete => Settled(y)
    <3>1. SUFFICES ASSUME x.clean
                   PROVE  /\ ParseReply(b) = Incomplete => Awaits(issued, y, id, b)
                          /\ ParseReply(b) # Incomplete => Settled(y)
      OBVIOUS
    <3>2. c \in Conn /\ n \in 1..Len(c.s2c) /\ Drained(c) /\ issued \in Seq(DOMAIN Answer)
      BY <1>3, <1>4, <1>6
    <3>3. Awaits(issued, c, id, g)
      BY <2>2, <3>1
    <3> HIDE DEF x
    <3> QED BY <2>1, <2>3, <3>2, <3>3, InStepFetched
  <2> QED BY <2>4 DEF id
<1> HIDE DEF y
<1>9. \A k \in 1..Len(conns') : Drained(conns'[k])
  BY <1>4, <1>5, <1>7 DEF Changed
<1>10. conns'[current'] = y
  BY <1>1, <1>4 DEF Changed
<1> DEFINE z == [thread[t] EXCEPT !.buffer = b]
<1>11. CASE ParseReply(b).tag = "incomplete" /\ Moved(t, z)
  <2>1. z.pc = "read" /\ z.id = x.id /\ z.buffer = b /\ z.clean = x.clean
    <3>1. \A d : LET w == [thread[t] EXCEPT !.buffer = d]
                 IN w.pc = x.pc /\ w.id = x.id /\ w.buffer = d /\ w.clean = x.clean
      BY <1>0, CallFields
    <3> QED BY <1>1, <3>1
  <2> HIDE DEF z
  <2>2. ParseReply(b) = Incomplete
    <3>1. b \in Seq(Byte)
      BY <1>2 DEF Got
    <3>2. Outcome(ParseReply(b), 2, Len(b) + 1)
      BY <3>1, ReplyStable
    <3> QED BY <1>11, <3>2, Tags DEF Outcome
  <2>3. z.clean <=> ~conns'[current'].lagging
    BY <1>6, <1>7, <1>10, <2>1
  <2>4. z.clean => Awaits(issued, conns'[current'], z.id, z.buffer)
    BY <1>8, <1>10, <2>1, <2>2
  <2> QED BY <1>1, <1>3, <1>9, <1>11, <2>1, <2>2, <2>3, <2>4, SyncMoved
<1>12. ASSUME NEW r, Decoded(r, ParseReply(b), Len(b), Shape[issued[thread[t].id][1][1]]),
              Moved(t, [thread[t] EXCEPT !.pc = "idle", !.buffer = <<>>, !.result = r])
       PROVE  Sync'
  <2> DEFINE v == [thread[t] EXCEPT !.pc = "idle", !.buffer = <<>>, !.result = r]
  <2>1. v.pc = "idle" /\ Moved(t, v)
    <3>1. \A q : LET w == [thread[t] EXCEPT !.pc = "idle", !.buffer = <<>>, !.result = q]
                 IN w.pc = "idle"
      BY <1>0, CallFields
    <3> QED BY <1>12, <3>1
  <2> HIDE DEF v
  <2>2. ParseReply(b) # Incomplete
    BY <1>12, Tags DEF Decoded
  <2>3. ~conns'[current'].lagging => Settled(conns'[current'])
    BY <1>6, <1>7, <1>8, <1>10, <2>2
  <2> QED BY <1>1, <1>3, <1>9, <2>1, <2>3, SyncMoved
<1> QED BY <1>2, <1>11, <1>12 DEF Got

(* Each step of handle_client, or of the network. *)
LEMMA ServerSync ==
  ASSUME Base, Sync, NEW c \in 1..Len(conns),
         Recv(c) \/ Handle(c) \/ Leave(c) \/ Stop(c) \/ Reset(c)
  PROVE  Sync'
<1> DEFINE x == conns[c]
<1>0. /\ Types /\ x \in Conn /\ Stream(issued, peer, x) /\ issued \in Seq(DOMAIN Answer)
      /\ Drained(x)
  BY ConnOf, TypeFacts DEF Base, Streams1, Sync
<1>1. CASE Recv(c)
  <2>1. /\ \E n \in 1..Len(x.c2s) : Changed(c, Received(x, n))
        /\ Serves
    BY <1>0, <1>1, RecvFacts
  <2>2. PICK n \in 1..Len(x.c2s) : Changed(c, Received(x, n))
    BY <2>1
  <2> DEFINE y == Received(x, n)
  <2>3. /\ y.sent = x.sent /\ y.executed = x.executed /\ y.s2c = x.s2c /\ y.state = x.state
        /\ y.lagging = x.lagging /\ Changed(c, y)
    <3>1. Changed(c, y)
      BY <2>2
    <3> HIDE DEF x
    <3> QED BY <1>0, <3>1, ReceivedFacts
  <2> HIDE DEF y
  <2>4. /\ Drained(x) => Drained(y)
        /\ Settled(x) => Settled(y)
        /\ \A iss, id, b : Awaits(iss, x, id, b) => Awaits(iss, y, id, b)
    <3>1. /\ y.s2c = x.s2c
          /\ y.state \in {"open", "eof"} => x.state \in {"open", "eof"}
          /\ y.state \in {"fin", "reset"} => x.state \in {"fin", "reset"} \/ y.s2c = <<>>
          /\ y.sent = x.sent /\ y.executed = x.executed
      BY <2>3
    <3> HIDE DEF x
    <3> QED BY <3>1, InStepKept
  <2> QED BY <2>1, <2>3, <2>4, SyncServed
<1>2. CASE Handle(c)
  <2> DEFINE frame == ParseFrame(x.buffer)
  <2>1. ~x.garbled /\ frame.tag = "ok" => frame.value \in DOMAIN Answer
    BY FrameKnown
  <2>2. /\ x.state \in {"open", "fin", "reset"}
        /\ \/ /\ frame.tag = "ok"
              /\ frame.next \in 1..(Len(x.buffer) + 1)
              /\ Changed(c, Done(x, frame))
           \/ /\ frame.tag = "malformed"
              /\ Changed(c, Failed(x))
        /\ Serves
    BY <1>0, <1>2, <2>1, HandleFacts
  <2>3. CASE /\ frame.tag = "ok" /\ frame.next \in 1..(Len(x.buffer) + 1)
             /\ Changed(c, Done(x, frame))
    <3> DEFINE y == Done(x, frame)
    <3>1. /\ y.state = x.state /\ y.lagging = x.lagging
          /\ y.s2c = Out(x, EncodeReply(AnswerTo(frame.value)))
      <4> HIDE DEF x
      <4> QED BY <1>0, <2>1, <2>3, DoneFacts
    <3>2. Drained(x) => Drained(y)
      BY <3>1 DEF Drained, Out
    <3>3. peer = "app_server" =>
            /\ Settled(x) => Settled(y)
            /\ \A id \in DOMAIN issued, b \in Seq(Byte) :
                 Awaits(issued, x, id, b) => Awaits(issued, y, id, b)
      <4>1. SUFFICES ASSUME peer = "app_server"
                     PROVE  /\ Settled(x) => Settled(y)
                            /\ \A id \in DOMAIN issued, b \in Seq(Byte) :
                                 Awaits(issued, x, id, b) => Awaits(issued, y, id, b)
        OBVIOUS
      <4>2. Stream(issued, "app_server", x) /\ x.state # "eof"
        BY <1>0, <2>2, <4>1
      <4> HIDE DEF x
      <4> QED BY <1>0, <2>3, <4>2, InStepDone
    <3>4. Changed(c, y)
      BY <2>3
    <3> HIDE DEF y
    <3> QED BY <2>2, <3>1, <3>2, <3>3, <3>4, SyncServed
  <2>4. CASE frame.tag = "malformed" /\ Changed(c, Failed(x))
    <3> DEFINE y == Failed(x)
    <3>1. y.state = x.state /\ y.lagging = x.lagging /\ y.s2c = Out(x, EncodeReply(ErrorReply))
      <4> HIDE DEF x
      <4> QED BY <1>0, FailedFacts
    <3>2. Drained(x) => Drained(y)
      BY <3>1 DEF Drained, Out
    <3>3. peer # "app_server"
      <4>1. SUFFICES ASSUME peer = "app_server" PROVE FALSE
        OBVIOUS
      <4>2. ~x.garbled
        BY <1>0, <4>1 DEF Stream
      <4>3. PICK queue : Queued(issued, peer, x, queue)
        BY <1>0, <4>2 DEF Stream
      <4> HIDE DEF x
      <4> QED BY <1>0, <2>4, <4>1, <4>3, FrameOf
    <3>4. Changed(c, y)
      BY <2>4
    <3> HIDE DEF y
    <3> QED BY <2>2, <3>1, <3>2, <3>3, <3>4, SyncServed
  <2> QED BY <2>2, <2>3, <2>4
<1>3. CASE Leave(c) \/ Stop(c) \/ Reset(c)
  <2>1. /\ \/ x.state = "fin" /\ Changed(c, Left(x))
           \/ x.state = "open" /\ Changed(c, Stopped(x))
           \/ x.state \in {"open", "eof"} /\ Changed(c, Dead(x))
        /\ Serves
    BY <1>0, <1>3, EndingSteps
  <2>2. ASSUME NEW y, Changed(c, y),
               y.sent = x.sent, y.executed = x.executed, y.lagging = x.lagging,
               y.s2c = x.s2c \/ (y.s2c = <<>> /\ y.state \notin {"open", "eof"}),
               y.state \in {"open", "eof"} => x.state \in {"open", "eof"},
               y.state \in {"fin", "reset"} => x.state \in {"fin", "reset"} \/ y.s2c = <<>>
        PROVE  Sync'
    <3>1. /\ Drained(x) => Drained(y)
          /\ Settled(x) => Settled(y)
          /\ \A iss, id, b : Awaits(iss, x, id, b) => Awaits(iss, y, id, b)
      <4> HIDE DEF x
      <4> QED BY <2>2, InStepKept
    <3> QED BY <2>1, <2>2, <3>1, SyncServed
  <2>3. /\ Left(x).state = "reset" /\ Stopped(x).state = "eof" /\ Dead(x).state = "reset"
        /\ Left(x).s2c = x.s2c /\ Stopped(x).s2c = x.s2c /\ Dead(x).s2c = <<>>
        /\ \A y \in {Left(x), Stopped(x), Dead(x)} :
             y.sent = x.sent /\ y.executed = x.executed /\ y.lagging = x.lagging
    <3>1. x \in Conn
      BY <1>0
    <3> HIDE DEF x
    <3> QED BY <3>1, EndingFacts
  <2>4. CASE x.state = "fin" /\ Changed(c, Left(x))
    BY <2>2, <2>3, <2>4
  <2>5. CASE x.state = "open" /\ Changed(c, Stopped(x))
    <3> DEFINE y == Stopped(x)
    <3>1. /\ Changed(c, y) /\ y.sent = x.sent /\ y.executed = x.executed /\ y.lagging = x.lagging
          /\ y.s2c = x.s2c /\ y.state = "eof"
      BY <2>3, <2>5
    <3>2. y.state \in {"open", "eof"} => x.state \in {"open", "eof"}
      BY <2>5
    <3>3. y.state \notin {"fin", "reset"}
      BY <3>1
    <3> HIDE DEF y
    <3> QED BY <2>2, <3>1, <3>2, <3>3
  <2>6. CASE Changed(c, Dead(x))
    BY <2>2, <2>3, <2>6
  <2> QED BY <2>1, <2>4, <2>5, <2>6
<1> QED BY <1>1, <1>2, <1>3

(* Every step. *)
LEMMA NextSync == Base /\ Sync /\ [Next]_vars => Sync'
<1> SUFFICES ASSUME Base, Sync, [Next]_vars PROVE Sync'
  OBVIOUS
<1>1. ASSUME NEW t \in Threads, NEW tokens \in Calls[t], Begin(t, tokens) PROVE Sync'
  BY <1>1, BeginSync
<1>2. ASSUME NEW t \in Threads, ClientStep(t) PROVE Sync'
  BY <1>2, EnterSync, SendSync, BrokenSync, ReadSync, ReadEofSync DEF ClientStep
<1>3. ASSUME NEW t \in Threads, TimesOut(t) PROVE Sync'
  BY <1>3, BrokenSync
<1>4. ASSUME NEW c \in DOMAIN conns, ServerStep(c) \/ Leave(c) \/ Stop(c) \/ Reset(c)
      PROVE  Sync'
  <2>1. c \in 1..Len(conns)
    BY TypeFacts DEF Base
  <2> QED BY <1>4, <2>1, ServerSync DEF ServerStep
<1>5. CASE UNCHANGED vars
  BY <1>5 DEF vars, Sync, Resting, InStep
<1>6. Quiet => UNCHANGED vars
  BY DEF Quiet
<1> QED BY <1>1, <1>2, <1>3, <1>4, <1>5, <1>6 DEF Next

(* On a connection in step nothing but the answer to the last command is   *)
(* ever on its way, and the call that sent it waits for it.                *)
THEOREM SyncAlways == Spec => []Sync
<1>1. Spec => []Base
  BY BaseAlways
<1>2. Init => Sync
  BY InitSync
<1>3. Base /\ Sync /\ [Next]_vars => Sync'
  BY NextSync
<1> QED BY <1>1, <1>2, <1>3, PTL DEF Spec

(* A call in step whose request and reply have both arrived would have     *)
(* returned.                                                               *)
LEMMA SyncReplyOnItsWay == Base /\ Sync => ReplyOnItsWay
<1> SUFFICES ASSUME Base, Sync, NEW t \in Threads, At(t, "read"), thread[t].clean,
                    conns[current].state = "open", conns[current].c2s = <<>>,
                    conns[current].s2c = <<>>, Waiting(current)
             PROVE  FALSE
  BY DEF ReplyOnItsWay
<1> DEFINE x == thread[t]
           c == conns[current]
           o == <<>>
<1>1. x.pc = "read" /\ InStep(t)
  BY DEF At, Sync
<1>2. /\ current \in 1..Len(conns) /\ c \in Conn /\ x.buffer \in Seq(Byte)
      /\ x.id \in 1..Len(issued) /\ issued[x.id] \in DOMAIN Answer /\ issued \in Seq(DOMAIN Answer)
  BY <1>1, HolderFacts, TypeFacts DEF Base
<1>3. c.executed = [i \in DOMAIN c.sent |-> issued[c.sent[i]]]
  <2>1. DOMAIN conns = 1..Len(conns)
    BY TypeFacts DEF Base
  <2> QED BY <1>2, <2>1, BaseCommandsAsSent DEF CommandsAsSent
<1>4. Len(c.executed) = Len(c.sent) /\ Len(c.sent) \in Nat /\ Len(c.sent) # Len(c.sent) - 1
  <2>1. c.sent \in Seq(Nat) /\ c.executed \in Seq(DOMAIN Answer)
    BY <1>2 DEF Conn
  <2> QED BY <1>3, <2>1
<1>5. x.buffer \o c.s2c = EncodeReply(Answer[issued[x.id]])
  BY <1>1, <1>4 DEF InStep, Awaits
<1>6. o \in Seq(Byte) /\ x.buffer \o o = EncodeReply(Answer[issued[x.id]])
  BY <1>5
<1>7. ParseReply(x.buffer) # Incomplete
  <2> DEFINE a == Answer[issued[x.id]]
             b == x.buffer
             d == issued[x.id]
  <2>1. d \in DOMAIN Answer /\ b \in Seq(Byte) /\ EncodeReply(Answer[d]) = b \o o
    BY <1>2, <1>6
  <2> HIDE DEF d, b
  <2>2. o = <<>>
    OBVIOUS
  <2> HIDE DEF o
  <2>3. ParseReply(b) = IF Answer[d] = ErrorReply THEN Refused
                        ELSE Parsed(ReadBack(Answer[d]), Len(b) + 1)
    BY <1>6, <2>1, <2>2, AnswerRead
  <2>4. ParseReply(b) # Incomplete
    BY <2>3, Tags
  <2> QED BY <2>4 DEF b
<1> QED BY <1>1, <1>7 DEF InStep

(* No call on a connection in step waits for bytes that never come, for    *)
(* any commands, answers and cuts.                                         *)
THEOREM ReplyOnItsWayAlways == Spec => []ReplyOnItsWay
<1>1. Spec => []Base
  BY BaseAlways
<1>2. Spec => []Sync
  BY SyncAlways
<1>3. Base /\ Sync => ReplyOnItsWay
  BY SyncReplyOnItsWay
<1> QED BY <1>1, <1>2, <1>3, PTL

-----------------------------------------------------------------------------
(* What was sent for each call, and how far it was executed *)

(* Only sendall() adds to what was sent, and nothing executed is forgotten. *)
Grown ==
  \A c \in 1..Len(conns) :
    /\ c \in 1..Len(conns')
    /\ Len(conns[c].sent) <= Len(conns'[c].sent)
    /\ Len(conns[c].executed) <= Len(conns'[c].executed)
    /\ \A k \in 1..Len(conns[c].sent) : conns'[c].sent[k] = conns[c].sent[k]
SentKept ==
  /\ Grown
  /\ \A c \in 1..Len(conns') :
       (c \in 1..Len(conns) /\ conns'[c].sent = conns[c].sent) \/ conns'[c].sent = <<>>

(* The lengths of what a connection has sent and executed are numbers. *)
LEMMA ConnLengths ==
  ASSUME Types, NEW c \in 1..Len(conns)
  PROVE  /\ Len(conns[c].sent) \in Nat /\ Len(conns[c].executed) \in Nat
         /\ conns[c].sent \in Seq(Nat) /\ Len(conns) \in Nat
<1> DEFINE x == conns[c]
<1>1. x \in Conn /\ Len(conns) \in Nat
  BY ConnOf, TypeFacts
<1> HIDE DEF x
<1>2. x.sent \in Seq(Nat) /\ x.executed \in Seq(DOMAIN Answer)
  BY <1>1 DEF Conn
<1>3. Len(x.sent) \in Nat /\ Len(x.executed) \in Nat
  BY <1>2
<1> QED BY <1>1, <1>2, <1>3 DEF x

(* One connection changes, but not what was sent on it. *)
LEMMA KeptChanged ==
  ASSUME Types, NEW c \in 1..Len(conns), NEW y, Changed(c, y), y.sent = conns[c].sent,
         Len(conns[c].executed) <= Len(y.executed)
  PROVE  SentKept
<1>1. ASSUME NEW k \in 1..Len(conns)
      PROVE  /\ k \in 1..Len(conns')
             /\ conns'[k].sent = conns[k].sent
             /\ Len(conns[k].executed) <= Len(conns'[k].executed)
             /\ Len(conns[k].sent) <= Len(conns'[k].sent)
  <2>1. Len(conns[k].executed) \in Nat /\ Len(conns[k].sent) \in Nat
    BY ConnLengths
  <2>2. /\ Len(conns') = Len(conns) /\ conns'[c] = y
        /\ k # c => conns'[k] = conns[k]
    BY DEF Changed
  <2>3. k \in 1..Len(conns')
    BY <2>2
  <2>4. CASE k = c
    <3>1. conns'[k] = y
      BY ONLY <2>2, <2>4
    <3>2. /\ y.sent = conns[k].sent
          /\ Len(conns[k].executed) <= Len(y.executed)
      BY <2>4
    <3> QED BY ONLY <2>1, <2>3, <3>1, <3>2
  <2>5. CASE k # c
    <3>1. conns'[k] = conns[k]
      BY ONLY <2>2, <2>5
    <3> QED BY ONLY <2>1, <2>3, <3>1
  <2> QED BY ONLY <2>4, <2>5
<1> QED BY <1>1 DEF SentKept, Grown, Changed

(* A connection is made. *)
LEMMA KeptAdded ==
  ASSUME Types, Added
  PROVE  SentKept
<1>1. ASSUME NEW k \in 1..Len(conns)
      PROVE  /\ k \in 1..Len(conns')
             /\ conns'[k] = conns[k]
             /\ Len(conns[k].executed) <= Len(conns'[k].executed)
             /\ Len(conns[k].sent) <= Len(conns'[k].sent)
  BY ConnLengths DEF Added
<1>2. \A k \in 1..Len(conns') : k \in 1..Len(conns) \/ k = Len(conns) + 1
  BY TypeFacts DEF Added
<1>3. NewConn.sent = <<>>
  BY DEF NewConn
<1> QED BY <1>1, <1>2, <1>3 DEF SentKept, Grown, Added

(* A connection is closed and another made. *)
LEMMA KeptReplaced ==
  ASSUME Types, NEW c \in 1..Len(conns), NEW y, Replaced(c, y), y.sent = conns[c].sent,
         y.executed = conns[c].executed
  PROVE  SentKept
<1>1. ASSUME NEW k \in 1..Len(conns)
      PROVE  /\ k \in 1..Len(conns')
             /\ conns'[k].sent = conns[k].sent
             /\ Len(conns[k].executed) <= Len(conns'[k].executed)
             /\ Len(conns[k].sent) <= Len(conns'[k].sent)
  BY ConnLengths DEF Replaced
<1>2. \A k \in 1..Len(conns') : k \in 1..Len(conns) \/ k = Len(conns) + 1
  BY TypeFacts DEF Replaced
<1>3. NewConn.sent = <<>>
  BY DEF NewConn
<1> QED BY <1>1, <1>2, <1>3 DEF SentKept, Grown, Replaced

(* Nothing changes. *)
LEMMA KeptSame ==
  ASSUME Types, UNCHANGED conns
  PROVE  SentKept
BY ConnLengths DEF SentKept, Grown

(* A call begins or takes the lock. *)
LEMMA EnterKept ==
  ASSUME Base, NEW t \in Threads, Enter(t) \/ \E tokens \in Calls[t] : Begin(t, tokens)
  PROVE  SentKept
<1>1. UNCHANGED conns \/ Added
  BY BeginFacts, EnterFacts DEF Base
<1> QED BY <1>1, KeptSame, KeptAdded DEF Base

(* A call gives up a connection, or reads. *)
LEMMA CallKept ==
  ASSUME Base, NEW t \in Threads, Broken(t) \/ TimesOut(t) \/ Read(t) \/ ReadEof(t)
  PROVE  SentKept
<1>0. Types /\ Control
  BY DEF Base
<1>1. thread[t].pc \in {"send", "read"}
  BY <1>0, BrokenFacts, ReadFacts, ReadEofFacts
<1> DEFINE x == conns[current]
<1>2. current \in 1..Len(conns) /\ x \in Conn
  BY <1>0, <1>1, HolderFacts
<1>3. \/ Replaced(current, Close(x)) \/ Changed(current, Close(x)) \/ Changed(current, Lag(x))
      \/ \E n \in 1..Len(x.s2c) : Changed(current, Fetched(x, n))
  BY <1>0, BrokenFacts, ReadFacts, ReadEofFacts DEF Retried, GaveUp, WasRefused, Got
<1>4. ASSUME NEW y, y.sent = x.sent, y.executed = x.executed,
             Changed(current, y) \/ Replaced(current, y)
      PROVE  SentKept
  <2>1. Len(x.executed) <= Len(y.executed)
    BY <1>0, <1>2, <1>4, ConnLengths
  <2> QED BY <1>0, <1>2, <1>4, <2>1, KeptChanged, KeptReplaced
<1>5. /\ Close(x).sent = x.sent /\ Close(x).executed = x.executed
      /\ Lag(x).sent = x.sent /\ Lag(x).executed = x.executed
      /\ \A n \in 1..Len(x.s2c) :
           Fetched(x, n).sent = x.sent /\ Fetched(x, n).executed = x.executed
  <2> HIDE DEF x
  <2> QED BY <1>2, CloseFacts, LagFacts, FetchedFacts
<1> HIDE DEF x
<1>6. CASE Replaced(current, Close(x)) \/ Changed(current, Close(x))
  BY <1>4, <1>5, <1>6
<1>7. CASE Changed(current, Lag(x))
  BY <1>4, <1>5, <1>7
<1>8. CASE \E n \in 1..Len(x.s2c) : Changed(current, Fetched(x, n))
  BY <1>4, <1>5, <1>8
<1> QED BY <1>3, <1>6, <1>7, <1>8

(* The server works, or the network fails. *)
LEMMA ServerKept ==
  ASSUME Base, NEW c \in 1..Len(conns),
         Recv(c) \/ Handle(c) \/ Leave(c) \/ Stop(c) \/ Reset(c)
  PROVE  SentKept /\ Serves
<1> DEFINE x == conns[c]
           frame == ParseFrame(x.buffer)
<1>0. Types /\ x \in Conn /\ Len(x.executed) \in Nat /\ x.executed \in Seq(DOMAIN Answer)
  BY ConnOf, ConnLengths DEF Base, Conn
<1>1. ASSUME NEW y, Changed(c, y), y.sent = x.sent, Len(x.executed) <= Len(y.executed)
      PROVE  SentKept
  BY <1>0, <1>1, KeptChanged
<1>2. CASE Recv(c)
  <2>1. Serves /\ \E n \in 1..Len(x.c2s) : Changed(c, Received(x, n))
    BY <1>0, <1>2, RecvFacts
  <2>2. PICK n \in 1..Len(x.c2s) : Changed(c, Received(x, n))
    BY <2>1
  <2> DEFINE y == Received(x, n)
  <2> HIDE DEF x
  <2>3. Changed(c, y) /\ y.sent = x.sent /\ y.executed = x.executed
    BY <1>0, <2>2, ReceivedFacts
  <2> HIDE DEF y
  <2>4. Len(x.executed) <= Len(y.executed)
    BY <1>0, <2>3
  <2> QED BY <1>1, <2>1, <2>3, <2>4
<1>3. CASE Handle(c)
  <2>1. ~x.garbled /\ frame.tag = "ok" => frame.value \in DOMAIN Answer
    BY FrameKnown
  <2>2. /\ \/ /\ frame.next \in 1..(Len(x.buffer) + 1)
              /\ frame.tag = "ok" /\ Changed(c, Done(x, frame))
           \/ Changed(c, Failed(x))
        /\ Serves
    BY <1>0, <1>3, <2>1, HandleFacts
  <2>3. CASE /\ frame.next \in 1..(Len(x.buffer) + 1)
             /\ frame.tag = "ok" /\ Changed(c, Done(x, frame))
    <3> DEFINE y == Done(x, frame)
    <3>1. /\ y.sent = x.sent
          /\ y.executed = x.executed \/ y.executed = Append(x.executed, frame.value)
      <4>1. x \in Conn /\ frame.next \in 1..(Len(x.buffer) + 1)
            /\ (~x.garbled => frame.value \in DOMAIN Answer)
        BY <1>0, <2>1, <2>3
      <4> HIDE DEF x, frame
      <4> QED BY <4>1, DoneFacts
    <3>2. Len(x.executed) <= Len(y.executed)
      <4> HIDE DEF x, y
      <4> QED BY <1>0, <3>1
    <3>3. Changed(c, y)
      BY <2>3
    <3> HIDE DEF y
    <3> QED BY <1>1, <2>2, <3>1, <3>2, <3>3
  <2>4. CASE Changed(c, Failed(x))
    <3> DEFINE y == Failed(x)
    <3>1. Changed(c, y) /\ y.sent = x.sent /\ y.executed = x.executed
      <4>1. Changed(c, y)
        BY <2>4
      <4> HIDE DEF x
      <4> QED BY <1>0, <4>1, FailedFacts
    <3> HIDE DEF y
    <3>2. Len(x.executed) <= Len(y.executed)
      BY <1>0, <3>1
    <3> QED BY <1>1, <2>2, <3>1, <3>2
  <2> QED BY <2>2, <2>3, <2>4
<1>4. CASE Leave(c) \/ Stop(c) \/ Reset(c)
  <2>1. Serves /\ \E y \in {Left(x), Stopped(x), Dead(x)} : Changed(c, y)
    BY <1>0, <1>4, EndingSteps
  <2>2. PICK y \in {Left(x), Stopped(x), Dead(x)} : Changed(c, y)
    BY <2>1
  <2>3. y.sent = x.sent /\ y.executed = x.executed
    <3> HIDE DEF x
    <3> QED BY <1>0, EndingFacts
  <2>4. Len(x.executed) <= Len(y.executed)
    BY <1>0, <2>3
  <2> QED BY <1>1, <2>1, <2>2, <2>3, <2>4
<1> QED BY <1>2, <1>3, <1>4

(* A command is sent. *)
LEMMA SendGrown ==
  ASSUME Base, NEW t \in Threads, Send(t)
  PROVE  Grown
<1> DEFINE x == conns[current]
           id == thread[t].id
           e == EncodeCommand(issued[id])
           y == Commanded(x, id, e)
<1>0. Types /\ Control
  BY DEF Base
<1>1. thread[t].pc = "send" /\ Changed(current, y) /\ e \in Seq(Byte)
  BY <1>0, SendFacts
<1>2. current \in 1..Len(conns) /\ x \in Conn /\ id \in Nat
  BY <1>0, <1>1, HolderFacts
<1>3. y.sent = Append(x.sent, id) /\ y.executed = x.executed
  <2> HIDE DEF x, id, e
  <2> QED BY <1>1, <1>2, CommandedFacts
<1> HIDE DEF y
<1>4. x.sent \in Seq(Nat) /\ Len(x.sent) \in Nat /\ Len(x.executed) \in Nat
  BY <1>0, <1>2, ConnLengths
<1>5. /\ Len(x.sent) <= Len(y.sent) /\ Len(x.executed) <= Len(y.executed)
      /\ \A k \in 1..Len(x.sent) : y.sent[k] = x.sent[k]
  <2> HIDE DEF x, id
  <2> QED BY <1>2, <1>3, <1>4
<1>6. ASSUME NEW k \in 1..Len(conns)
      PROVE  /\ k \in 1..Len(conns')
             /\ Len(conns[k].sent) <= Len(conns'[k].sent)
             /\ Len(conns[k].executed) <= Len(conns'[k].executed)
             /\ \A i \in 1..Len(conns[k].sent) : conns'[k].sent[i] = conns[k].sent[i]
  <2>1. CASE k = current
    BY <1>1, <1>5, <2>1 DEF Changed
  <2>2. CASE k # current
    BY <1>0, <1>1, <2>2, ConnLengths DEF Changed
  <2> QED BY <2>1, <2>2
<1> QED BY <1>6 DEF Grown

-----------------------------------------------------------------------------
(* What calls in step return *)

(* The command of call i was executed on one of the connections. *)
Ran(cs, i) ==
  \E c \in 1..Len(cs) : \E k \in 1..Len(cs[c].executed) :
    k \in 1..Len(cs[c].sent) /\ cs[c].sent[k] = i

(* The result is what the server answers to command d. *)
Tells(r, d) == r = Value(Answer[d]) \/ (r = Conflict /\ Answer[d] = ErrorReply)

Answered(t) ==
  (thread[t].clean /\ thread[t].result.tag \in {"value", "conflict"}) =>
    /\ thread[t].id \in 1..Len(issued) /\ Ran(conns, thread[t].id)
    /\ Tells(thread[t].result, issued[thread[t].id])
Results == \A t \in Threads : Answered(t)

(* The results differ in their tags. *)
LEMMA ResultTags ==
  /\ Upstream.tag = "upstream" /\ Conflict.tag = "conflict"
  /\ \A v : Value(v).tag = "value" /\ Value(v).value = v
  /\ [tag |-> "none"].tag = "none"
BY DEF Upstream, Conflict, Value

(* What was executed stays executed. *)
LEMMA RanKept ==
  ASSUME Types, Grown
  PROVE  \A i : Ran(conns, i) => Ran(conns', i)
<1> SUFFICES ASSUME NEW i, Ran(conns, i) PROVE Ran(conns', i)
  OBVIOUS
<1>1. PICK c \in 1..Len(conns) : \E k \in 1..Len(conns[c].executed) :
        k \in 1..Len(conns[c].sent) /\ conns[c].sent[k] = i
  BY DEF Ran
<1>2. PICK k \in 1..Len(conns[c].executed) : k \in 1..Len(conns[c].sent) /\ conns[c].sent[k] = i
  BY <1>1
<1> DEFINE s == Len(conns[c].sent)
           e == Len(conns[c].executed)
           sn == Len(conns'[c].sent)
           en == Len(conns'[c].executed)
<1>3. /\ c \in 1..Len(conns') /\ s <= sn /\ e <= en /\ conns'[c].sent[k] = i
      /\ s \in Nat /\ e \in Nat
  BY <1>2, ConnLengths DEF Grown
<1>4. k \in 1..e /\ k \in 1..s
  BY <1>2
<1> HIDE DEF s, e
<1>5. k \in 1..sn /\ k \in 1..en
  BY <1>3, <1>4
<1> QED BY <1>3, <1>5 DEF Ran

(* A call that did not move returned what it returned. *)
LEMMA AnsweredKept ==
  ASSUME Types, Grown, Len(issued) <= Len(issued'), Len(issued') \in Nat,
         \A i \in 1..Len(issued) : issued'[i] = issued[i],
         NEW u \in Threads, thread'[u] = thread[u], Answered(u)
  PROVE  Answered(u)'
<1> SUFFICES ASSUME thread[u].clean, thread[u].result.tag \in {"value", "conflict"}
             PROVE  /\ thread[u].id \in 1..Len(issued') /\ Ran(conns', thread[u].id)
                    /\ Tells(thread[u].result, issued'[thread[u].id])
  BY DEF Answered
<1> DEFINE id == thread[u].id
<1>1. /\ id \in 1..Len(issued) /\ Ran(conns, id)
      /\ Tells(thread[u].result, issued[id])
  BY DEF Answered
<1>2. issued'[id] = issued[id] /\ id \in 1..Len(issued')
  BY <1>1, TypeFacts
<1>3. Ran(conns', id)
  BY <1>1, RanKept
<1> QED BY <1>1, <1>2, <1>3

(* A call that moved, and has no answer yet or is as said of z. *)
LEMMA ResultsMoved ==
  ASSUME Types, Results, Grown, Len(issued) <= Len(issued'), Len(issued') \in Nat,
         \A i \in 1..Len(issued) : issued'[i] = issued[i],
         NEW t \in Threads, NEW z, Moved(t, z),
         (z.clean /\ z.result.tag \in {"value", "conflict"}) =>
            /\ z.id \in 1..Len(issued) /\ Ran(conns, z.id)
            /\ Tells(z.result, issued[z.id])
  PROVE  Results'
<1>1. ASSUME NEW u \in Threads, u # t PROVE Answered(u)'
  BY <1>1, AnsweredKept DEF Results, Moved
<1>2. Answered(t)'
  <2>1. thread'[t] = z
    BY DEF Moved
  <2> SUFFICES ASSUME z.clean, z.result.tag \in {"value", "conflict"}
               PROVE  /\ z.id \in 1..Len(issued') /\ Ran(conns', z.id)
                      /\ Tells(z.result, issued'[z.id])
    BY <2>1 DEF Answered
  <2>2. /\ z.id \in 1..Len(issued) /\ Ran(conns, z.id)
        /\ Tells(z.result, issued[z.id])
    OBVIOUS
  <2>3. issued'[z.id] = issued[z.id] /\ z.id \in 1..Len(issued')
    BY <2>2, TypeFacts
  <2>4. Ran(conns', z.id)
    BY <2>2, RanKept
  <2> QED BY <2>2, <2>3, <2>4
<1> QED BY <1>1, <1>2 DEF Results

(* What a call in step makes of the bytes it read: its own answer. *)
LEMMA ReadAnswers ==
  ASSUME Base, Sync, NEW t \in Threads, thread[t].pc = "read", thread[t].clean,
         NEW n, NEW b, Got(t, n, b),
         NEW r, Decoded(r, ParseReply(b), Len(b), Shape[issued[thread[t].id][1][1]])
  PROVE  /\ thread[t].id \in 1..Len(issued) /\ Ran(conns, thread[t].id)
         /\ Tells(r, issued[thread[t].id])
<1> DEFINE x == thread[t]
           c == conns[current]
           id == x.id
           g == x.buffer
           y == Fetched(c, n)
<1>0. Types /\ Control
  BY DEF Base
<1>1. /\ current \in 1..Len(conns) /\ c \in Conn
      /\ id \in 1..Len(issued) /\ issued \in Seq(DOMAIN Answer) /\ g \in Seq(Byte)
  BY <1>0, HolderFacts, TypeFacts
<1>2. issued[id] \in Calls[t]
  BY <1>0 DEF Control, CallOK
<1>3. n \in 1..Len(c.s2c) /\ b = g \o SubSeq(c.s2c, 1, n) /\ b \in Seq(Byte)
  BY DEF Got
<1>4. Drained(c) /\ Awaits(issued, c, id, g)
  BY <1>1 DEF Sync, InStep
<1>5. ParseReply(b) # Incomplete
  BY Tags DEF Decoded
<1>6. EncodeReply(Answer[issued[id]]) = b /\ Len(y.executed) = Len(y.sent)
  <2>1. id \in DOMAIN issued
    BY <1>1
  <2> HIDE DEF c, g, id
  <2> DEFINE e == g \o SubSeq(c.s2c, 1, n)
  <2>2. /\ Len(y.executed) = Len(y.sent)
        /\ ParseReply(e) # Incomplete => EncodeReply(Answer[issued[id]]) = e
    BY ONLY <1>1, <1>3, <1>4, <2>1, InStepFetched
  <2>3. b = e
    BY <1>3
  <2> HIDE DEF y, e
  <2> QED BY <1>5, <2>2, <2>3
<1>7. Tells(r, issued[id])
  <2> DEFINE d == issued[id]
  <2>1. d \in Calls[t] /\ EncodeReply(Answer[d]) = b
    BY <1>2, <1>6
  <2>2. Decoded(r, ParseReply(b), Len(b), Shape[d[1][1]])
    OBVIOUS
  <2> HIDE DEF d
  <2>3. (r = Conflict /\ Answer[d] = ErrorReply) \/ r = Value(Answer[d])
    BY <1>3, <2>1, <2>2, OwnAnswer
  <2> QED BY <2>3 DEF d, Tells
<1>8. Ran(conns, id)
  <2>1. y.executed = c.executed /\ y.sent = c.sent
    <3> HIDE DEF c
    <3> QED BY <1>1, <1>3, FetchedFacts
  <2> HIDE DEF y
  <2>2. c.sent # <<>> /\ c.sent[Len(c.sent)] = id /\ Len(c.executed) = Len(c.sent)
    BY <1>4, <1>6, <2>1 DEF Awaits
  <2>3. c.sent \in Seq(Nat)
    BY <1>1 DEF Conn
  <2>4. Len(c.sent) \in 1..Len(c.sent)
    BY <2>2, <2>3
  <2> QED BY <1>1, <2>2, <2>4 DEF Ran
<1> QED BY <1>1, <1>7, <1>8

(* A call that moved and returned nothing, or failed. *)
LEMMA NoAnswerMoved ==
  ASSUME Types, Results, SentKept \/ Grown, issued' = issued,
         NEW t \in Threads, NEW z, Moved(t, z), z.result.tag \notin {"value", "conflict"}
  PROVE  Results'
<1>1. Grown /\ Len(issued') \in Nat /\ Len(issued) <= Len(issued')
  BY TypeFacts DEF SentKept
<1> QED BY <1>1, ResultsMoved

(* A call begins. *)
LEMMA BeginResults ==
  ASSUME Base, Results, NEW t \in Threads, NEW tokens \in Calls[t], Begin(t, tokens)
  PROVE  Results'
<1> DEFINE z == [NoCall EXCEPT !.pc = "lock", !.id = Len(issued) + 1]
<1>1. /\ issued' = Append(issued, tokens) /\ tokens \in DOMAIN Answer
      /\ Moved(t, z) /\ UNCHANGED conns
  BY BeginFacts DEF Base
<1>2. z.result.tag \notin {"value", "conflict"}
  BY NewCallFields, ResultTags
<1> HIDE DEF z
<1>3. /\ Len(issued) <= Len(issued') /\ Len(issued') \in Nat
      /\ \A i \in 1..Len(issued) : issued'[i] = issued[i]
  BY <1>1, TypeFacts DEF Base
<1>4. Grown
  BY <1>1, KeptSame DEF SentKept, Base
<1> QED BY <1>1, <1>2, <1>3, <1>4, ResultsMoved DEF Base

(* The lock is taken, the command sent, or the connection lost. *)
LEMMA CallResults ==
  ASSUME Base, Results, NEW t \in Threads,
         Enter(t) \/ Send(t) \/ Broken(t) \/ TimesOut(t) \/ ReadEof(t)
  PROVE  Results'
<1> DEFINE x == thread[t]
           none == [tag |-> "none"]
<1>0. Types /\ Control
  BY DEF Base
<1>1. x.pc \in {"lock", "send", "read"} /\ UNCHANGED issued
  BY <1>0, EnterFacts, SendFacts, BrokenFacts, ReadEofFacts DEF Retried, GaveUp, WasRefused
<1>2. x.result = none
  BY <1>0, <1>1 DEF Control, CallOK
<1>3. \E z : Moved(t, z) /\ z.result \in {none, Upstream}
  <2> DEFINE ended == [thread[t] EXCEPT !.pc = "idle", !.buffer = <<>>, !.result = Upstream]
             entered == [thread[t] EXCEPT !.pc = "send"]
             sent == [thread[t] EXCEPT !.pc = "read", !.clean = ~conns[current].lagging]
             retried == [thread[t] EXCEPT !.pc = "send", !.attempt = 2, !.buffer = <<>>]
  <2>1. Moved(t, ended) \/ Moved(t, entered) \/ Moved(t, sent) \/ Moved(t, retried)
    BY <1>0, EnterFacts, SendFacts, BrokenFacts, ReadEofFacts DEF Retried, GaveUp, WasRefused
  <2>2. /\ ended.result = Upstream /\ entered.result = x.result /\ retried.result = x.result
    BY <1>0, CallFields
  <2>3. sent.result = x.result
    <3>1. \A k : LET w == [thread[t] EXCEPT !.pc = "read", !.clean = k] IN w.result = x.result
      BY <1>0, CallFields
    <3> QED BY <3>1
  <2> HIDE DEF ended, entered, sent, retried
  <2> QED BY <1>2, <2>1, <2>2, <2>3
<1>4. Grown
  <2>1. CASE Enter(t)
    BY <2>1, EnterKept DEF SentKept
  <2>2. CASE Broken(t) \/ TimesOut(t) \/ ReadEof(t)
    BY <2>2, CallKept DEF SentKept
  <2>3. CASE Send(t)
    BY <2>3, SendGrown
  <2> QED BY <2>1, <2>2, <2>3
<1>5. PICK z : Moved(t, z) /\ z.result \in {none, Upstream}
  BY <1>3
<1>6. z.result.tag \notin {"value", "conflict"}
  BY <1>5, ResultTags
<1> QED BY <1>0, <1>1, <1>4, <1>5, <1>6, NoAnswerMoved

(* recv() of the client, with or without all of a reply. *)
LEMMA ReadResults ==
  ASSUME Base, Sync, Results, NEW t \in Threads, Read(t)
  PROVE  Results'
<1> DEFINE x == thread[t]
<1>0. Types /\ Control
  BY DEF Base
<1>1. /\ x.pc = "read" /\ \E n, b : Got(t, n, b)
      /\ UNCHANGED issued
  BY <1>0, ReadFacts
<1>2. PICK n, b : Got(t, n, b)
  BY <1>1
<1>3. Grown
  BY CallKept DEF SentKept
<1>4. Len(issued') \in Nat /\ Len(issued) <= Len(issued')
  BY <1>0, <1>1, TypeFacts
<1> DEFINE z == [thread[t] EXCEPT !.buffer = b]
<1>5. CASE Moved(t, z)
  <2>1. z.result = x.result
    <3>1. \A d : LET w == [thread[t] EXCEPT !.buffer = d] IN w.result = x.result
      BY <1>0, CallFields
    <3> QED BY <3>1
  <2>2. x.result = [tag |-> "none"]
    BY <1>0, <1>1 DEF Control, CallOK
  <2>3. z.result.tag \notin {"value", "conflict"}
    BY <2>1, <2>2, ResultTags
  <2> HIDE DEF z
  <2> QED BY <1>0, <1>1, <1>3, <1>5, <2>3, NoAnswerMoved
<1>6. ASSUME NEW r, Decoded(r, ParseReply(b), Len(b), Shape[issued[thread[t].id][1][1]]),
             Moved(t, [thread[t] EXCEPT !.pc = "idle", !.buffer = <<>>, !.result = r])
      PROVE  Results'
  <2> DEFINE v == [thread[t] EXCEPT !.pc = "idle", !.buffer = <<>>, !.result = r]
  <2>1. v.result = r /\ v.id = x.id /\ v.clean = x.clean /\ Moved(t, v)
    <3>1. \A q : LET w == [thread[t] EXCEPT !.pc = "idle", !.buffer = <<>>, !.result = q]
                 IN w.result = q /\ w.id = x.id /\ w.clean = x.clean
      BY <1>0, CallFields
    <3> QED BY <1>6, <3>1
  <2> HIDE DEF v
  <2>2. x.clean => /\ x.id \in 1..Len(issued) /\ Ran(conns, x.id)
                   /\ Tells(r, issued[x.id])
    <3>1. Decoded(r, ParseReply(b), Len(b), Shape[issued[thread[t].id][1][1]])
      BY <1>6
    <3>2. thread[t].pc = "read" /\ Got(t, n, b)
      BY <1>1, <1>2
    <3>3. SUFFICES ASSUME thread[t].clean
                   PROVE  /\ thread[t].id \in 1..Len(issued) /\ Ran(conns, thread[t].id)
                          /\ Tells(r, issued[thread[t].id])
      OBVIOUS
    <3> HIDE DEF x, z
    <3>4. Base /\ Sync
      OBVIOUS
    <3> QED BY ONLY <3>1, <3>2, <3>3, <3>4, ReadAnswers
  <2>3. v.clean => /\ v.id \in 1..Len(issued) /\ Ran(conns, v.id)
                   /\ Tells(v.result, issued[v.id])
    BY <2>1, <2>2
  <2> QED BY <1>0, <1>1, <1>3, <1>4, <2>1, <2>3, ResultsMoved
<1> QED BY <1>2, <1>5, <1>6 DEF Got

(* Every step. *)
LEMMA NextResults == Base /\ Sync /\ Results /\ [Next]_vars => Results'
<1> SUFFICES ASSUME Base, Sync, Results, [Next]_vars PROVE Results'
  OBVIOUS
<1>1. ASSUME NEW t \in Threads, NEW tokens \in Calls[t], Begin(t, tokens) PROVE Results'
  BY <1>1, BeginResults
<1>2. ASSUME NEW t \in Threads, ClientStep(t) PROVE Results'
  BY <1>2, CallResults, ReadResults DEF ClientStep
<1>3. ASSUME NEW t \in Threads, TimesOut(t) PROVE Results'
  BY <1>3, CallResults
<1>4. ASSUME NEW c \in DOMAIN conns, ServerStep(c) \/ Leave(c) \/ Stop(c) \/ Reset(c)
      PROVE  Results'
  <2>1. c \in 1..Len(conns)
    BY TypeFacts DEF Base
  <2>2. Grown /\ UNCHANGED <<issued, thread>>
    BY <1>4, <2>1, ServerKept DEF ServerStep, SentKept, Serves
  <2>3. Len(issued') \in Nat /\ Len(issued) <= Len(issued')
    BY <2>2, TypeFacts DEF Base
  <2>4. ASSUME NEW t \in Threads PROVE Answered(t)'
    BY <2>2, <2>3, AnsweredKept DEF Results, Base
  <2> QED BY <2>4 DEF Results
<1>5. CASE UNCHANGED vars
  BY <1>5 DEF vars, Results, Answered
<1>6. Quiet => UNCHANGED vars
  BY DEF Quiet
<1> QED BY <1>1, <1>2, <1>3, <1>4, <1>5, <1>6 DEF Next

(* Nothing has been returned at the start. *)
LEMMA InitResults == Init => Results
<1> SUFFICES ASSUME Init, NEW t \in Threads PROVE Answered(t)
  BY DEF Results
<1>1. thread[t].result = [tag |-> "none"]
  BY DEF Init, NoCall
<1> QED BY <1>1, ResultTags DEF Answered

(* A call on a connection in step returns what the server answers to its    *)
(* own command, which has been executed, for any threads, faults and cuts.  *)
THEOREM ResultsAlways == Spec => []Results
<1>1. Spec => []Base
  BY BaseAlways
<1>2. Spec => []Sync
  BY SyncAlways
<1>3. Init => Results
  BY InitResults
<1>4. Base /\ Sync /\ Results /\ [Next]_vars => Results'
  BY NextResults
<1> QED BY <1>1, <1>2, <1>3, <1>4, PTL DEF Spec

-----------------------------------------------------------------------------
(* Without a fault no connection ends, none is left behind by a call that  *)
(* gave up, and no call fails.                                             *)
OpenAll(cs) == \A c \in 1..Len(cs) : cs[c].state = "open" /\ ~cs[c].lagging
NoneFailed == \A t \in Threads : thread[t].result # Upstream
Calm == faults = 0 => OpenAll(conns) /\ NoneFailed

(* A fault is counted. *)
LEMMA FaultCounts ==
  ASSUME Types, Fault \/ UNCHANGED faults, faults' = 0
  PROVE  faults = 0 /\ ~Fault /\ UNCHANGED faults
<1>1. faults \in Nat
  BY TypeFacts
<1>2. Fault => faults' = faults + 1
  BY DEF Fault
<1>3. Fault => faults' # 0
  BY ONLY <1>1, <1>2
<1> QED BY <1>3

(* One connection changes, and stays open. *)
LEMMA OpenChanged ==
  ASSUME OpenAll(conns), NEW c \in 1..Len(conns), NEW y, Changed(c, y),
         y.state = conns[c].state, y.lagging = conns[c].lagging
  PROVE  OpenAll(conns')
<1> SUFFICES ASSUME NEW k \in 1..Len(conns') PROVE conns'[k].state = "open" /\ ~conns'[k].lagging
  BY DEF OpenAll
<1>1. k \in 1..Len(conns)
  BY DEF Changed
<1>2. conns[k].state = "open" /\ ~conns[k].lagging /\ conns[c].state = "open" /\ ~conns[c].lagging
  BY <1>1 DEF OpenAll
<1>3. CASE k = c
  BY <1>2, <1>3 DEF Changed
<1>4. CASE k # c
  BY <1>1, <1>2, <1>4 DEF Changed
<1> QED BY <1>3, <1>4

(* A connection is made. *)
LEMMA OpenAdded ==
  ASSUME Types, OpenAll(conns), Added
  PROVE  OpenAll(conns')
<1> SUFFICES ASSUME NEW k \in 1..Len(conns') PROVE conns'[k].state = "open" /\ ~conns'[k].lagging
  BY DEF OpenAll
<1>1. NewConn.state = "open" /\ ~NewConn.lagging
  BY DEF NewConn
<1>2. Len(conns') = Len(conns) + 1 /\ conns'[Len(conns) + 1] = NewConn
  BY DEF Added
<1>3. Len(conns) \in Nat
  BY TypeFacts
<1>4. k \in 1..Len(conns) \/ k = Len(conns) + 1
  BY <1>2, <1>3
<1>5. CASE k \in 1..Len(conns)
  BY <1>5 DEF Added, OpenAll
<1> QED BY <1>1, <1>2, <1>4, <1>5

(* After a step of one call. *)
LEMMA CalmMoved ==
  ASSUME Calm, NEW t \in Threads, NEW z, Moved(t, z),
         faults' = 0 => faults = 0 /\ OpenAll(conns') /\ z.result # Upstream
  PROVE  Calm'
<1> SUFFICES ASSUME faults' = 0 PROVE OpenAll(conns') /\ NoneFailed'
  BY DEF Calm
<1>1. OpenAll(conns') /\ z.result # Upstream /\ NoneFailed
  BY DEF Calm
<1>2. ASSUME NEW u \in Threads PROVE thread'[u].result # Upstream
  BY <1>1 DEF Moved, NoneFailed
<1> QED BY <1>1, <1>2 DEF NoneFailed

(* After a step that no call takes. *)
LEMMA CalmServed ==
  ASSUME Calm, UNCHANGED thread, faults' = 0 => faults = 0 /\ OpenAll(conns')
  PROVE  Calm'
BY DEF Calm, NoneFailed

(* What no call has returned, and what a call in step returns, is no failure. *)
LEMMA NotUpstream ==
  /\ [tag |-> "none"] # Upstream
  /\ \A r, d : Tells(r, d) => r # Upstream
<1>1. Upstream.tag = "upstream" /\ [tag |-> "none"].tag = "none"
  BY ResultTags
<1>2. ASSUME NEW r, NEW d, Tells(r, d) PROVE r.tag \in {"value", "conflict"}
  BY <1>2, ResultTags DEF Tells
<1> QED BY <1>1, <1>2

(* A call begins. *)
LEMMA BeginCalm ==
  ASSUME Base, Calm, NEW t \in Threads, NEW tokens \in Calls[t], Begin(t, tokens)
  PROVE  Calm'
<1> DEFINE z == [NoCall EXCEPT !.pc = "lock", !.id = Len(issued) + 1]
<1>1. Moved(t, z) /\ UNCHANGED <<conns, faults>>
  BY BeginFacts DEF Base
<1>2. z.result # Upstream
  BY NewCallFields, NotUpstream
<1> HIDE DEF z
<1> QED BY <1>1, <1>2, CalmMoved DEF Calm

(* The lock is taken. *)
LEMMA EnterCalm ==
  ASSUME Base, Calm, NEW t \in Threads, Enter(t)
  PROVE  Calm'
<1> DEFINE entered == [thread[t] EXCEPT !.pc = "send"]
           ended == [thread[t] EXCEPT !.pc = "idle", !.buffer = <<>>, !.result = Upstream]
<1>0. Types /\ Control
  BY DEF Base
<1>1. \/ Moved(t, entered) /\ (UNCHANGED conns \/ Added) /\ UNCHANGED faults
      \/ Moved(t, ended) /\ Fault
  BY <1>0, EnterFacts
<1>2. entered.result = thread[t].result
  BY <1>0, CallFields
<1> HIDE DEF entered, ended
<1>3. CASE Moved(t, entered) /\ (UNCHANGED conns \/ Added) /\ UNCHANGED faults
  <2>1. faults' = 0 => faults = 0 /\ OpenAll(conns') /\ entered.result # Upstream
    BY <1>0, <1>2, <1>3, OpenAdded DEF Calm, NoneFailed
  <2> QED BY <1>3, <2>1, CalmMoved
<1>4. CASE Moved(t, ended) /\ Fault
  <2>1. faults' # 0
    BY <1>0, <1>4, FaultCounts
  <2> QED BY <1>4, <2>1, CalmMoved
<1> QED BY <1>1, <1>3, <1>4

(* The command is sent. *)
LEMMA SendCalm ==
  ASSUME Base, Calm, NEW t \in Threads, Send(t)
  PROVE  Calm'
<1> DEFINE e == EncodeCommand(issued[thread[t].id])
           k == ~conns[current].lagging
           z == [thread[t] EXCEPT !.pc = "read", !.clean = k]
           y == Commanded(conns[current], thread[t].id, e)
<1>0. Types /\ Control
  BY DEF Base
<1>1. /\ thread[t].pc = "send" /\ e \in Seq(Byte) /\ Changed(current, y) /\ Moved(t, z)
      /\ UNCHANGED faults
  BY <1>0, SendFacts
<1>2. current \in 1..Len(conns) /\ conns[current] \in Conn /\ thread[t].id \in Nat
  BY <1>0, <1>1, HolderFacts
<1>3. y.state = conns[current].state /\ y.lagging = conns[current].lagging
  <2> HIDE DEF e
  <2> QED BY <1>1, <1>2, CommandedFacts
<1>4. z.result = thread[t].result
  <2> HIDE DEF k
  <2> QED BY <1>0, CallFields
<1> HIDE DEF z, y
<1>5. faults' = 0 => faults = 0 /\ OpenAll(conns') /\ z.result # Upstream
  BY <1>1, <1>2, <1>3, <1>4, OpenChanged DEF Calm, NoneFailed
<1> QED BY <1>1, <1>5, CalmMoved

(* No connection is broken without a fault. *)
LEMMA BrokenCalm ==
  ASSUME Base, Calm, NEW t \in Threads, Broken(t) \/ TimesOut(t)
  PROVE  Calm'
<1>0. Types /\ Control
  BY DEF Base
<1>1. /\ thread[t].pc \in {"send", "read"}
      /\ Fault \/ (UNCHANGED faults /\ conns[current].state = "reset")
      /\ \E z : Moved(t, z)
  BY <1>0, BrokenFacts DEF Retried, GaveUp, WasRefused
<1>2. current \in 1..Len(conns)
  BY <1>0, <1>1, HolderFacts
<1>3. faults' # 0
  BY <1>0, <1>1, <1>2, FaultCounts DEF Calm, OpenAll
<1>4. PICK z : Moved(t, z)
  BY <1>1
<1> QED BY <1>3, <1>4, CalmMoved

(* The server closes no connection without a fault. *)
LEMMA ReadEofCalm ==
  ASSUME Base, Calm, NEW t \in Threads, ReadEof(t)
  PROVE  Calm'
<1>0. Types /\ Control
  BY DEF Base
<1>1. thread[t].pc = "read" /\ conns[current].state = "eof" /\ UNCHANGED faults
  BY <1>0, ReadEofFacts
<1>2. current \in 1..Len(conns)
  BY <1>0, <1>1, HolderFacts
<1>3. faults # 0
  BY <1>1, <1>2 DEF Calm, OpenAll
<1> QED BY <1>1, <1>3 DEF Calm

(* recv(): without a fault every call is in step, and reads its own answer. *)
LEMMA ReadCalm ==
  ASSUME Base, Sync, Calm, NEW t \in Threads, Read(t)
  PROVE  Calm'
<1>0. Types /\ Control
  BY DEF Base
<1>1. /\ thread[t].pc = "read" /\ \E n, b : Got(t, n, b)
      /\ UNCHANGED faults
  BY <1>0, ReadFacts
<1>2. PICK n, b : Got(t, n, b)
  BY <1>1
<1>3. current \in 1..Len(conns) /\ conns[current] \in Conn
  BY <1>0, <1>1, HolderFacts
<1>4. faults = 0 => OpenAll(conns')
  <2> DEFINE y == Fetched(conns[current], n)
  <2>1. n \in 1..Len(conns[current].s2c) /\ Changed(current, y)
    BY <1>2 DEF Got
  <2>2. y.state = conns[current].state /\ y.lagging = conns[current].lagging
    BY <1>3, <2>1, FetchedFacts
  <2> HIDE DEF y
  <2> QED BY <1>3, <2>1, <2>2, OpenChanged DEF Calm
<1>5. CASE Moved(t, [thread[t] EXCEPT !.buffer = b])
  <2> DEFINE z == [thread[t] EXCEPT !.buffer = b]
  <2>1. z.result = thread[t].result
    BY <1>0, CallFields
  <2>2. Moved(t, z)
    BY <1>5
  <2> HIDE DEF z
  <2>3. faults' = 0 => faults = 0 /\ OpenAll(conns') /\ z.result # Upstream
    BY <1>1, <1>4, <2>1 DEF Calm, NoneFailed
  <2> QED BY <2>2, <2>3, CalmMoved
<1>6. ASSUME NEW r, Decoded(r, ParseReply(b), Len(b), Shape[issued[thread[t].id][1][1]]),
             Moved(t, [thread[t] EXCEPT !.pc = "idle", !.buffer = <<>>, !.result = r])
      PROVE  Calm'
  <2> DEFINE z == [thread[t] EXCEPT !.pc = "idle", !.buffer = <<>>, !.result = r]
  <2>1. z.result = r
    BY <1>0, CallFields
  <2>2. Moved(t, z)
    BY <1>6
  <2> HIDE DEF z
  <2>3. faults = 0 => r # Upstream
    <3> SUFFICES ASSUME faults = 0 PROVE r # Upstream
      OBVIOUS
    <3>1. thread[t].clean
      BY <1>1, <1>3 DEF Calm, OpenAll, Sync, InStep
    <3>2. Decoded(r, ParseReply(b), Len(b), Shape[issued[thread[t].id][1][1]])
      BY <1>6
    <3>3. thread[t].pc = "read" /\ Got(t, n, b)
      BY <1>1, <1>2
    <3>4. Base /\ Sync
      OBVIOUS
    <3>5. Tells(r, issued[thread[t].id])
      BY ONLY <3>1, <3>2, <3>3, <3>4, ReadAnswers
    <3> QED BY <3>5, NotUpstream
  <2>4. faults' = 0 => faults = 0 /\ OpenAll(conns') /\ z.result # Upstream
    BY <1>1, <1>4, <2>1, <2>3
  <2> QED BY <2>2, <2>4, CalmMoved
<1> QED BY <1>2, <1>5, <1>6 DEF Got

(* handle_client closes no connection that is open, but for a fault. *)
LEMMA ServerCalm ==
  ASSUME Base, Calm, NEW c \in 1..Len(conns),
         Recv(c) \/ Handle(c) \/ Leave(c) \/ Stop(c) \/ Reset(c)
  PROVE  Calm'
<1>0. Types
  BY DEF Base
<1> DEFINE x == conns[c]
<1>1. x \in Conn
  BY <1>0, ConnOf
<1>2. UNCHANGED thread
  BY ServerKept DEF Serves
<1>3. CASE Recv(c)
  <2>1. PICK n \in 1..Len(x.c2s) : Changed(c, Received(x, n))
    BY <1>0, <1>3, RecvFacts
  <2> DEFINE y == Received(x, n)
  <2>2. Changed(c, y) /\ y.state = x.state /\ y.lagging = x.lagging
    BY <1>1, <2>1, ReceivedFacts
  <2>3. UNCHANGED faults
    BY <1>0, <1>3, RecvFacts
  <2> HIDE DEF y
  <2>4. faults' = 0 => faults = 0 /\ OpenAll(conns')
    BY <2>2, <2>3, OpenChanged DEF Calm
  <2> QED BY <1>2, <2>4, CalmServed
<1>4. CASE Handle(c)
  <2> DEFINE f == ParseFrame(x.buffer)
  <2>1. ~x.garbled /\ f.tag = "ok" => f.value \in DOMAIN Answer
    BY FrameKnown
  <2>2. /\ \/ f.tag = "ok" /\ f.next \in 1..(Len(x.buffer) + 1) /\ Changed(c, Done(x, f))
           \/ f.tag = "malformed" /\ Changed(c, Failed(x))
        /\ UNCHANGED faults
    BY <1>0, <1>4, <2>1, HandleFacts
  <2> HIDE DEF f, x
  <2>3. PICK y : Changed(c, y) /\ y.state = x.state /\ y.lagging = x.lagging
    <3>1. CASE f.tag = "ok" /\ f.next \in 1..(Len(x.buffer) + 1) /\ Changed(c, Done(x, f))
      BY <1>1, <2>1, <3>1, DoneFacts
    <3>2. CASE Changed(c, Failed(x))
      BY <1>1, <3>2, FailedFacts
    <3> QED BY <2>2, <3>1, <3>2
  <2>4. faults' = 0 => faults = 0 /\ OpenAll(conns')
    BY <2>2, <2>3, OpenChanged DEF Calm, x
  <2> QED BY <1>2, <2>4, CalmServed
<1>5. CASE Leave(c) \/ Stop(c) \/ Reset(c)
  <2>1. Fault \/ (UNCHANGED faults /\ x.state = "fin")
    BY <1>0, <1>5, EndingSteps
  <2>2. faults' # 0
    BY <1>0, <2>1, FaultCounts DEF Calm, OpenAll
  <2> QED BY <1>2, <2>2, CalmServed
<1> QED BY <1>3, <1>4, <1>5

(* Every step. *)
LEMMA NextCalm == Base /\ Sync /\ Calm /\ [Next]_vars => Calm'
<1> SUFFICES ASSUME Base, Sync, Calm, [Next]_vars PROVE Calm'
  OBVIOUS
<1>1. ASSUME NEW t \in Threads, NEW tokens \in Calls[t], Begin(t, tokens) PROVE Calm'
  BY <1>1, BeginCalm
<1>2. ASSUME NEW t \in Threads, ClientStep(t) PROVE Calm'
  BY <1>2, EnterCalm, SendCalm, BrokenCalm, ReadCalm, ReadEofCalm DEF ClientStep
<1>3. ASSUME NEW t \in Threads, TimesOut(t) PROVE Calm'
  BY <1>3, BrokenCalm
<1>4. ASSUME NEW c \in DOMAIN conns, ServerStep(c) \/ Leave(c) \/ Stop(c) \/ Reset(c)
      PROVE  Calm'
  <2>1. c \in 1..Len(conns)
    BY TypeFacts DEF Base
  <2> QED BY <1>4, <2>1, ServerCalm DEF ServerStep
<1>5. CASE UNCHANGED vars
  BY <1>5 DEF vars, Calm, OpenAll, NoneFailed
<1>6. Quiet => UNCHANGED vars
  BY DEF Quiet
<1> QED BY <1>1, <1>2, <1>3, <1>4, <1>5, <1>6 DEF Next

(* At the start no connection has ended and no call has failed. *)
LEMMA InitCalm == Init => Calm
<1> SUFFICES ASSUME Init PROVE OpenAll(conns) /\ NoneFailed
  BY DEF Calm
<1>1. NoneFailed
  <2>1. ASSUME NEW t \in Threads PROVE thread[t].result = [tag |-> "none"]
    BY DEF Init, NoCall
  <2> QED BY <2>1, NotUpstream DEF NoneFailed
<1>2. ASSUME conns = <<>> PROVE OpenAll(conns)
  BY <1>2 DEF OpenAll
<1>3. ASSUME NEW s \in Streams, conns = <<Piped(s)>> PROVE OpenAll(conns)
  <2>1. Piped(s).state = "open" /\ ~Piped(s).lagging
    BY PipedFacts
  <2>2. \A x : Len(<<x>>) = 1 /\ <<x>>[1] = x
    OBVIOUS
  <2>3. Len(conns) = 1 /\ conns[1] = Piped(s)
    BY <1>3, <2>2
  <2>4. \A k \in 1..Len(conns) : k = 1
    BY <2>3
  <2> QED BY <2>1, <2>3, <2>4 DEF OpenAll
<1>4. conns = <<>> \/ \E s \in Streams : conns = <<Piped(s)>>
  BY DEF Init, Piped
<1> QED BY <1>1, <1>2, <1>3, <1>4

(* Without a fault no call of execute() fails: for any commands, answers   *)
(* and cuts the client accepts every reply that the server encodes.        *)
THEOREM NoFalseAlarmAlways == Spec => []NoFalseAlarm
<1>1. Spec => []Base
  BY BaseAlways
<1>2. Spec => []Sync
  BY SyncAlways
<1>3. Init => Calm
  BY InitCalm
<1>4. Base /\ Sync /\ Calm /\ [Next]_vars => Calm'
  BY NextCalm
<1>5. Calm => NoFalseAlarm
  BY DEF Calm, NoneFailed, NoFalseAlarm
<1> QED BY <1>1, <1>2, <1>3, <1>4, <1>5, PTL DEF Spec

-----------------------------------------------------------------------------
(* On which connections the command of a call was sent *)

(* The command of call i was sent on no other connections than those of S; *)
(* on one connection no command was sent for the same call twice.          *)
Carry(cs, i, S) ==
  \A c \in 1..Len(cs) : \A k \in 1..Len(cs[c].sent) : cs[c].sent[k] = i => c \in S
Once(cs) ==
  \A c \in 1..Len(cs) : \A k, l \in 1..Len(cs[c].sent) : cs[c].sent[k] = cs[c].sent[l] => k = l
Twice(cs) == \A i : \E a, b : Carry(cs, i, {a, b})

(* Where the command of the call z has been sent, with cur in use. *)
Tried(cs, cur, z) ==
  /\ (z.pc = "lock" \/ (z.pc = "send" /\ z.attempt = 1)) => Carry(cs, z.id, {})
  /\ (z.pc = "read" /\ z.attempt = 1) => Carry(cs, z.id, {cur})
  /\ (z.pc = "send" /\ z.attempt = 2) => \E a : a # cur /\ Carry(cs, z.id, {a})

(* Each call has a command of its own, which it has sent on one connection *)
(* for each of its attempts.                                               *)
Distinct ==
  \A t, u \in Threads :
    (t # u /\ thread[t].pc # "idle" /\ thread[u].pc # "idle") => thread[t].id # thread[u].id
Carries ==
  /\ Distinct
  /\ Once(conns) /\ Twice(conns)
  /\ \A t \in Threads : Tried(conns, current, thread[t])

(* When nothing is sent, no connection gets a command. *)
LEMMA CarryKept ==
  ASSUME SentKept
  PROVE  /\ \A i, S : Carry(conns, i, S) => Carry(conns', i, S)
         /\ Once(conns) => Once(conns')
         /\ Twice(conns) => Twice(conns')
<1>1. \A c \in 1..Len(conns') : \A k \in 1..Len(conns'[c].sent) :
        c \in 1..Len(conns) /\ conns'[c].sent = conns[c].sent
  <2>1. Len(<<>>) = 0
    OBVIOUS
  <2>2. 1..0 = {}
    OBVIOUS
  <2> QED BY <2>1, <2>2 DEF SentKept
<1>2. ASSUME NEW i, NEW S, Carry(conns, i, S) PROVE Carry(conns', i, S)
  BY <1>1, <1>2 DEF Carry
<1>3. ASSUME Once(conns) PROVE Once(conns')
  BY <1>1, <1>3 DEF Once
<1>4. ASSUME Twice(conns) PROVE Twice(conns')
  BY <1>2, <1>4 DEF Twice
<1> QED BY <1>2, <1>3, <1>4

(* The same for what a call has tried, as long as it keeps its connection. *)
LEMMA TriedKept ==
  ASSUME SentKept, NEW z, Tried(conns, current, z),
         current' = current \/ z.pc \notin {"send", "read"}
  PROVE  Tried(conns', current', z)
BY CarryKept DEF Tried

(* No command has been sent for a call that is yet to be made. *)
LEMMA CarryNew ==
  ASSUME Base, NEW i, i \notin 1..Len(issued)
  PROVE  Carry(conns, i, {})
BY DEF Base, Streams1, Stream, Carry

(* After a step of a call that sends nothing. *)
LEMMA CarriesMoved ==
  ASSUME Base, Carries, SentKept, NEW t \in Threads, NEW z, Moved(t, z),
         current' = current \/ thread[t].pc \in {"send", "read"} \/ holder = None,
         z.pc # "idle" => /\ \A u \in Threads : (u # t /\ thread[u].pc # "idle") =>
                                                  z.id # thread[u].id
                          /\ Tried(conns', current', z)
  PROVE  Carries'
<1>0. Types /\ Control
  BY DEF Base
<1>1. Once(conns') /\ Twice(conns')
  BY CarryKept DEF Carries
<1>2. thread'[t] = z /\ \A u \in Threads : u # t => thread'[u] = thread[u]
  BY DEF Moved
<1>3. Distinct'
  BY <1>2 DEF Carries, Distinct
<1>4. ASSUME NEW u \in Threads PROVE Tried(conns', current', thread'[u])
  <2>1. CASE u = t
    BY <1>2, <2>1 DEF Tried
  <2>2. CASE u # t
    <3>1. current' = current \/ thread[u].pc \notin {"send", "read"}
      BY <1>0, <2>2, NoneAssumption DEF Control, CallOK
    <3>2. Tried(conns, current, thread[u])
      BY DEF Carries
    <3> QED BY <1>2, <2>2, <3>1, <3>2, TriedKept
  <2> QED BY <2>1, <2>2
<1> QED BY <1>1, <1>3, <1>4 DEF Carries

(* The same, when the call goes on with its command. *)
LEMMA CarriesOwn ==
  ASSUME Base, Carries, SentKept, NEW t \in Threads, NEW z, Moved(t, z),
         thread[t].pc # "idle", z.id = thread[t].id,
         thread[t].pc \in {"send", "read"} \/ holder = None,
         z.pc # "idle" => Tried(conns', current', z)
  PROVE  Carries'
<1>1. \A u \in Threads : (u # t /\ thread[u].pc # "idle") => z.id # thread[u].id
  BY DEF Carries, Distinct
<1> QED BY <1>1, CarriesMoved

(* At the start nothing, or one command for each call of a raw client, has *)
(* been sent.                                                              *)
LEMMA InitCarries == Init => Carries
<1> SUFFICES ASSUME Init PROVE Carries
  OBVIOUS
<1>1. \A t \in Threads : thread[t] = NoCall
  BY DEF Init
<1>2. Distinct /\ \A t \in Threads : Tried(conns, current, thread[t])
  BY <1>1 DEF Distinct, Tried, NoCall
<1>3. CASE conns = <<>>
  <2>1. 1..Len(conns) = {}
    BY <1>3
  <2> QED BY <1>2, <2>1 DEF Carries, Once, Twice, Carry
<1>4. ASSUME NEW s \in Streams, conns = <<Piped(s)>> PROVE Carries
  <2>1. \A x : Len(<<x>>) = 1 /\ <<x>>[1] = x
    OBVIOUS
  <2>2. Len(conns) = 1 /\ conns[1] = Piped(s)
    BY <1>4, <2>1
  <2>3. \A c \in 1..Len(conns) : c = 1
    BY <2>2
  <2>4. Piped(s).sent = [i \in 1..Len(s.commands) |-> i] /\ Len(Piped(s).sent) = Len(s.commands)
    BY PipedFacts
  <2>5. Once(conns)
    BY <2>2, <2>3, <2>4 DEF Once
  <2>6. \A i : Carry(conns, i, {1, 1})
    BY <2>3 DEF Carry
  <2> QED BY <1>2, <2>5, <2>6 DEF Carries, Twice
<1>5. conns = <<>> \/ \E s \in Streams : conns = <<Piped(s)>>
  BY DEF Init, Piped
<1> QED BY <1>3, <1>4, <1>5

(* A call begins: no command has been sent for it. *)
LEMMA BeginCarries ==
  ASSUME Base, Carries, NEW t \in Threads, NEW tokens \in Calls[t], Begin(t, tokens)
  PROVE  Carries'
<1> DEFINE i == Len(issued) + 1
           z == [NoCall EXCEPT !.pc = "lock", !.id = i]
<1>0. Types /\ Control
  BY DEF Base
<1>1. Moved(t, z) /\ UNCHANGED <<conns, current>>
  BY <1>0, BeginFacts
<1>2. z.pc = "lock" /\ z.id = i
  BY NewCallFields
<1>3. Len(issued) \in Nat /\ i \notin 0..Len(issued)
  BY <1>0, TypeFacts
<1>4. SentKept
  BY EnterKept
<1>5. \A u \in Threads : thread[u].id # i
  BY <1>0, <1>3 DEF Control, CallOK
<1>6. Carry(conns', i, {})
  <2>1. i \notin 1..Len(issued)
    BY <1>3
  <2> QED BY <1>4, <2>1, CarryNew, CarryKept
<1> HIDE DEF i, z
<1>7. Tried(conns', current', z)
  BY <1>2, <1>6 DEF Tried
<1> QED BY <1>1, <1>2, <1>4, <1>5, <1>7, CarriesMoved

(* The lock is taken: still nothing has been sent. *)
LEMMA EnterCarries ==
  ASSUME Base, Carries, NEW t \in Threads, Enter(t)
  PROVE  Carries'
<1> DEFINE entered == [thread[t] EXCEPT !.pc = "send"]
           ended == [thread[t] EXCEPT !.pc = "idle", !.buffer = <<>>, !.result = Upstream]
<1>0. Types /\ Control
  BY DEF Base
<1>1. thread[t].pc = "lock" /\ holder = None /\ (Moved(t, entered) \/ Moved(t, ended))
  BY <1>0, EnterFacts
<1>2. thread[t].attempt = 1
  BY <1>0, <1>1 DEF Control, CallOK
<1>3. /\ entered.pc = "send" /\ entered.id = thread[t].id /\ entered.attempt = 1
      /\ ended.pc = "idle" /\ ended.id = thread[t].id
  BY <1>0, <1>2, CallFields
<1>4. SentKept
  BY EnterKept
<1> HIDE DEF entered, ended
<1>5. Tried(conns', current', entered)
  <2>1. Carry(conns, thread[t].id, {})
    BY <1>1 DEF Carries, Tried
  <2> QED BY <1>3, <1>4, <2>1, CarryKept DEF Tried
<1> QED BY <1>1, <1>3, <1>4, <1>5, CarriesOwn

(* An OSError: what the call has sent was sent on the old connection. *)
LEMMA BrokenCarries ==
  ASSUME Base, Carries, NEW t \in Threads, Broken(t) \/ TimesOut(t)
  PROVE  Carries'
<1> DEFINE retried == [thread[t] EXCEPT !.pc = "send", !.attempt = 2, !.buffer = <<>>]
           ended == [thread[t] EXCEPT !.pc = "idle", !.buffer = <<>>, !.result = Upstream]
<1>0. Types /\ Control
  BY DEF Base
<1>1. /\ thread[t].pc \in {"send", "read"}
      /\ \/ thread[t].attempt = 1 /\ current' = Len(conns) + 1 /\ Moved(t, retried)
         \/ Moved(t, ended)
  BY <1>0, BrokenFacts DEF Retried, GaveUp, WasRefused
<1>2. /\ retried.pc = "send" /\ retried.id = thread[t].id /\ retried.attempt = 2
      /\ ended.pc = "idle" /\ ended.id = thread[t].id
  BY <1>0, CallFields
<1>3. SentKept
  BY CallKept
<1> HIDE DEF retried, ended
<1>4. ASSUME thread[t].attempt = 1, current' = Len(conns) + 1
      PROVE  Tried(conns', current', retried)
  <2>1. Carry(conns, thread[t].id, {current})
    BY <1>1, <1>4 DEF Carries, Tried, Carry
  <2>2. current # current'
    <3>1. current \in 1..Len(conns) /\ Len(conns) \in Nat
      BY <1>0, <1>1, HolderFacts, TypeFacts
    <3> QED BY <1>4, <3>1
  <2>3. Carry(conns', retried.id, {current})
    BY <1>2, <1>3, <2>1, CarryKept
  <2>4. \E a : a # current' /\ Carry(conns', retried.id, {a})
    BY <2>2, <2>3
  <2>5. retried.pc = "send" /\ retried.attempt = 2
    BY <1>2
  <2> QED BY ONLY <2>4, <2>5 DEF Tried
<1> QED BY <1>1, <1>2, <1>3, <1>4, CarriesOwn

(* recv() of the client sends nothing. *)
LEMMA ReadCarries ==
  ASSUME Base, Carries, NEW t \in Threads, Read(t) \/ ReadEof(t)
  PROVE  Carries'
<1>0. Types /\ Control
  BY DEF Base
<1>1. SentKept
  BY CallKept
<1>2. CASE ReadEof(t)
  <2> DEFINE ended == [thread[t] EXCEPT !.pc = "idle", !.buffer = <<>>, !.result = Upstream]
  <2>1. thread[t].pc = "read" /\ Moved(t, ended)
    BY <1>0, <1>2, ReadEofFacts
  <2>2. ended.pc = "idle" /\ ended.id = thread[t].id
    BY <1>0, CallFields
  <2> HIDE DEF ended
  <2> QED BY <1>1, <2>1, <2>2, CarriesOwn
<1>3. CASE Read(t)
  <2>1. thread[t].pc = "read" /\ UNCHANGED current /\ \E n, b : Got(t, n, b)
    BY <1>0, <1>3, ReadFacts
  <2>2. PICK n, b : Got(t, n, b)
    BY <2>1
  <2>3. CASE Moved(t, [thread[t] EXCEPT !.buffer = b])
    <3> DEFINE z == [thread[t] EXCEPT !.buffer = b]
    <3>1. z.pc = "read" /\ z.id = thread[t].id /\ z.attempt = thread[t].attempt
      BY <1>0, <2>1, CallFields
    <3>2. Moved(t, z)
      BY <2>3
    <3> HIDE DEF z
    <3>3. Tried(conns, current, z)
      BY <2>1, <3>1 DEF Carries, Tried
    <3>4. Tried(conns', current', z)
      BY <1>1, <2>1, <3>3, TriedKept
    <3> QED BY <1>1, <2>1, <3>1, <3>2, <3>4, CarriesOwn
  <2>4. ASSUME NEW r, Moved(t, [thread[t] EXCEPT !.pc = "idle", !.buffer = <<>>, !.result = r])
        PROVE  Carries'
    <3> DEFINE z == [thread[t] EXCEPT !.pc = "idle", !.buffer = <<>>, !.result = r]
    <3>1. z.pc = "idle" /\ z.id = thread[t].id
      BY <1>0, CallFields
    <3>2. Moved(t, z)
      BY <2>4
    <3> HIDE DEF z
    <3> QED BY <1>1, <2>1, <3>1, <3>2, CarriesOwn
  <2> QED BY <2>2, <2>3, <2>4 DEF Got
<1> QED BY <1>2, <1>3

(* What sendall() adds to the connections. *)
LEMMA SendAdds ==
  ASSUME Base, NEW t \in Threads, Send(t)
  PROVE  /\ thread[t].pc = "send" /\ current \in 1..Len(conns)
         /\ Len(conns') = Len(conns) /\ current' = current
         /\ conns[current].sent \in Seq(Nat) /\ thread[t].id \in Nat
         /\ conns'[current].sent = Append(conns[current].sent, thread[t].id)
         /\ \A c \in 1..Len(conns) : c # current => conns'[c] = conns[c]
         /\ \E z : /\ Moved(t, z) /\ z.pc = "read" /\ z.id = thread[t].id
                   /\ z.attempt = thread[t].attempt
<1> DEFINE x == conns[current]
           id == thread[t].id
           e == EncodeCommand(issued[id])
           y == Commanded(x, id, e)
           k == ~x.lagging
           z == [thread[t] EXCEPT !.pc = "read", !.clean = k]
<1>0. Types /\ Control
  BY DEF Base
<1>1. /\ thread[t].pc = "send" /\ Changed(current, y) /\ e \in Seq(Byte) /\ Moved(t, z)
      /\ current' = current
  BY <1>0, SendFacts
<1>2. current \in 1..Len(conns) /\ x \in Conn /\ id \in Nat
  BY <1>0, <1>1, HolderFacts
<1>3. y.sent = Append(x.sent, id)
  <2> HIDE DEF x, id, e
  <2> QED BY <1>1, <1>2, CommandedFacts
<1>5. x.sent \in Seq(Nat)
  BY <1>0, <1>2, ConnLengths
<1>4. z.pc = "read" /\ z.id = id /\ z.attempt = thread[t].attempt
  <2> HIDE DEF k
  <2> QED BY <1>0, CallFields
<1> HIDE DEF y, z
<1> QED BY <1>1, <1>2, <1>3, <1>4, <1>5 DEF Changed

(* sendall(): the connection gets a command that it has not had before. *)
LEMMA SendCarries ==
  ASSUME Base, Carries, NEW t \in Threads, Send(t)
  PROVE  Carries'
<1> DEFINE id == thread[t].id
           s == conns[current].sent
           sn == conns'[current].sent
<1>0. Types /\ Control
  BY DEF Base
<1>1. /\ thread[t].pc = "send" /\ current \in 1..Len(conns)
      /\ Len(conns') = Len(conns) /\ current' = current
      /\ s \in Seq(Nat) /\ id \in Nat /\ sn = Append(s, id)
      /\ \A c \in 1..Len(conns) : c # current => conns'[c] = conns[c]
  BY SendAdds
<1>2. PICK z : Moved(t, z) /\ z.pc = "read" /\ z.id = id /\ z.attempt = thread[t].attempt
  BY SendAdds
<1>3. /\ Len(sn) = Len(s) + 1 /\ sn[Len(s) + 1] = id /\ Len(s) \in Nat
      /\ \A k \in 1..Len(s) : sn[k] = s[k]
      /\ \A k \in 1..Len(sn) : k \in 1..Len(s) \/ k = Len(s) + 1
  <2> HIDE DEF id, s, sn
  <2> QED BY <1>1
<1>4. ASSUME NEW i, NEW S, Carry(conns, i, S)
      PROVE  /\ i # id => Carry(conns', i, S)
             /\ current \in S => Carry(conns', i, S)
  <2>1. ASSUME NEW c \in 1..Len(conns'), NEW k \in 1..Len(conns'[c].sent),
               conns'[c].sent[k] = i, i # id \/ current \in S
        PROVE  c \in S
    <3>1. CASE c # current
      BY <1>1, <1>4, <2>1, <3>1 DEF Carry
    <3>2. CASE c = current /\ k \in 1..Len(s)
      BY <1>1, <1>3, <1>4, <2>1, <3>2 DEF Carry
    <3>3. CASE c = current /\ k = Len(s) + 1
      BY <1>3, <2>1, <3>3
    <3> QED BY <1>3, <3>1, <3>2, <3>3
  <2> QED BY <2>1 DEF Carry
<1>5. thread[t].attempt \in {1, 2} /\ Tried(conns, current, thread[t])
  BY <1>0, <1>1, HolderFacts DEF Carries
<1>6. PICK a : a # current /\ Carry(conns, id, {a})
  <2>1. CASE thread[t].attempt = 1
    <3>1. Carry(conns, id, {})
      BY <1>1, <1>5, <2>1 DEF Tried
    <3>2. Carry(conns, id, {0}) /\ 0 # current
      BY <1>1, <3>1 DEF Carry
    <3> QED BY <3>2
  <2>2. CASE thread[t].attempt = 2
    BY <1>1, <1>5, <2>2 DEF Tried
  <2> QED BY <1>5, <2>1, <2>2
<1>7. Once(conns')
  <2>1. \A k \in 1..Len(s) : s[k] # id
    BY <1>1, <1>6 DEF Carry
  <2>2. \A k, l \in 1..Len(s) : s[k] = s[l] => k = l
    BY <1>1 DEF Carries, Once
  <2>3. \A k, l \in 1..Len(sn) : sn[k] = sn[l] => k = l
    <3> HIDE DEF s, sn, id
    <3> QED BY <1>3, <2>1, <2>2
  <2>4. ASSUME NEW c \in 1..Len(conns')
        PROVE  \A k, l \in 1..Len(conns'[c].sent) : conns'[c].sent[k] = conns'[c].sent[l] => k = l
    <3>1. CASE c = current
      BY <2>3, <3>1
    <3>2. CASE c # current
      BY <1>1, <3>2 DEF Carries, Once
    <3> QED BY <3>1, <3>2
  <2> QED BY <2>4 DEF Once
<1>8. Twice(conns')
  <2>1. ASSUME NEW i, i # id PROVE \E p, q : Carry(conns', i, {p, q})
    BY <1>4, <2>1 DEF Carries, Twice
  <2>2. Carry(conns, id, {a, current})
    BY <1>6 DEF Carry
  <2>3. Carry(conns', id, {a, current})
    BY <1>4, <2>2
  <2> HIDE DEF id
  <2>4. ASSUME NEW i PROVE \E p, q : Carry(conns', i, {p, q})
    <3>1. CASE i = id
      BY <2>3, <3>1
    <3> QED BY <2>1, <3>1
  <2> QED BY <2>4 DEF Twice
<1>9. Distinct'
  BY <1>1, <1>2 DEF Carries, Distinct, Moved
<1>10. ASSUME NEW u \in Threads PROVE Tried(conns', current', thread'[u])
  <2>1. CASE u = t
    <3>1. ASSUME thread[t].attempt = 1 PROVE Carry(conns', id, {current})
      <4>1. Carry(conns, id, {})
        BY <1>1, <1>5, <3>1 DEF Tried
      <4>2. Carry(conns, id, {current})
        BY <4>1 DEF Carry
      <4> QED BY <1>4, <4>2
    <3>2. thread'[u] = z
      BY <1>2, <2>1 DEF Moved
    <3> HIDE DEF id
    <3> QED BY <1>1, <1>2, <3>1, <3>2 DEF Tried
  <2>2. CASE u # t
    <3>1. thread'[u] = thread[u] /\ thread[u].pc \notin {"send", "read"}
      BY <1>0, <1>1, <1>2, <2>2, HolderFacts DEF Moved
    <3>2. thread[u].pc = "lock" => thread[u].id # id /\ Carry(conns, thread[u].id, {})
      BY <1>1, <2>2 DEF Carries, Distinct, Tried
    <3>3. thread[u].pc = "lock" => Carry(conns', thread[u].id, {})
      BY <1>4, <3>2
    <3> QED BY <3>1, <3>3 DEF Tried
  <2> QED BY <2>1, <2>2
<1> QED BY <1>7, <1>8, <1>9, <1>10 DEF Carries

(* A step that no call takes. *)
LEMMA CarriesServed ==
  ASSUME Carries, SentKept, UNCHANGED <<thread, current>>
  PROVE  Carries'
<1>1. Once(conns') /\ Twice(conns')
  BY CarryKept DEF Carries
<1>2. ASSUME NEW t \in Threads PROVE Tried(conns', current', thread'[t])
  BY TriedKept DEF Carries
<1> QED BY <1>1, <1>2 DEF Carries, Distinct

(* Every step. *)
LEMMA NextCarries == Base /\ Carries /\ [Next]_vars => Carries'
<1> SUFFICES ASSUME Base, Carries, [Next]_vars PROVE Carries'
  OBVIOUS
<1>1. ASSUME NEW t \in Threads, NEW tokens \in Calls[t], Begin(t, tokens) PROVE Carries'
  BY <1>1, BeginCarries
<1>2. ASSUME NEW t \in Threads, ClientStep(t) PROVE Carries'
  BY <1>2, EnterCarries, SendCarries, BrokenCarries, ReadCarries DEF ClientStep
<1>3. ASSUME NEW t \in Threads, TimesOut(t) PROVE Carries'
  BY <1>3, BrokenCarries
<1>4. ASSUME NEW c \in DOMAIN conns, ServerStep(c) \/ Leave(c) \/ Stop(c) \/ Reset(c)
      PROVE  Carries'
  <2>1. c \in 1..Len(conns)
    BY TypeFacts DEF Base
  <2>2. SentKept /\ UNCHANGED <<thread, current>>
    BY <1>4, <2>1, ServerKept DEF ServerStep, Serves
  <2> QED BY <2>2, CarriesServed
<1>5. CASE UNCHANGED vars
  <2>1. UNCHANGED <<conns, thread, current>>
    BY <1>5 DEF vars
  <2>2. SentKept
    BY <2>1, KeptSame DEF Base
  <2> QED BY <2>1, <2>2, CarriesServed
<1>6. Quiet => UNCHANGED vars
  BY DEF Quiet
<1> QED BY <1>1, <1>2, <1>3, <1>4, <1>5, <1>6 DEF Next

(* Where the executions of the command of call i are found. *)
Places(i) == {p \in UNION {{<<c, k>> : k \in DOMAIN conns[c].executed} : c \in DOMAIN conns} :
                conns[p[1]].sent[p[2]] = i}

(* Only what was sent is executed. *)
LEMMA ExecutedFirst ==
  ASSUME Base, NEW c \in 1..Len(conns), NEW k \in DOMAIN conns[c].executed
  PROVE  k \in 1..Len(conns[c].sent)
<1> DEFINE x == conns[c]
<1>1. x \in Conn /\ Stream(issued, peer, x) /\ issued \in Seq(DOMAIN Answer)
  BY ConnOf, TypeFacts DEF Base, Streams1
<1> HIDE DEF x
<1>2. /\ Commands(issued, x) \in Seq(DOMAIN Answer) /\ Len(Commands(issued, x)) = Len(x.sent)
      /\ x.executed \in Seq(DOMAIN Answer)
  BY <1>1, CommandsFacts DEF Stream
<1>3. \/ Commands(issued, x) = x.executed
      \/ \E q \in Seq(DOMAIN Answer) : Commands(issued, x) = x.executed \o q
  BY <1>1 DEF Stream, Queued
<1>4. Len(x.executed) <= Len(x.sent) /\ Len(x.executed) \in Nat /\ Len(x.sent) \in Nat
  <2>1. CASE Commands(issued, x) = x.executed
    BY <1>2, <2>1
  <2>2. ASSUME NEW q \in Seq(DOMAIN Answer), Commands(issued, x) = x.executed \o q
        PROVE  Len(x.executed) <= Len(x.sent)
    <3>1. Len(x.executed \o q) = Len(x.executed) + Len(q) /\ Len(q) \in Nat
      BY <1>2
    <3> QED BY <1>2, <2>2, <3>1
  <2>3. Len(x.executed) \in Nat /\ Len(x.sent) \in Nat
    BY <1>2
  <2> QED BY <1>3, <2>1, <2>2, <2>3
<1>5. k \in 1..Len(x.executed)
  BY <1>2 DEF x
<1>6. k \in 1..Len(x.sent)
  BY <1>4, <1>5
<1> QED BY <1>6 DEF x

(* There is one at most on each of two connections. *)
LEMMA PlacesOf ==
  ASSUME Base, Carries, NEW i
  PROVE  \E a, b : /\ \A p \in Places(i) : p[1] \in {a, b}
                   /\ \A p, q \in Places(i) : p[1] = q[1] => p = q
<1>0. PICK a, b : Carry(conns, i, {a, b})
  BY DEF Carries, Twice
<1>1. ASSUME NEW p \in Places(i)
      PROVE  \E c \in 1..Len(conns) : \E k \in 1..Len(conns[c].sent) :
               p = <<c, k>> /\ conns[c].sent[k] = i
  <2>1. PICK c \in DOMAIN conns : p \in {<<c, k>> : k \in DOMAIN conns[c].executed}
    BY DEF Places
  <2>2. PICK k \in DOMAIN conns[c].executed : p = <<c, k>>
    BY <2>1
  <2>3. conns[c].sent[k] = i
    BY <2>2 DEF Places
  <2>4. c \in 1..Len(conns)
    BY TypeFacts DEF Base
  <2>5. k \in 1..Len(conns[c].sent)
    BY <2>4, ExecutedFirst
  <2> QED BY <2>2, <2>3, <2>4, <2>5
<1>2. \A p \in Places(i) : p[1] \in {a, b}
  BY <1>0, <1>1 DEF Carry
<1>3. ASSUME NEW p \in Places(i), NEW q \in Places(i), p[1] = q[1] PROVE p = q
  BY <1>1, <1>3 DEF Carries, Once
<1> QED BY <1>2, <1>3

(* A set with at most one element for each of two values. *)
LEMMA TwoAtMost ==
  ASSUME NEW P, NEW a, NEW b, \A p \in P : p[1] \in {a, b},
         \A p, q \in P : p[1] = q[1] => p = q
  PROVE  IsFiniteSet(P) /\ Cardinality(P) <= 2
<1> DEFINE x == CHOOSE p \in P : p[1] = a
           y == CHOOSE p \in P : p[1] = b
<1>1. ASSUME NEW p \in P PROVE p \in {x} \cup {y}
  <2>1. CASE p[1] = a
    BY <2>1
  <2>2. CASE p[1] = b
    BY <2>2
  <2> QED BY <2>1, <2>2
<1> HIDE DEF x, y
<1>2. IsFiniteSet({x}) /\ Cardinality({x}) = 1
  BY FS_Singleton
<1>3. /\ IsFiniteSet({x} \cup {y})
      /\ Cardinality({x} \cup {y}) \in {1, 2}
  BY <1>2, FS_AddElement
<1>4. P \in SUBSET ({x} \cup {y})
  BY <1>1
<1>5. IsFiniteSet(P) /\ Cardinality(P) <= Cardinality({x} \cup {y})
  BY <1>3, <1>4, FS_Subset
<1>6. Cardinality(P) \in Nat
  BY <1>5, FS_CardinalityType
<1> QED BY <1>3, <1>5, <1>6

(* The number of times the command of call i was executed. *)
LEMMA ExecutionsBounds ==
  ASSUME Base, Carries, NEW i
  PROVE  /\ Executions(i) <= 2 /\ Executions(i) \in Nat
         /\ Ran(conns, i) => Executions(i) >= 1
<1>1. Executions(i) = Cardinality(Places(i))
  BY DEF Executions, Places
<1>2. IsFiniteSet(Places(i)) /\ Cardinality(Places(i)) <= 2
  BY PlacesOf, TwoAtMost
<1>3. Cardinality(Places(i)) \in Nat
  BY <1>2, FS_CardinalityType
<1>4. ASSUME Ran(conns, i) PROVE Places(i) # {}
  <2>1. PICK c \in 1..Len(conns) : \E k \in 1..Len(conns[c].executed) :
          k \in 1..Len(conns[c].sent) /\ conns[c].sent[k] = i
    BY <1>4 DEF Ran
  <2>2. PICK k \in 1..Len(conns[c].executed) : conns[c].sent[k] = i
    BY <2>1
  <2>3. c \in DOMAIN conns /\ k \in DOMAIN conns[c].executed
    <3>1. DOMAIN conns = 1..Len(conns)
      BY TypeFacts DEF Base
    <3>2. conns[c] \in Conn
      BY ConnOf DEF Base
    <3>3. conns[c].executed \in Seq(DOMAIN Answer)
      BY <3>2 DEF Conn
    <3> QED BY <3>1, <3>3
  <2>4. <<c, k>> \in Places(i)
    BY <2>2, <2>3 DEF Places
  <2> QED BY <2>4
<1>5. Ran(conns, i) => Cardinality(Places(i)) # 0
  BY <1>2, <1>4, FS_EmptySet
<1> QED BY <1>1, <1>2, <1>3, <1>5

(* The invariants give what the run checks. *)
LEMMA CarriesAtMostTwice == Base /\ Results /\ Carries => AtMostTwice
<1> SUFFICES ASSUME Base, Results, Carries PROVE AtMostTwice
  OBVIOUS
<1>1. \A i \in DOMAIN issued : Executions(i) <= 2
  BY ExecutionsBounds
<1>2. ASSUME NEW t \in Threads, thread[t].result.tag \in {"value", "conflict"}, thread[t].clean
      PROVE  Executions(thread[t].id) >= 1
  <2>1. Ran(conns, thread[t].id)
    BY <1>2 DEF Results, Answered
  <2> QED BY <2>1, ExecutionsBounds
<1> QED BY <1>1, <1>2 DEF AtMostTwice

(* The retry of execute() makes the server execute a command twice at most, *)
(* and the command of a call that was answered in step at least once: for   *)
(* any number of threads, calls, faults and cuts.                           *)
THEOREM AtMostTwiceAlways == Spec => []AtMostTwice
<1>1. Spec => []Base
  BY BaseAlways
<1>2. Spec => []Results
  BY ResultsAlways
<1>3. Init => Carries
  BY InitCarries
<1>4. Base /\ Carries /\ [Next]_vars => Carries'
  BY NextCarries
<1>5. Base /\ Results /\ Carries => AtMostTwice
  BY CarriesAtMostTwice
<1> QED BY <1>1, <1>2, <1>3, <1>4, <1>5, PTL DEF Spec

-----------------------------------------------------------------------------
(* What a call reads on a connection that an earlier call gave up on *)

(* A sequence of bytes is its first n bytes and the others. *)
LEMMA Parts ==
  ASSUME NEW a \in Seq(Byte), NEW n \in 0..Len(a)
  PROVE  \E h, u \in Seq(Byte) : Len(h) = n /\ Len(u) = Len(a) - n /\ a = h \o u
<1> DEFINE h == SubSeq(a, 1, n)
           u == SubSeq(a, n + 1, Len(a))
<1>1. h \in Seq(Byte) /\ Len(h) = n
  OBVIOUS
<1>2. u \in Seq(Byte) /\ Len(u) = Len(a) - n
  OBVIOUS
<1>3. a = h \o u
  BY SplitAt
<1> HIDE DEF h, u
<1> QED BY <1>1, <1>2, <1>3

(* None of the commands q has an answer that holds the bytes of an array.  *)
Plain(q) == \A k \in 1..Len(q) : ~HoldsArray(Answer[q[k]])

(* Its bytes after the first do not begin one. *)
LEMMA PlainBytes ==
  ASSUME NEW d \in DOMAIN Answer, ~HoldsArray(Answer[d]), NEW i \in 2..Len(EncodeReply(Answer[d]))
  PROVE  EncodeReply(Answer[d])[i] # "*"
<1> DEFINE e == EncodeReply(Answer[d])
<1>1. e \in Seq(Byte) /\ e # <<>>
  BY AnswerBytes
<1>2. "*" \notin ToSet(Tail(e))
  BY DEF HoldsArray
<1>3. i \in 2..Len(e)
  OBVIOUS
<1> HIDE DEF e
<1>4. i - 1 \in DOMAIN Tail(e) /\ Tail(e)[i - 1] = e[i]
  BY <1>1, <1>3
<1>5. e[i] \in ToSet(Tail(e))
  BY <1>4 DEF ToSet
<1> QED BY <1>2, <1>5 DEF e

(* A part of the stream of the answers q that begins like an array begins  *)
(* with one of the answers.                                                *)
FoundIn(q) ==
  \A p, w \in Seq(Byte) :
    (Answers(q) = p \o w /\ w # <<>> /\ w[1] = "*") =>
       \E k \in 1..Len(q) : \E r \in Seq(Byte) : w = EncodeReply(Answer[q[k]]) \o r

(* There is none in a stream of no answers. *)
LEMMA FoundNone == FoundIn(<<>>)
<1> SUFFICES ASSUME NEW p \in Seq(Byte), NEW w \in Seq(Byte), Answers(<<>>) = p \o w, w # <<>>
             PROVE  FALSE
  BY DEF FoundIn
<1>1. p \o w = <<>>
  <2>1. <<>> \in Seq(DOMAIN Answer)
    OBVIOUS
  <2> QED BY <2>1, AnswersFacts
<1>2. Len(p \o w) = Len(p) + Len(w) /\ Len(p) \in Nat /\ Len(w) \in Nat /\ Len(w) # 0
  OBVIOUS
<1>3. Len(p \o w) = 0
  BY <1>1
<1> QED BY <1>2, <1>3

(* The first answer begins the stream, or the part is one of the others'. *)
LEMMA FoundNext ==
  ASSUME NEW q \in Seq(DOMAIN Answer), q # <<>>, Plain(q), FoundIn(Tail(q))
  PROVE  FoundIn(q)
<1> SUFFICES ASSUME NEW p \in Seq(Byte), NEW w \in Seq(Byte),
                    Answers(q) = p \o w, w # <<>>, w[1] = "*"
             PROVE  \E k \in 1..Len(q) : \E r \in Seq(Byte) : w = EncodeReply(Answer[q[k]]) \o r
  BY DEF FoundIn
<1> DEFINE d == q[1]
           e == EncodeReply(Answer[d])
           l == Tail(q)
           a == Answers(l)
<1>1. /\ d \in DOMAIN Answer /\ l \in Seq(DOMAIN Answer)
      /\ Len(q) = Len(l) + 1 /\ Len(l) \in Nat
      /\ \A k \in 1..Len(l) : l[k] = q[k + 1]
  OBVIOUS
<1>2. p \o w = e \o a /\ a \in Seq(Byte)
  BY <1>1, AnswersFacts
<1>3. /\ e \in Seq(Byte) /\ Len(e) >= 1
      /\ \A i \in 2..Len(e) : e[i] # "*"
  <2>1. 1 \in 1..Len(q)
    BY <1>1
  <2>2. ~HoldsArray(Answer[d])
    BY <2>1 DEF Plain
  <2> QED BY <1>1, <2>2, AnswerBytes, PlainBytes
<1>4. Len(p) \in Nat /\ Len(e) \in Nat
  BY <1>3
<1> HIDE DEF d, e, a, l
<1>5. CASE Len(p) = 0
  <2>1. w = e \o a
    <3>1. p = <<>> /\ p \o w = w
      BY <1>5
    <3> QED BY <1>2, <3>1
  <2>2. 1 \in 1..Len(q)
    BY <1>1
  <2> QED BY <1>2, <2>1, <2>2 DEF d, e
<1>6. CASE Len(p) # 0 /\ Len(p) < Len(e)
  <2>1. (p \o w)[Len(p) + 1] = "*"
    OBVIOUS
  <2>2. Len(p) + 1 \in 2..Len(e) /\ (e \o a)[Len(p) + 1] = e[Len(p) + 1]
    BY <1>2, <1>3, <1>6
  <2> QED BY <1>2, <1>3, <2>1, <2>2
<1>7. CASE Len(p) >= Len(e)
  <2>0. Len(e) \in 0..Len(p)
    BY <1>4, <1>7
  <2>1. PICK h, u \in Seq(Byte) : Len(h) = Len(e) /\ Len(u) = Len(p) - Len(e) /\ p = h \o u
    BY <2>0, Parts
  <2>2. (h \o u) \o w = h \o (u \o w) /\ u \o w \in Seq(Byte)
    <3>1. Same3(h, u, w)
      BY <2>1, BytesSame
    <3>2. (h \o u) \o w = h \o (u \o w)
      BY ONLY <3>1 DEF Same3
    <3>3. u \o w \in Seq(Byte)
      BY <2>1
    <3> QED BY <3>2, <3>3
  <2>3. h \o (u \o w) = e \o a
    BY <1>2, <2>1, <2>2
  <2>4. a = u \o w
    BY <1>2, <1>3, <2>1, <2>2, <2>3, SameParts
  <2>5. PICK k \in 1..Len(l) : \E r \in Seq(Byte) : w = EncodeReply(Answer[l[k]]) \o r
    BY <2>1, <2>4 DEF a, l, FoundIn
  <2>6. k + 1 \in 1..Len(q) /\ q[k + 1] = l[k]
    BY <1>1, <2>5
  <2> QED BY <2>5, <2>6
<1>8. Len(p) = 0 \/ (Len(p) # 0 /\ Len(p) < Len(e)) \/ Len(p) >= Len(e)
  BY ONLY <1>4
<1> QED BY <1>5, <1>6, <1>7, <1>8

(* For streams of any length. *)
LEMMA ArrayFound == \A q \in Seq(DOMAIN Answer) : Plain(q) => FoundIn(q)
<1> DEFINE T == {n \in Nat : \A q \in Seq(DOMAIN Answer) : Len(q) = n /\ Plain(q) => FoundIn(q)}
<1>1. 0 \in T
  <2>1. \A q \in Seq(DOMAIN Answer) : Len(q) = 0 => q = <<>>
    OBVIOUS
  <2> QED BY <2>1, FoundNone
<1>2. ASSUME NEW n \in Nat, n \in T PROVE n + 1 \in T
  <2>1. ASSUME NEW q \in Seq(DOMAIN Answer), Len(q) = n + 1, Plain(q) PROVE FoundIn(q)
    <3>1. /\ q # <<>> /\ Tail(q) \in Seq(DOMAIN Answer) /\ Len(Tail(q)) = n
          /\ \A k \in 1..Len(Tail(q)) : k + 1 \in 1..Len(q) /\ Tail(q)[k] = q[k + 1]
      BY <1>2, <2>1
    <3>2. Plain(Tail(q))
      BY <2>1, <3>1 DEF Plain
    <3>3. FoundIn(Tail(q))
      BY <1>2, <3>1, <3>2
    <3> QED BY <2>1, <3>1, <3>3, FoundNext
  <2> QED BY <2>1
<1>3. \A n \in Nat : n \in T
  <2> HIDE DEF T
  <2> QED BY <1>1, <1>2, NatSetInduction
<1>4. ASSUME NEW q \in Seq(DOMAIN Answer), Plain(q) PROVE FoundIn(q)
  <2>1. Len(q) \in Nat
    OBVIOUS
  <2> QED BY <1>3, <1>4, <2>1
<1> QED BY <1>4

(* What is parsed is no array. *)
NoArray(p) == p.tag = "ok" => ~Is(p.value, "array")

(* The parsers of the other kinds return no array. *)
LEMMA OtherKinds ==
  ASSUME NEW m, NEW s
  PROVE  NoArray(ReplyLine(m, s)) /\ NoArray(ReplyInt(m, s)) /\ NoArray(ReplyBulk(m, s))
<1>0. \A x, n : NoArray(Parsed(Str(x), n)) /\ NoArray(Parsed(Integer(x), n)) /\ NoArray(Parsed(Null, n))
  <2>1. \A x : ~Is(Str(x), "array") /\ ~Is(Integer(x), "array") /\ ~Is(Null, "array")
    BY Kinds DEF Is
  <2> QED BY <2>1, Tags DEF NoArray
<1>1. NoArray(Malformed)
  BY Tags DEF NoArray
<1>2. \A p : p.tag # "ok" => NoArray(p)
  BY DEF NoArray
<1>3. NoArray(ReplyLine(m, s))
  <2> DEFINE p == ReadLine(m, s)
  <2>1. ReplyLine(m, s) =
          IF p.tag = "ok"
          THEN IF IsUtf8(p.value) THEN Parsed(Str(Decode(p.value)), p.next) ELSE Malformed
          ELSE p
    BY Zenon DEF ReplyLine, Then
  <2> HIDE DEF p
  <2> QED BY <1>0, <1>1, <1>2, <2>1, Zenon
<1>4. NoArray(ReplyInt(m, s))
  <2> DEFINE p == ReadLine(m, s)
  <2>1. ReplyInt(m, s) =
          IF p.tag = "ok"
          THEN IF IsInt(p.value) THEN Parsed(Integer(IntOf(p.value)), p.next) ELSE Malformed
          ELSE p
    BY Zenon DEF ReplyInt, Then
  <2> HIDE DEF p
  <2> QED BY <1>0, <1>1, <1>2, <2>1, Zenon
<1>5. NoArray(ReplyBulk(m, s))
  <2> DEFINE p == ReadInt(m, s, -1)
             q == Payload(m, p.next, p.value)
             b == IF q.tag = "ok" THEN Parsed(Str(q.value), q.next) ELSE q
  <2>1. ReplyBulk(m, s) =
          IF p.tag = "ok" THEN IF p.value = -1 THEN Parsed(Null, p.next) ELSE b ELSE p
    BY Zenon DEF ReplyBulk, Then
  <2>2. NoArray(b)
    <3> HIDE DEF q
    <3> QED BY <1>0, <1>2, Zenon
  <2> HIDE DEF p, b
  <2> QED BY <1>0, <1>2, <2>1, <2>2, Zenon
<1> QED BY <1>3, <1>4, <1>5

(* An array begins with its own byte. *)
LEMMA ArrayKind ==
  ASSUME NEW m \in Seq(Byte), ParseReply(m).tag = "ok", Is(ParseReply(m).value, "array")
  PROVE  m # <<>> /\ m[1] = "*"
<1>1. PICK f : RepliesFrom(f, m, 1) /\ ParseReply(m) = f[1]
  BY ReplyUnfold
<1> DEFINE one == 1
           p == ReplyFrom(m, one, f)
<1>2. one \in 1..(Len(m) + 1) /\ Len(m) \in Nat
  OBVIOUS
<1>3. ParseReply(m) = p
  BY <1>1, <1>2 DEF RepliesFrom
<1>4. ~NoArray(p)
  BY <1>3 DEF NoArray
<1> HIDE DEF one, p
<1>5. NoArray(Incomplete) /\ NoArray(Malformed) /\ NoArray(Refused)
  BY Tags DEF NoArray
<1>6. one <= Len(m)
  BY <1>2, <1>4, <1>5, ReplyFromIs DEF p
<1>7. m[one] # "-"
  <2>1. ReplyLine(m, one + 1).tag # "ok" => NoArray(ReplyLine(m, one + 1))
    BY DEF NoArray
  <2>2. m[one] = "-" => p = IF ReplyLine(m, one + 1).tag = "ok" THEN Refused
                            ELSE ReplyLine(m, one + 1)
    BY <1>2, <1>6, ReplyFromIs DEF p
  <2> QED BY <1>4, <1>5, <2>1, <2>2, Zenon
<1>8. m[one] = "*"
  BY <1>2, <1>4, <1>5, <1>6, <1>7, OtherKinds, ReplyFromIs DEF p
<1> QED BY <1>6, <1>8 DEF one

(* A stream cut within its first part, or after it. *)
Within(b, e) == \E u \in Seq(Byte) : e = b \o u /\ u # <<>>
Beyond(b, e) == \E u \in Seq(Byte) : b = e \o u

(* Two ways to cut a stream: the first part of one is in that of the other. *)
LEMMA CutStream ==
  ASSUME NEW e \in Seq(Byte), NEW f \in Seq(Byte), NEW b \in Seq(Byte), NEW r \in Seq(Byte),
         b \o r = e \o f
  PROVE  Within(b, e) \/ Beyond(b, e)
<1>1. Len(b) \in Nat /\ Len(e) \in Nat
  OBVIOUS
<1>2. ASSUME Len(b) < Len(e) PROVE Within(b, e)
  <2>1. Len(b) \in 0..Len(e)
    BY <1>1, <1>2
  <2>2. PICK h, u \in Seq(Byte) :
          Len(h) = Len(b) /\ Len(u) = Len(e) - Len(b) /\ e = h \o u
    BY <2>1, Parts
  <2>3. u \o f \in Seq(Byte)
    OBVIOUS
  <2>4. b \o r = h \o (u \o f)
    <3>1. Same3(h, u, f) /\ b \o r = e \o f /\ e = h \o u
      BY <2>2, BytesSame
    <3> QED BY ONLY <3>1 DEF Same3
  <2>5. b = h
    BY <2>2, <2>3, <2>4, SameParts
  <2>6. u # <<>>
    BY <1>1, <1>2, <2>2
  <2> QED BY <2>2, <2>5, <2>6 DEF Within
<1>3. ASSUME Len(b) >= Len(e) PROVE Beyond(b, e)
  <2>1. Len(e) \in 0..Len(b)
    BY <1>1, <1>3
  <2>2. PICK h, u \in Seq(Byte) : Len(h) = Len(e) /\ b = h \o u
    BY <2>1, Parts
  <2>3. u \o r \in Seq(Byte)
    OBVIOUS
  <2>4. h \o (u \o r) = e \o f
    <3>1. Same3(h, u, r) /\ b \o r = e \o f /\ b = h \o u
      BY <2>2, BytesSame
    <3> QED BY ONLY <3>1 DEF Same3
  <2>5. h = e
    BY <2>2, <2>3, <2>4, SameParts
  <2> QED BY <2>2, <2>5 DEF Beyond
<1>4. Len(b) < Len(e) \/ Len(b) >= Len(e)
  BY <1>1
<1> QED BY <1>2, <1>3, <1>4

(* An array that the client reads from a stream of answers is one of them. *)
LEMMA AnswerFound ==
  ASSUME NEW q \in Seq(DOMAIN Answer), Plain(q), NEW p \in Seq(Byte), NEW b \in Seq(Byte),
         NEW r \in Seq(Byte), Answers(q) = p \o (b \o r),
         ParseReply(b).tag = "ok", Is(ParseReply(b).value, "array")
  PROVE  \E k \in 1..Len(q) : ParseReply(b).value = Answer[q[k]]
<1> DEFINE w == b \o r
<1>1. w \in Seq(Byte) /\ w # <<>> /\ w[1] = "*"
  <2>1. b # <<>> /\ b[1] = "*"
    BY ArrayKind
  <2> QED BY <2>1
<1>2. Answers(q) = p \o w
  OBVIOUS
<1> HIDE DEF w
<1>3. FoundIn(q)
  BY ArrayFound
<1>4. PICK k \in 1..Len(q) : \E y \in Seq(Byte) : w = EncodeReply(Answer[q[k]]) \o y
  BY <1>1, <1>2, <1>3 DEF FoundIn
<1>5. PICK y \in Seq(Byte) : w = EncodeReply(Answer[q[k]]) \o y
  BY <1>4
<1> DEFINE d == q[k]
           a == Answer[d]
           e == EncodeReply(a)
           v == ParseReply(b)
<1>6. d \in DOMAIN Answer
  OBVIOUS
<1>7. IsReply(a) /\ e \in Seq(Byte)
  BY <1>6, AnswersAssumption, AnswerBytes
<1>8. b \o r = e \o y
  BY <1>5 DEF w
<1>9. v.tag = "ok" /\ Is(v.value, "array")
  OBVIOUS
<1> HIDE DEF d, a, e, v
<1>10. Within(b, e) \/ Beyond(b, e)
  BY <1>7, <1>8, CutStream
<1>11. CASE Within(b, e)
  <2>1. PICK u \in Seq(Byte) : e = b \o u /\ u # <<>>
    BY <1>11 DEF Within
  <2>2. v = Incomplete
    BY <1>7, <2>1, ReplyPart DEF e, v
  <2> QED BY <1>9, <2>2, Tags
<1>12. ASSUME NEW u \in Seq(Byte), b = e \o u PROVE v.value = a
  <2>1. v = IF a = ErrorReply THEN Refused ELSE Parsed(ReadBack(a), Len(e) + 1)
    BY <1>7, <1>12, ReplyFirst DEF e, v
  <2>2. v.value = ReadBack(a)
    BY <1>9, <2>1, Tags
  <2>3. ~Is(a, "simple")
    <3> SUFFICES ASSUME Is(a, "simple") PROVE FALSE
      OBVIOUS
    <3>1. ReadBack(a) = Str(a.simple)
      BY Zenon DEF ReadBack
    <3> QED BY <1>9, <2>2, <3>1, Kinds DEF Is
  <2> QED BY <2>2, <2>3, Zenon DEF ReadBack
<1>13. Beyond(b, e) => v.value = a
  BY <1>12 DEF Beyond
<1> QED BY <1>10, <1>11, <1>13 DEF a, d, v

(* The client has read b of a part of the server's answers, and the rest   *)
(* of that part is on its way: all that is to come, if the connection is   *)
(* open.                                                                   *)
Comes(x, b) ==
  \E p, r \in Seq(Byte) : /\ Answers(x.executed) = p \o ((b \o x.s2c) \o r)
                          /\ x.state = "open" => r = <<>>

(* The same strings of bytes, put together in two ways: all of them read,  *)
(* one more at the end, and one more at the end of those to come.          *)
ReadSame(p, b, h, u, r) == p \o ((b \o (h \o u)) \o r) = p \o (((b \o h) \o u) \o r)
DoneSame(p, w, r, e) == (p \o (w \o r)) \o e = p \o (w \o (r \o e))
SendSame(p, b, s, e) == (p \o ((b \o s) \o <<>>)) \o e = p \o ((b \o (s \o e)) \o <<>>)

(* The bytes that recv() returns move from those on their way to the read. *)
LEMMA ReadMore ==
  ASSUME NEW p, NEW r, NEW b \in Seq(Byte), NEW h \in Seq(Byte), NEW u \in Seq(Byte)
  PROVE  ReadSame(p, b, h, u, r)
<1>1. b \o (h \o u) = (b \o h) \o u
  BY BytesAssoc
<1> QED BY ONLY <1>1 DEF ReadSame

(* An answer that nobody will read comes after what is left of the others. *)
LEMMA DoneMore ==
  ASSUME NEW p \in Seq(Byte), NEW w \in Seq(Byte), NEW r \in Seq(Byte), NEW e \in Seq(Byte)
  PROVE  DoneSame(p, w, r, e)
<1> DEFINE v == w \o r
<1>1. v \in Seq(Byte)
  OBVIOUS
<1>2. v \o e = w \o (r \o e)
  <2>1. Same3(w, r, e)
    BY BytesSame
  <2> QED BY ONLY <2>1 DEF Same3
<1> HIDE DEF v
<1>3. Same3(p, v, e)
  BY <1>1, BytesSame
<1>4. (p \o v) \o e = p \o (w \o (r \o e))
  BY ONLY <1>2, <1>3 DEF Same3
<1> QED BY <1>4 DEF v, DoneSame

(* An answer that is sent comes after the bytes on their way. *)
LEMMA SendMore ==
  ASSUME NEW p \in Seq(Byte), NEW b \in Seq(Byte), NEW s \in Seq(Byte), NEW e \in Seq(Byte)
  PROVE  SendSame(p, b, s, e)
<1> DEFINE w == b \o s
           v == b \o (s \o e)
           o == <<>>
<1>1. w \in Seq(Byte) /\ v \in Seq(Byte) /\ o \in Seq(Byte)
  OBVIOUS
<1>2. w \o e = v
  <2>1. Same3(b, s, e)
    BY BytesSame
  <2> QED BY ONLY <2>1 DEF Same3
<1>3. o \o e = e /\ v \o o = v
  BY <1>1
<1> HIDE DEF w, v, o
<1>4. DoneSame(p, w, o, e)
  BY <1>1, DoneMore
<1>5. (p \o (w \o o)) \o e = p \o (v \o o)
  BY ONLY <1>2, <1>3, <1>4 DEF DoneSame
<1> QED BY <1>5 DEF w, v, o, SendSame

(* What has been read may be forgotten. *)
LEMMA ComesEmpty ==
  ASSUME NEW x \in Conn, NEW b \in Seq(Byte), Comes(x, b)
  PROVE  Comes(x, <<>>)
<1>1. PICK p, r \in Seq(Byte) : /\ Answers(x.executed) = p \o ((b \o x.s2c) \o r)
                                /\ x.state = "open" => r = <<>>
  BY DEF Comes
<1> DEFINE s == x.s2c
           a == Answers(x.executed)
<1>2. s \in Seq(Byte)
  BY DEF Conn
<1>3. a = p \o ((b \o s) \o r)
  BY <1>1
<1> HIDE DEF s, a
<1>4. (b \o s) \o r = b \o (s \o r) /\ s \o r \in Seq(Byte) /\ <<>> \o s = s
  <2>1. Same3(b, s, r)
    BY <1>1, <1>2, BytesSame
  <2>2. (b \o s) \o r = b \o (s \o r)
    BY ONLY <2>1 DEF Same3
  <2>3. s \o r \in Seq(Byte) /\ <<>> \o s = s
    BY <1>1, <1>2
  <2> QED BY <2>2, <2>3
<1>5. p \o (b \o (s \o r)) = (p \o b) \o (s \o r) /\ p \o b \in Seq(Byte)
  <2> DEFINE v == s \o r
  <2>1. v \in Seq(Byte) /\ p \o b \in Seq(Byte)
    BY <1>4
  <2> HIDE DEF v
  <2>2. Same3(p, b, v)
    BY <2>1, BytesSame
  <2>3. p \o (b \o v) = (p \o b) \o v
    BY ONLY <2>2 DEF Same3
  <2> QED BY <2>1, <2>3 DEF v
<1>6. a = (p \o b) \o ((<<>> \o s) \o r)
  BY <1>3, <1>4, <1>5
<1> QED BY <1>1, <1>5, <1>6 DEF Comes, s, a

(* Nothing executed and nothing read. *)
LEMMA ComesKept ==
  ASSUME NEW x, NEW y, y.executed = x.executed, y.s2c = x.s2c,
         y.state = "open" => x.state = "open"
  PROVE  \A b : Comes(x, b) => Comes(y, b)
BY DEF Comes

(* What is on its way is dropped. *)
LEMMA ComesDropped ==
  ASSUME NEW x \in Conn, NEW y, y.executed = x.executed, y.s2c = <<>>, y.state # "open",
         NEW b \in Seq(Byte), Comes(x, b)
  PROVE  Comes(y, b)
<1>1. PICK p, r \in Seq(Byte) : Answers(x.executed) = p \o ((b \o x.s2c) \o r)
  BY DEF Comes
<1> DEFINE s == x.s2c
           a == Answers(x.executed)
<1>2. s \in Seq(Byte)
  BY DEF Conn
<1>3. a = p \o ((b \o s) \o r)
  BY <1>1
<1> HIDE DEF s, a
<1>4. (b \o s) \o r = b \o (s \o r) /\ s \o r \in Seq(Byte) /\ b \o <<>> = b
  <2>1. Same3(b, s, r)
    BY <1>1, <1>2, BytesSame
  <2>2. (b \o s) \o r = b \o (s \o r)
    BY ONLY <2>1 DEF Same3
  <2>3. s \o r \in Seq(Byte) /\ b \o <<>> = b
    BY <1>1, <1>2
  <2> QED BY <2>2, <2>3
<1>5. a = p \o ((b \o <<>>) \o (s \o r))
  BY <1>3, <1>4
<1> QED BY <1>4, <1>5 DEF Comes, a

(* recv() of the client. *)
LEMMA ComesRead ==
  ASSUME NEW x \in Conn, NEW n \in 1..Len(x.s2c), NEW b \in Seq(Byte), Comes(x, b)
  PROVE  Comes(Fetched(x, n), b \o SubSeq(x.s2c, 1, n))
<1>1. PICK p, r \in Seq(Byte) : /\ Answers(x.executed) = p \o ((b \o x.s2c) \o r)
                                /\ x.state = "open" => r = <<>>
  BY DEF Comes
<1> DEFINE s == x.s2c
           a == Answers(x.executed)
           h == SubSeq(s, 1, n)
           u == SubSeq(s, n + 1, Len(s))
           y == Fetched(x, n)
<1>2. y.executed = x.executed /\ y.s2c = u /\ y.state = x.state
  BY FetchedFacts
<1>3. s \in Seq(Byte)
  BY DEF Conn
<1>4. a = p \o ((b \o s) \o r)
  BY <1>1
<1> HIDE DEF s, a, y
<1>5. h \in Seq(Byte) /\ u \in Seq(Byte) /\ s = h \o u
  <2>1. n \in 0..Len(s)
    BY DEF s
  <2> QED BY <1>3, <2>1, SplitAt
<1> HIDE DEF h, u
<1>6. ReadSame(p, b, h, u, r)
  BY <1>5, ReadMore
<1>7. a = p \o (((b \o h) \o u) \o r)
  BY <1>4, <1>5, <1>6 DEF ReadSame
<1>8. Comes(y, b \o h)
  BY <1>1, <1>2, <1>7 DEF Comes, a
<1> QED BY <1>8 DEF y, h, s

(* A command is executed and answered. *)
LEMMA ComesDone ==
  ASSUME NEW x \in Conn, NEW y, NEW v \in DOMAIN Answer, y.executed = Append(x.executed, v),
         y.s2c = Out(x, EncodeReply(Answer[v])), y.state = x.state,
         NEW b \in Seq(Byte), Comes(x, b)
  PROVE  Comes(y, b)
<1>1. PICK p, r \in Seq(Byte) : /\ Answers(x.executed) = p \o ((b \o x.s2c) \o r)
                                /\ x.state = "open" => r = <<>>
  BY DEF Comes
<1> DEFINE s == x.s2c
           a == Answers(x.executed)
           e == EncodeReply(Answer[v])
           c == Answers(y.executed)
<1>2. s \in Seq(Byte) /\ x.executed \in Seq(DOMAIN Answer)
  BY DEF Conn
<1>3. a = p \o ((b \o s) \o r)
  BY <1>1
<1>4. c = a \o e /\ a \in Seq(Byte) /\ e \in Seq(Byte)
  BY <1>2, AnswersFacts, AnswerBytes
<1>5. y.s2c = IF x.state = "open" THEN s \o e ELSE s
  BY DEF Out
<1> HIDE DEF s, a, e, c
<1>6. DoneSame(p, b \o s, r, e) /\ SendSame(p, b, s, e) /\ r \o e \in Seq(Byte)
  <2>1. r \o e \in Seq(Byte) /\ b \o s \in Seq(Byte)
    BY <1>2, <1>4
  <2>2. DoneSame(p, b \o s, r, e)
    BY <1>4, <2>1, DoneMore
  <2>3. SendSame(p, b, s, e)
    BY <1>2, <1>4, SendMore
  <2> QED BY <2>1, <2>2, <2>3
<1>7. CASE x.state = "open"
  <2>1. r = <<>> /\ y.s2c = s \o e
    BY <1>1, <1>5, <1>7
  <2>2. c = p \o ((b \o (s \o e)) \o <<>>)
    BY <1>3, <1>4, <1>6, <2>1 DEF SendSame
  <2>3. <<>> \in Seq(Byte)
    OBVIOUS
  <2> QED BY <2>1, <2>2, <2>3 DEF Comes, c
<1>8. CASE x.state # "open"
  <2>1. y.s2c = s
    BY <1>5, <1>8
  <2>2. c = p \o ((b \o s) \o (r \o e))
    BY <1>3, <1>4, <1>6 DEF DoneSame
  <2> QED BY <1>6, <1>8, <2>1, <2>2 DEF Comes, c
<1> QED BY <1>7, <1>8

(* Nothing has been executed on a new connection. *)
LEMMA ComesNew == Comes(NewConn, <<>>)
<1> DEFINE o == <<>>
<1>1. NewConn.executed = o /\ NewConn.s2c = o
  BY DEF NewConn
<1>2. Answers(o) = o
  <2>1. o \in Seq(DOMAIN Answer)
    OBVIOUS
  <2> QED BY <2>1, AnswersFacts
<1>3. o \in Seq(Byte) /\ o = o \o ((o \o o) \o o)
  OBVIOUS
<1> HIDE DEF o
<1>4. Comes(NewConn, o)
  BY <1>1, <1>2, <1>3 DEF Comes, o
<1> QED BY <1>4 DEF o

(* What the app server reads on a connection is a part of what the server  *)
(* answered there, to commands whose reply nobody waited for or to the     *)
(* one in progress.                                                        *)
Arrive ==
  peer = "app_server" =>
    /\ \A c \in 1..Len(conns) : Comes(conns[c], <<>>)
    /\ \A t \in Threads : thread[t].pc = "read" => Comes(conns[current], thread[t].buffer)

(* After a step of the call that holds the lock, or takes it. *)
LEMMA ArriveMoved ==
  ASSUME Base, NEW t \in Threads, NEW z, Moved(t, z),
         thread[t].pc \in {"send", "read"} \/ holder = None,
         \A c \in 1..Len(conns') : Comes(conns'[c], <<>>),
         z.pc = "read" => Comes(conns'[current'], z.buffer)
  PROVE  Arrive'
<1>1. \A u \in Threads : u # t => thread[u].pc # "read"
  BY NoOtherReads DEF Base
<1>2. thread'[t] = z /\ \A u \in Threads : u # t => thread'[u] = thread[u]
  BY DEF Moved
<1>3. ASSUME NEW u \in Threads, thread'[u].pc = "read"
      PROVE  Comes(conns'[current'], thread'[u].buffer)
  <2>1. u = t
    BY <1>1, <1>2, <1>3
  <2> QED BY <1>2, <1>3, <2>1
<1> QED BY <1>3 DEF Arrive

(* After a step of the server or of the network. *)
LEMMA ArriveServed ==
  ASSUME Base, Arrive, NEW c \in 1..Len(conns), NEW y, Changed(c, y), Serves,
         peer = "app_server" => \A b \in Seq(Byte) : Comes(conns[c], b) => Comes(y, b)
  PROVE  Arrive'
<1> SUFFICES ASSUME peer = "app_server" PROVE Arrive'
  BY DEF Serves, Arrive
<1>1. UNCHANGED <<peer, thread, current>>
  BY DEF Serves
<1>2. Len(conns') = Len(conns) /\ conns'[c] = y
      /\ \A k \in 1..Len(conns) : k # c => conns'[k] = conns[k]
  BY DEF Changed
<1>3. ASSUME NEW k \in 1..Len(conns), NEW b \in Seq(Byte), Comes(conns[k], b)
      PROVE  Comes(conns'[k], b)
  BY <1>2, <1>3
<1>4. ASSUME NEW k \in 1..Len(conns') PROVE Comes(conns'[k], <<>>)
  <2>1. k \in 1..Len(conns) /\ <<>> \in Seq(Byte)
    BY <1>2
  <2>2. Comes(conns[k], <<>>)
    BY <2>1 DEF Arrive
  <2> QED BY <1>3, <2>1, <2>2
<1>5. ASSUME NEW t \in Threads, thread'[t].pc = "read"
      PROVE  Comes(conns'[current'], thread'[t].buffer)
  <2>1. thread[t].pc = "read"
    BY <1>1, <1>5
  <2>2. current \in 1..Len(conns) /\ thread[t].buffer \in Seq(Byte)
    BY <2>1, HolderFacts DEF Base
  <2>3. Comes(conns[current], thread[t].buffer)
    BY <2>1 DEF Arrive
  <2>4. Comes(conns'[current], thread[t].buffer)
    BY <1>3, <2>2, <2>3
  <2> QED BY <1>1, <2>4
<1> QED BY <1>4, <1>5 DEF Arrive

(* At the start there is no connection of the app server. *)
LEMMA InitArrive == Init => Arrive
<1> SUFFICES ASSUME Init, peer = "app_server" PROVE Arrive
  BY DEF Arrive
<1>1. conns = <<>>
  BY DEF Init
<1>2. \A t \in Threads : thread[t].pc = "idle"
  BY DEF Init, NoCall
<1> QED BY <1>1, <1>2 DEF Arrive

(* A call begins: the others read what they read. *)
LEMMA BeginArrive ==
  ASSUME Base, Arrive, NEW t \in Threads, NEW tokens \in Calls[t], Begin(t, tokens)
  PROVE  Arrive'
<1> DEFINE z == [NoCall EXCEPT !.pc = "lock", !.id = Len(issued) + 1]
<1>1. Moved(t, z) /\ UNCHANGED <<peer, holder, current, conns>>
  BY BeginFacts DEF Base
<1>2. z.pc = "lock"
  BY NewCallFields
<1> HIDE DEF z
<1>3. thread'[t] = z /\ \A u \in Threads : u # t => thread'[u] = thread[u]
  BY <1>1 DEF Moved
<1>4. ASSUME NEW u \in Threads, thread'[u].pc = "read"
      PROVE  thread[u].pc = "read" /\ thread'[u] = thread[u]
  BY <1>2, <1>3, <1>4
<1> QED BY <1>1, <1>4 DEF Arrive

(* The lock is taken. *)
LEMMA EnterArrive ==
  ASSUME Base, Arrive, NEW t \in Threads, Enter(t)
  PROVE  Arrive'
<1> DEFINE x == thread[t]
           ended == [thread[t] EXCEPT !.pc = "idle", !.buffer = <<>>, !.result = Upstream]
           entered == [thread[t] EXCEPT !.pc = "send"]
<1>0. Types /\ Control
  BY DEF Base
<1>1. /\ x.pc = "lock" /\ holder = None
      /\ \/ Moved(t, entered) /\ UNCHANGED conns
         \/ Moved(t, entered) /\ Added
         \/ Moved(t, ended) /\ UNCHANGED conns
  BY <1>0, EnterFacts
<1>2. entered.pc = "send" /\ ended.pc = "idle"
  BY <1>0, CallFields
<1>3. peer = "app_server"
  BY <1>0, <1>1 DEF Control, CallOK
<1> HIDE DEF ended, entered
<1>4. \E z : Moved(t, z) /\ z.pc # "read"
  BY <1>1, <1>2
<1>5. PICK z : Moved(t, z) /\ z.pc # "read"
  BY <1>4
<1>6. \A c \in 1..Len(conns) : Comes(conns[c], <<>>)
  BY <1>3 DEF Arrive
<1>7. \A c \in 1..Len(conns') : Comes(conns'[c], <<>>)
  <2>1. CASE UNCHANGED conns
    BY <1>6, <2>1
  <2>2. CASE Added
    <3>1. Len(conns) \in Nat
      BY <1>0, TypeFacts
    <3>2. ASSUME NEW c \in 1..Len(conns') PROVE Comes(conns'[c], <<>>)
      <4>1. c \in 1..Len(conns) \/ c = Len(conns) + 1
        BY <2>2, <3>1 DEF Added
      <4> QED BY <1>6, <2>2, <4>1, ComesNew DEF Added
    <3> QED BY <3>2
  <2> QED BY <1>1, <2>1, <2>2
<1> QED BY <1>1, <1>5, <1>7, ArriveMoved

(* The command is sent. *)
LEMMA SendArrive ==
  ASSUME Base, Arrive, NEW t \in Threads, Send(t)
  PROVE  Arrive'
<1> DEFINE x == thread[t]
           c == conns[current]
           e == EncodeCommand(issued[x.id])
           y == Commanded(c, x.id, e)
           z == [thread[t] EXCEPT !.pc = "read", !.clean = ~conns[current].lagging]
<1>0. Types /\ Control
  BY DEF Base
<1>1. /\ x.pc = "send" /\ e \in Seq(Byte)
      /\ Changed(current, y) /\ Moved(t, z)
      /\ UNCHANGED <<peer, issued, holder, current>>
  BY <1>0, SendFacts
<1>2. peer = "app_server" /\ current \in 1..Len(conns) /\ c \in Conn /\ x.id \in Nat
  BY <1>0, <1>1, HolderFacts
<1>3. z.buffer = x.buffer
  <2>1. \A k : LET w == [thread[t] EXCEPT !.pc = "read", !.clean = k] IN w.buffer = x.buffer
    BY <1>0, CallFields
  <2> QED BY <2>1
<1>4. x.buffer = <<>>
  BY <1>0, <1>1 DEF Control, CallOK
<1> HIDE DEF z, e
<1>5. \A k \in 1..Len(conns) : Comes(conns[k], <<>>)
  BY <1>2 DEF Arrive
<1>6. Comes(y, <<>>)
  <2>1. Comes(c, <<>>)
    BY <1>2, <1>5
  <2> HIDE DEF c
  <2>2. y.executed = c.executed /\ y.s2c = c.s2c /\ y.state = c.state
    BY <1>1, <1>2, CommandedFacts
  <2> HIDE DEF y
  <2> QED BY <2>1, <2>2, ComesKept
<1> HIDE DEF y
<1>7. \A k \in 1..Len(conns') : Comes(conns'[k], <<>>)
  BY <1>1, <1>5, <1>6 DEF Changed
<1>8. Comes(conns'[current'], z.buffer)
  BY <1>1, <1>3, <1>4, <1>6 DEF Changed
<1> QED BY <1>1, <1>7, <1>8, ArriveMoved

(* What the client drops, or leaves on its way, is still such a part. *)
LEMMA ComesEnded ==
  ASSUME NEW x \in Conn, Comes(x, <<>>)
  PROVE  Comes(Close(x), <<>>) /\ Comes(Lag(x), <<>>)
<1>1. Comes(Close(x), <<>>)
  <2> DEFINE y == Close(x)
             o == <<>>
  <2>1. y.executed = x.executed /\ y.s2c = <<>> /\ y.state # "open"
    <3>1. y.state = "fin" \/ y.state = "reset"
      BY CloseFacts
    <3> QED BY <3>1, CloseFacts
  <2>2. o \in Seq(Byte) /\ Comes(x, o)
    OBVIOUS
  <2> HIDE DEF y, o
  <2>3. Comes(y, o)
    BY <2>1, <2>2, ComesDropped
  <2> QED BY <2>3 DEF y, o
<1>2. Comes(Lag(x), <<>>)
  <2> DEFINE y == Lag(x)
  <2>1. y.executed = x.executed /\ y.s2c = x.s2c /\ y.state = x.state
    BY LagFacts
  <2> HIDE DEF y
  <2>2. Comes(y, <<>>)
    BY <2>1, ComesKept
  <2> QED BY <2>2 DEF y
<1> QED BY <1>1, <1>2

(* An OSError, or the end of the connection: what was read is dropped. *)
LEMMA BrokenArrive ==
  ASSUME Base, Arrive, NEW t \in Threads, Broken(t) \/ TimesOut(t) \/ ReadEof(t)
  PROVE  Arrive'
<1> DEFINE c == conns[current]
           ended == [thread[t] EXCEPT !.pc = "idle", !.buffer = <<>>, !.result = Upstream]
           retried == [thread[t] EXCEPT !.pc = "send", !.attempt = 2, !.buffer = <<>>]
<1>0. Types /\ Control
  BY DEF Base
<1>1. /\ thread[t].pc \in {"send", "read"}
      /\ \/ Moved(t, ended) /\ (Changed(current, Close(c)) \/ Changed(current, Lag(c)))
         \/ Moved(t, retried) /\ Replaced(current, Close(c))
  BY <1>0, BrokenFacts, ReadEofFacts DEF Retried, GaveUp, WasRefused
<1>2. peer = "app_server" /\ current \in 1..Len(conns) /\ c \in Conn /\ Len(conns) \in Nat
  BY <1>0, <1>1, HolderFacts, TypeFacts
<1>3. retried.pc = "send" /\ ended.pc = "idle"
  BY <1>0, CallFields
<1> HIDE DEF ended, retried
<1>4. PICK z : Moved(t, z) /\ z.pc # "read"
  BY <1>1, <1>3
<1>5. \A k \in 1..Len(conns) : Comes(conns[k], <<>>)
  BY <1>2 DEF Arrive
<1>6. Comes(Close(c), <<>>) /\ Comes(Lag(c), <<>>)
  <2>1. Comes(c, <<>>)
    BY <1>2, <1>5
  <2> HIDE DEF c
  <2> QED BY <1>2, <2>1, ComesEnded
<1>7. PICK y : Comes(y, <<>>) /\ (Changed(current, y) \/ Replaced(current, y))
  BY <1>1, <1>6
<1>8. \A k \in 1..Len(conns') : Comes(conns'[k], <<>>)
  <2>1. CASE Changed(current, y)
    BY <1>5, <1>7, <2>1 DEF Changed
  <2>2. CASE Replaced(current, y)
    <3>1. ASSUME NEW k \in 1..Len(conns') PROVE Comes(conns'[k], <<>>)
      <4>1. k \in 1..Len(conns) \/ k = Len(conns) + 1
        BY <1>2, <2>2 DEF Replaced
      <4> QED BY <1>5, <1>7, <2>2, <4>1, ComesNew DEF Replaced
    <3> QED BY <3>1
  <2> QED BY <1>7, <2>1, <2>2
<1> QED BY <1>1, <1>4, <1>8, ArriveMoved

(* What the client has read when recv() returns the first n bytes. *)
LEMMA GotComes ==
  ASSUME Base, Arrive, NEW t \in Threads, thread[t].pc = "read", NEW n, NEW b, Got(t, n, b)
  PROVE  Comes(Fetched(conns[current], n), b) /\ Comes(Fetched(conns[current], n), <<>>)
<1> DEFINE c == conns[current]
           g == thread[t].buffer
           y == Fetched(c, n)
<1>1. /\ peer = "app_server" /\ current \in 1..Len(conns) /\ c \in Conn /\ g \in Seq(Byte)
  BY HolderFacts DEF Base
<1>2. n \in 1..Len(c.s2c) /\ b = g \o SubSeq(c.s2c, 1, n) /\ b \in Seq(Byte)
  BY DEF Got
<1>3. Comes(c, g)
  BY <1>1 DEF Arrive
<1> HIDE DEF c, g
<1>4. Comes(y, b)
  BY <1>1, <1>2, <1>3, ComesRead
<1>5. y \in Conn
  BY <1>1, <1>2, FetchedFacts
<1> HIDE DEF y
<1>6. Comes(y, <<>>)
  BY <1>2, <1>4, <1>5, ComesEmpty
<1> QED BY <1>4, <1>6 DEF y, c

(* recv() of the client, with or without all of a reply. *)
LEMMA ReadArrive ==
  ASSUME Base, Arrive, NEW t \in Threads, Read(t)
  PROVE  Arrive'
<1> DEFINE x == thread[t]
<1>0. Types /\ Control
  BY DEF Base
<1>1. /\ x.pc = "read" /\ \E n, b : Got(t, n, b)
      /\ UNCHANGED <<peer, issued, current, faults>>
  BY <1>0, ReadFacts
<1>2. PICK n, b : Got(t, n, b)
  BY <1>1
<1> DEFINE y == Fetched(conns[current], n)
           z == [thread[t] EXCEPT !.buffer = b]
<1>3. Comes(y, b) /\ Comes(y, <<>>)
  BY <1>1, <1>2, GotComes
<1>4. Changed(current, y)
  BY <1>2 DEF Got
<1>5. peer = "app_server" /\ current \in 1..Len(conns)
  BY <1>0, <1>1, HolderFacts
<1> HIDE DEF y
<1>6. \A k \in 1..Len(conns') : Comes(conns'[k], <<>>)
  BY <1>3, <1>4, <1>5 DEF Changed, Arrive
<1>7. conns'[current'] = y
  BY <1>1, <1>4 DEF Changed
<1>8. CASE Moved(t, z)
  <2>1. z.buffer = b
    <3>1. \A d : LET w == [thread[t] EXCEPT !.buffer = d] IN w.buffer = d
      BY <1>0, CallFields
    <3> QED BY <3>1
  <2> HIDE DEF z
  <2> QED BY <1>1, <1>3, <1>6, <1>7, <1>8, <2>1, ArriveMoved
<1>9. ASSUME NEW r, Moved(t, [thread[t] EXCEPT !.pc = "idle", !.buffer = <<>>, !.result = r])
      PROVE  Arrive'
  <2> DEFINE v == [thread[t] EXCEPT !.pc = "idle", !.buffer = <<>>, !.result = r]
  <2>1. v.pc = "idle" /\ Moved(t, v)
    <3>1. \A q : LET w == [thread[t] EXCEPT !.pc = "idle", !.buffer = <<>>, !.result = q]
                 IN w.pc = "idle"
      BY <1>0, CallFields
    <3> QED BY <1>9, <3>1
  <2> HIDE DEF v
  <2> QED BY <1>1, <1>6, <2>1, ArriveMoved
<1> QED BY <1>2, <1>8, <1>9 DEF Got

(* Each step of handle_client, or of the network. *)
LEMMA ServerArrive ==
  ASSUME Base, Arrive, NEW c \in 1..Len(conns),
         Recv(c) \/ Handle(c) \/ Leave(c) \/ Stop(c) \/ Reset(c)
  PROVE  Arrive'
<1> DEFINE x == conns[c]
<1>0. /\ Types /\ x \in Conn /\ Stream(issued, peer, x) /\ issued \in Seq(DOMAIN Answer)
  BY ConnOf, TypeFacts DEF Base, Streams1
<1>1. ASSUME NEW y, Changed(c, y), Serves, y.executed = x.executed,
             \/ y.s2c = x.s2c /\ (y.state = "open" => x.state = "open")
             \/ y.s2c = <<>> /\ y.state # "open"
      PROVE  Arrive'
  <2>1. \A b \in Seq(Byte) : Comes(x, b) => Comes(y, b)
    <3>1. CASE y.s2c = x.s2c /\ (y.state = "open" => x.state = "open")
      <4> HIDE DEF x
      <4> QED BY <1>1, <3>1, ComesKept
    <3>2. CASE y.s2c = <<>> /\ y.state # "open"
      <4> HIDE DEF x
      <4> QED BY <1>0, <1>1, <3>2, ComesDropped
    <3> QED BY <1>1, <3>1, <3>2
  <2> QED BY <1>1, <2>1, ArriveServed
<1>2. CASE Recv(c)
  <2>1. /\ \E n \in 1..Len(x.c2s) : Changed(c, Received(x, n))
        /\ Serves
    BY <1>0, <1>2, RecvFacts
  <2>2. PICK n \in 1..Len(x.c2s) : Changed(c, Received(x, n))
    BY <2>1
  <2> DEFINE y == Received(x, n)
  <2>3. y.executed = x.executed /\ y.s2c = x.s2c /\ y.state = x.state /\ Changed(c, y)
    <3>1. Changed(c, y)
      BY <2>2
    <3> HIDE DEF x
    <3> QED BY <1>0, <3>1, ReceivedFacts
  <2> HIDE DEF y
  <2> QED BY <1>1, <2>1, <2>3
<1>3. CASE Handle(c)
  <2> DEFINE frame == ParseFrame(x.buffer)
  <2>1. ~x.garbled /\ frame.tag = "ok" => frame.value \in DOMAIN Answer
    BY FrameKnown
  <2>2. /\ \/ /\ frame.tag = "ok"
              /\ frame.next \in 1..(Len(x.buffer) + 1)
              /\ Changed(c, Done(x, frame))
           \/ /\ frame.tag = "malformed"
              /\ Changed(c, Failed(x))
        /\ Serves
    BY <1>0, <1>3, <2>1, HandleFacts
  <2>3. peer = "app_server" => ~x.garbled
    BY <1>0 DEF Stream
  <2>4. CASE /\ frame.tag = "ok" /\ frame.next \in 1..(Len(x.buffer) + 1)
             /\ Changed(c, Done(x, frame))
    <3> DEFINE y == Done(x, frame)
               v == frame.value
    <3>1. /\ y.state = x.state /\ y.s2c = Out(x, EncodeReply(AnswerTo(v)))
          /\ ~x.garbled => y.executed = Append(x.executed, v)
      <4> HIDE DEF x
      <4> QED BY <1>0, <2>1, <2>4, DoneFacts
    <3>2. ~x.garbled => v \in DOMAIN Answer
      BY <2>1, <2>4
    <3>3. Changed(c, y)
      BY <2>4
    <3> HIDE DEF y, v
    <3>4. peer = "app_server" => \A b \in Seq(Byte) : Comes(x, b) => Comes(y, b)
      <4>1. ASSUME peer = "app_server", NEW b \in Seq(Byte), Comes(x, b) PROVE Comes(y, b)
        <5>1. v \in DOMAIN Answer /\ AnswerTo(v) = Answer[v] /\ y.executed = Append(x.executed, v)
          BY <2>3, <3>1, <3>2, <4>1, AnswerReply
        <5>2. y.s2c = Out(x, EncodeReply(Answer[v])) /\ y.state = x.state
          BY <3>1, <5>1
        <5> HIDE DEF x
        <5> QED BY <1>0, <4>1, <5>1, <5>2, ComesDone
      <4> QED BY <4>1
    <3> QED BY <2>2, <3>3, <3>4, ArriveServed
  <2>5. CASE frame.tag = "malformed" /\ Changed(c, Failed(x))
    <3> DEFINE y == Failed(x)
    <3>1. peer # "app_server"
      <4>1. SUFFICES ASSUME peer = "app_server" PROVE FALSE
        OBVIOUS
      <4>2. PICK queue : Queued(issued, peer, x, queue)
        BY <1>0, <2>3, <4>1 DEF Stream
      <4> HIDE DEF x
      <4> QED BY <1>0, <2>5, <4>1, <4>2, FrameOf
    <3>2. Changed(c, y)
      BY <2>5
    <3> HIDE DEF y
    <3> QED BY <2>2, <3>1, <3>2, ArriveServed
  <2> QED BY <2>2, <2>4, <2>5
<1>4. CASE Leave(c) \/ Stop(c) \/ Reset(c)
  <2>1. /\ Changed(c, Left(x)) \/ Changed(c, Stopped(x)) \/ Changed(c, Dead(x))
        /\ Serves
    BY <1>0, <1>4, EndingSteps
  <2>2. /\ Left(x).state = "reset" /\ Stopped(x).state = "eof" /\ Dead(x).state = "reset"
        /\ Left(x).s2c = x.s2c /\ Stopped(x).s2c = x.s2c /\ Dead(x).s2c = <<>>
        /\ \A y \in {Left(x), Stopped(x), Dead(x)} : y.executed = x.executed
    <3>1. x \in Conn
      BY <1>0
    <3> HIDE DEF x
    <3> QED BY <3>1, EndingFacts
  <2>3. \E y : /\ Changed(c, y) /\ y.executed = x.executed /\ y.state # "open"
               /\ y.s2c = x.s2c \/ y.s2c = <<>>
    BY <2>1, <2>2
  <2> QED BY <1>1, <2>1, <2>3
<1> QED BY <1>2, <1>3, <1>4

(* Every step. *)
LEMMA NextArrive == Base /\ Arrive /\ [Next]_vars => Arrive'
<1> SUFFICES ASSUME Base, Arrive, [Next]_vars PROVE Arrive'
  OBVIOUS
<1>1. ASSUME NEW t \in Threads, NEW tokens \in Calls[t], Begin(t, tokens) PROVE Arrive'
  BY <1>1, BeginArrive
<1>2. ASSUME NEW t \in Threads, ClientStep(t) PROVE Arrive'
  BY <1>2, EnterArrive, SendArrive, BrokenArrive, ReadArrive DEF ClientStep
<1>3. ASSUME NEW t \in Threads, TimesOut(t) PROVE Arrive'
  BY <1>3, BrokenArrive
<1>4. ASSUME NEW c \in DOMAIN conns, ServerStep(c) \/ Leave(c) \/ Stop(c) \/ Reset(c)
      PROVE  Arrive'
  <2>1. c \in 1..Len(conns)
    BY TypeFacts DEF Base
  <2> QED BY <1>4, <2>1, ServerArrive DEF ServerStep
<1>5. CASE UNCHANGED vars
  BY <1>5 DEF vars, Arrive
<1>6. Quiet => UNCHANGED vars
  BY DEF Quiet
<1> QED BY <1>1, <1>2, <1>3, <1>4, <1>5, <1>6 DEF Next

(* Whatever is on its way to the app server, or read by it, is a part of   *)
(* the stream of the answers, also after timeouts and retries.             *)
THEOREM ArriveAlways == Spec => []Arrive
<1>1. Spec => []Base
  BY BaseAlways
<1>2. Init => Arrive
  BY InitArrive
<1>3. Base /\ Arrive /\ [Next]_vars => Arrive'
  BY NextArrive
<1> QED BY <1>1, <1>2, <1>3, PTL DEF Spec

(* A result that is a value stands in what the server answered on one      *)
(* connection: all of an answer, unless a text in an answer reads like one. *)
Found(r, iss, cs) ==
  r.tag = "value" =>
    /\ \E c \in 1..Len(cs) : StandsIn(r.value, Answers(cs[c].executed))
    /\ \E i \in 1..Len(iss) : r.value = Answer[iss[i]] \/ HoldsArray(Answer[iss[i]])
FoundAll == \A t \in Threads : Found(thread[t].result, issued, conns)

(* The streams of answers grow, and so does the list of the commands.      *)
Extended ==
  /\ Len(conns') \in Nat /\ Len(conns) <= Len(conns')
  /\ \A c \in 1..Len(conns) :
       \/ conns'[c].executed = conns[c].executed
       \/ \E v \in DOMAIN Answer : conns'[c].executed = Append(conns[c].executed, v)
Longer ==
  /\ Len(issued') \in Nat /\ Len(issued) <= Len(issued')
  /\ \A i \in 1..Len(issued) : issued'[i] = issued[i]

(* More bytes at the end of a stream do not hide what stands in it.        *)
LEMMA StandsMore ==
  ASSUME NEW s \in Seq(Byte), NEW e \in Seq(Byte), NEW v, StandsIn(v, s)
  PROVE  StandsIn(v, s \o e)
<1>1. PICK i \in DOMAIN s : /\ ParseReply(SubSeq(s, i, Len(s))).tag = "ok"
                            /\ ParseReply(SubSeq(s, i, Len(s))).value = v
  BY DEF StandsIn
<1> DEFINE w == SubSeq(s, i, Len(s))
           z == s \o e
<1>2. w \in Seq(Byte) /\ i \in 1..Len(s)
  OBVIOUS
<1>3. i \in DOMAIN z /\ SubSeq(z, i, Len(z)) = w \o e
  <2> DEFINE k == i - 1
  <2>1. k \in 0..Len(s) /\ k + 1 = i /\ Len(z) = Len(s) + Len(e) /\ z \in Seq(Byte)
    BY <1>2
  <2>2. k \in 0..Len(z) /\ i \in DOMAIN z
    BY <1>2, <2>1
  <2> HIDE DEF k, w
  <2>3. /\ SubSeq(s, 1, k) \in Seq(Byte) /\ Len(SubSeq(s, 1, k)) = k
        /\ s = SubSeq(s, 1, k) \o w
    BY <2>1, SplitAt DEF w
  <2>4. z = SubSeq(s, 1, k) \o (w \o e)
    <3> DEFINE c == SubSeq(s, 1, k)
    <3>1. c \in Seq(Byte) /\ s = c \o w
      BY <2>3
    <3> HIDE DEF c
    <3>2. Same3(c, w, e)
      BY <1>2, <3>1, BytesSame
    <3>3. (c \o w) \o e = c \o (w \o e)
      BY ONLY <3>2 DEF Same3
    <3> QED BY ONLY <3>1, <3>3 DEF c, z
  <2> HIDE DEF z
  <2>5. /\ SubSeq(z, 1, k) \in Seq(Byte) /\ Len(SubSeq(z, 1, k)) = k
        /\ SubSeq(z, k + 1, Len(z)) \in Seq(Byte)
        /\ z = SubSeq(z, 1, k) \o SubSeq(z, k + 1, Len(z))
    BY <2>1, <2>2, SplitAt
  <2>6. w \o e \in Seq(Byte)
    BY <1>2
  <2>7. SubSeq(z, k + 1, Len(z)) = w \o e
    <3> DEFINE a == SubSeq(z, 1, k)
               b == SubSeq(z, k + 1, Len(z))
               c == SubSeq(s, 1, k)
               d == w \o e
    <3>1. /\ a \in Seq(Byte) /\ b \in Seq(Byte) /\ c \in Seq(Byte) /\ d \in Seq(Byte)
          /\ Len(a) = Len(c) /\ a \o b = c \o d
      BY <2>3, <2>4, <2>5, <2>6
    <3> HIDE DEF a, b, c, d
    <3>2. b = d
      BY <3>1, SameParts
    <3> QED BY <3>2 DEF b, d
  <2> QED BY <2>1, <2>2, <2>7
<1>4. ParseReply(w \o e) = ParseReply(w)
  <2>1. ParseReply(w) # Incomplete
    BY <1>1, Tags
  <2> HIDE DEF w
  <2> QED BY <1>2, <2>1, ReplyStable
<1> HIDE DEF z
<1> QED BY <1>1, <1>3, <1>4 DEF StandsIn, z

(* One connection answered, or was closed. *)
LEMMA OneGrew ==
  ASSUME Types, NEW c \in 1..Len(conns), NEW y, Changed(c, y) \/ Replaced(c, y),
         \/ y.executed = conns[c].executed
         \/ \E v \in DOMAIN Answer : y.executed = Append(conns[c].executed, v)
  PROVE  Extended
<1>1. Len(conns) \in Nat
  BY TypeFacts
<1>2. /\ Len(conns') \in Nat /\ Len(conns) <= Len(conns')
      /\ conns'[c] = y /\ \A k \in 1..Len(conns) : k # c => conns'[k] = conns[k]
  BY <1>1 DEF Changed, Replaced
<1> QED BY <1>2 DEF Extended

(* A step that leaves the connections alone. *)
LEMMA NoneGrew ==
  ASSUME Types, UNCHANGED conns
  PROVE  Extended
<1>1. Len(conns) \in Nat
  BY TypeFacts
<1> QED BY <1>1 DEF Extended

(* The steps of a call. *)
LEMMA CallGrows ==
  ASSUME Types, Control, NEW t \in Threads,
         Enter(t) \/ Send(t) \/ Broken(t) \/ TimesOut(t) \/ ReadEof(t) \/ Read(t)
  PROVE  Extended
<1>1. CASE Enter(t)
  <2>1. UNCHANGED conns \/ Added
    BY <1>1, EnterFacts
  <2>2. Len(conns) \in Nat
    BY TypeFacts
  <2> QED BY <2>1, <2>2, NoneGrew DEF Added, Extended
<1>2. ASSUME thread[t].pc \in {"send", "read"}
      PROVE  current \in 1..Len(conns) /\ conns[current] \in Conn
  BY <1>2, HolderFacts
<1> DEFINE x == conns[current]
<1>3. CASE Send(t)
  <2> DEFINE e == EncodeCommand(issued[thread[t].id])
             y == Commanded(x, thread[t].id, e)
  <2>1. e \in Seq(Byte) /\ Changed(current, y) /\ thread[t].pc = "send"
    BY <1>3, SendFacts
  <2>2. thread[t].id \in Nat
    BY <2>1, HolderFacts
  <2>3. current \in 1..Len(conns) /\ x \in Conn
    BY <1>2, <2>1
  <2> HIDE DEF e, x
  <2>4. y.executed = x.executed
    BY <2>1, <2>2, <2>3, CommandedFacts
  <2> HIDE DEF y
  <2> QED BY <2>1, <2>3, <2>4, OneGrew DEF x
<1>4. CASE Broken(t) \/ TimesOut(t) \/ ReadEof(t)
  <2>1. /\ thread[t].pc \in {"send", "read"}
        /\ Changed(current, Close(x)) \/ Changed(current, Lag(x)) \/ Replaced(current, Close(x))
    BY <1>4, BrokenFacts, ReadEofFacts DEF Retried, GaveUp, WasRefused
  <2>2. current \in 1..Len(conns) /\ x \in Conn
    BY <1>2, <2>1
  <2>3. Close(x).executed = x.executed /\ Lag(x).executed = x.executed
    <3> HIDE DEF x
    <3> QED BY <2>2, CloseFacts, LagFacts
  <2>4. PICK y : y.executed = x.executed /\ (Changed(current, y) \/ Replaced(current, y))
    BY <2>1, <2>3
  <2> QED BY <2>2, <2>4, OneGrew
<1>5. CASE Read(t)
  <2>1. thread[t].pc = "read" /\ \E n, b : Got(t, n, b)
    BY <1>5, ReadFacts
  <2>2. PICK n \in 1..Len(x.s2c) : Changed(current, Fetched(x, n))
    BY <2>1 DEF Got
  <2>3. current \in 1..Len(conns) /\ x \in Conn
    BY <1>2, <2>1
  <2> DEFINE y == Fetched(x, n)
  <2>4. y.executed = x.executed /\ Changed(current, y)
    <3>1. Changed(current, y)
      BY <2>2
    <3> HIDE DEF x
    <3> QED BY <2>3, <3>1, FetchedFacts
  <2> HIDE DEF y
  <2> QED BY <2>3, <2>4, OneGrew
<1> QED BY <1>1, <1>3, <1>4, <1>5

(* The steps of the server and of the network. *)
LEMMA ServerGrows ==
  ASSUME Base, NEW c \in 1..Len(conns),
         Recv(c) \/ Handle(c) \/ Leave(c) \/ Stop(c) \/ Reset(c)
  PROVE  Extended /\ Serves
<1> DEFINE x == conns[c]
<1>0. Types /\ x \in Conn
  BY ConnOf DEF Base
<1>1. CASE Recv(c)
  <2>1. Serves /\ \E n \in 1..Len(x.c2s) : Changed(c, Received(x, n))
    BY <1>0, <1>1, RecvFacts
  <2>2. PICK n \in 1..Len(x.c2s) : Changed(c, Received(x, n))
    BY <2>1
  <2> DEFINE y == Received(x, n)
  <2>3. y.executed = x.executed /\ Changed(c, y)
    <3>1. Changed(c, y)
      BY <2>2
    <3> HIDE DEF x
    <3> QED BY <1>0, <3>1, ReceivedFacts
  <2> HIDE DEF y
  <2> QED BY <1>0, <2>1, <2>3, OneGrew
<1>2. CASE Handle(c)
  <2> DEFINE frame == ParseFrame(x.buffer)
  <2>1. ~x.garbled /\ frame.tag = "ok" => frame.value \in DOMAIN Answer
    BY FrameKnown
  <2>2. /\ \/ /\ frame.tag = "ok"
              /\ frame.next \in 1..(Len(x.buffer) + 1)
              /\ Changed(c, Done(x, frame))
           \/ /\ frame.tag = "malformed"
              /\ Changed(c, Failed(x))
        /\ Serves
    BY <1>0, <1>2, <2>1, HandleFacts
  <2>3. CASE /\ frame.tag = "ok" /\ frame.next \in 1..(Len(x.buffer) + 1)
             /\ Changed(c, Done(x, frame))
    <3> DEFINE y == Done(x, frame)
               v == frame.value
    <3>1. /\ x.garbled => y.executed = x.executed
          /\ ~x.garbled => y.executed = Append(x.executed, v)
      <4> HIDE DEF x
      <4> QED BY <1>0, <2>1, <2>3, DoneFacts
    <3>2. ~x.garbled => v \in DOMAIN Answer
      BY <2>1, <2>3
    <3>3. Changed(c, y)
      BY <2>3
    <3> HIDE DEF y, v
    <3> QED BY <1>0, <2>2, <3>1, <3>2, <3>3, OneGrew
  <2>4. CASE frame.tag = "malformed" /\ Changed(c, Failed(x))
    <3> DEFINE y == Failed(x)
    <3>1. y.executed = x.executed
      <4> HIDE DEF x
      <4> QED BY <1>0, FailedFacts
    <3>2. Changed(c, y)
      BY <2>4
    <3> HIDE DEF y
    <3> QED BY <1>0, <2>2, <3>1, <3>2, OneGrew
  <2> QED BY <2>2, <2>3, <2>4
<1>3. CASE Leave(c) \/ Stop(c) \/ Reset(c)
  <2>1. /\ Changed(c, Left(x)) \/ Changed(c, Stopped(x)) \/ Changed(c, Dead(x))
        /\ Serves
    BY <1>0, <1>3, EndingSteps
  <2>2. \A y \in {Left(x), Stopped(x), Dead(x)} : y.executed = x.executed
    <3>1. x \in Conn
      BY <1>0
    <3> HIDE DEF x
    <3> QED BY <3>1, EndingFacts
  <2>3. \E y : Changed(c, y) /\ y.executed = x.executed
    BY <2>1, <2>2
  <2> QED BY <1>0, <2>1, <2>3, OneGrew
<1> QED BY <1>1, <1>2, <1>3

(* What was found stays where it is. *)
LEMMA FoundKept ==
  ASSUME Types, NEW r, Found(r, issued, conns), Extended, Longer
  PROVE  Found(r, issued', conns')
<1> SUFFICES ASSUME r.tag = "value"
             PROVE  /\ \E c \in 1..Len(conns') : StandsIn(r.value, Answers(conns'[c].executed))
                    /\ \E i \in 1..Len(issued') : \/ r.value = Answer[issued'[i]]
                                                  \/ HoldsArray(Answer[issued'[i]])
  BY DEF Found
<1>1. PICK c \in 1..Len(conns) : StandsIn(r.value, Answers(conns[c].executed))
  BY DEF Found
<1>2. PICK i \in 1..Len(issued) : r.value = Answer[issued[i]] \/ HoldsArray(Answer[issued[i]])
  BY DEF Found
<1>3. c \in 1..Len(conns') /\ i \in 1..Len(issued') /\ issued'[i] = issued[i]
  BY TypeFacts DEF Extended, Longer
<1>4. StandsIn(r.value, Answers(conns'[c].executed))
  <2> DEFINE q == conns[c].executed
  <2>1. q \in Seq(DOMAIN Answer)
    BY ConnOf DEF Conn
  <2>2. conns'[c].executed = q \/ \E v \in DOMAIN Answer : conns'[c].executed = Append(q, v)
    BY DEF Extended
  <2> HIDE DEF q
  <2>3. ASSUME NEW v \in DOMAIN Answer, conns'[c].executed = Append(q, v)
        PROVE  StandsIn(r.value, Answers(conns'[c].executed))
    <3>1. Answers(Append(q, v)) = Answers(q) \o EncodeReply(Answer[v]) /\ Answers(q) \in Seq(Byte)
      BY <2>1, AnswersFacts
    <3>2. EncodeReply(Answer[v]) \in Seq(Byte)
      BY AnswerBytes
    <3>3. StandsIn(r.value, Answers(q))
      BY <1>1 DEF q
    <3> QED BY <2>3, <3>1, <3>2, <3>3, StandsMore
  <2> QED BY <1>1, <2>2, <2>3 DEF q
<1> QED BY <1>2, <1>3, <1>4

(* What was executed is what some call sent. *)
LEMMA ExecutedIssued ==
  ASSUME Base, NEW c \in 1..Len(conns), NEW k \in 1..Len(conns[c].executed)
  PROVE  \E i \in 1..Len(issued) : conns[c].executed[k] = issued[i]
<1> DEFINE x == conns[c]
<1>1. x \in Conn /\ Stream(issued, peer, x) /\ issued \in Seq(DOMAIN Answer)
  BY ConnOf, TypeFacts DEF Base, Streams1
<1>2. k \in DOMAIN conns[c].executed
  BY <1>1 DEF Conn
<1>3. k \in 1..Len(x.sent)
  BY <1>2, ExecutedFirst
<1>4. k \in 1..Len(x.executed)
  OBVIOUS
<1> HIDE DEF x
<1>5. /\ Commands(issued, x)[k] = issued[x.sent[k]] /\ x.sent[k] \in 1..Len(issued)
      /\ x.executed \in Seq(DOMAIN Answer)
  BY <1>1, <1>3, CommandsFacts DEF Stream
<1>6. Commands(issued, x)[k] = x.executed[k]
  <2>1. CASE Commands(issued, x) = x.executed
    BY <2>1
  <2>2. ASSUME NEW q \in Seq(DOMAIN Answer), Commands(issued, x) = x.executed \o q
        PROVE  Commands(issued, x)[k] = x.executed[k]
    BY <1>4, <1>5, <2>2
  <2> QED BY <1>1, <2>1, <2>2 DEF Stream, Queued
<1> QED BY <1>5, <1>6 DEF x

(* What the client makes of a part of the stream of answers. *)
LEMMA ReadFound ==
  ASSUME Base, Arrive, NEW t \in Threads, thread[t].pc = "read",
         NEW n, NEW b, Got(t, n, b),
         NEW r, Decoded(r, ParseReply(b), Len(b), Shape[issued[thread[t].id][1][1]])
  PROVE  Found(r, issued, conns)
<1> SUFFICES ASSUME r.tag = "value"
             PROVE  /\ \E c \in 1..Len(conns) : StandsIn(r.value, Answers(conns[c].executed))
                    /\ \E i \in 1..Len(issued) : \/ r.value = Answer[issued[i]]
                                                 \/ HoldsArray(Answer[issued[i]])
  BY DEF Found
<1> DEFINE c == conns[current]
           y == Fetched(c, n)
           q == c.executed
           p == ParseReply(b)
<1>1. p.tag = "ok" /\ r.value = p.value /\ Is(p.value, "array")
  BY ResultTags DEF Decoded, Fits
<1>2. current \in 1..Len(conns) /\ c \in Conn
  BY HolderFacts DEF Base
<1>3. n \in 1..Len(c.s2c) /\ b \in Seq(Byte)
  BY DEF Got
<1>4. Comes(y, b)
  BY GotComes
<1>5. q \in Seq(DOMAIN Answer)
  BY <1>2 DEF Conn
<1>6. y.executed = q /\ y \in Conn
  <2> HIDE DEF c
  <2> QED BY <1>2, <1>3, FetchedFacts
<1> HIDE DEF y, p
<1>7. PICK a, d \in Seq(Byte) : Answers(q) = a \o ((b \o y.s2c) \o d)
  BY <1>4, <1>6 DEF Comes
<1> DEFINE s == y.s2c
           e == s \o d
<1>8. s \in Seq(Byte)
  BY <1>6 DEF Conn
<1>9. e \in Seq(Byte) /\ (b \o s) \o d = b \o e
  <2> HIDE DEF s
  <2>1. e \in Seq(Byte)
    BY <1>7, <1>8
  <2>2. (b \o s) \o d = b \o (s \o d)
    BY <1>3, <1>7, <1>8, BytesAssoc
  <2> QED BY <2>1, <2>2
<1>10. Answers(q) = a \o (b \o e)
  BY <1>7, <1>9
<1> HIDE DEF q, s, e
<1>11. StandsIn(p.value, Answers(q))
  <2> DEFINE w == b \o e
             z == a \o w
             i == Len(a) + 1
  <2>1. b # <<>>
    BY <1>1, <1>3, ArrayKind DEF p
  <2>2. w \in Seq(Byte) /\ w # <<>> /\ Answers(q) = z
    BY <1>3, <1>9, <1>10, <2>1
  <2>3. ParseReply(w) = p
    <3>1. p # Incomplete
      BY <1>1, Tags
    <3> QED BY <1>3, <1>9, <3>1, ReplyStable DEF p
  <2> HIDE DEF w
  <2>4. i \in DOMAIN z /\ SubSeq(z, i, Len(z)) = w
    BY <1>7, <2>2
  <2> HIDE DEF z, i
  <2>5. StandsIn(p.value, z)
    BY <1>1, <2>3, <2>4, Zenon DEF StandsIn
  <2> QED BY <2>2, <2>5
<1>12. \E i \in 1..Len(issued) : r.value = Answer[issued[i]] \/ HoldsArray(Answer[issued[i]])
  <2>1. \A k \in 1..Len(q) : \E i \in 1..Len(issued) : q[k] = issued[i]
    BY <1>2, ExecutedIssued DEF q
  <2>2. CASE \E k \in 1..Len(q) : HoldsArray(Answer[q[k]])
    BY <2>1, <2>2
  <2>3. CASE Plain(q)
    <3>1. \E k \in 1..Len(q) : ParseReply(b).value = Answer[q[k]]
      BY <1>1, <1>3, <1>5, <1>7, <1>9, <1>10, <2>3, AnswerFound DEF p
    <3>2. PICK k \in 1..Len(q) : p.value = Answer[q[k]]
      BY <3>1 DEF p
    <3> QED BY <1>1, <2>1, <3>2
  <2> QED BY <2>2, <2>3 DEF Plain
<1> QED BY <1>1, <1>2, <1>11, <1>12 DEF q

(* A call that moved returned nothing yet, or what it found. *)
LEMMA FoundMoved ==
  ASSUME Types, FoundAll, NEW t \in Threads, NEW z, Moved(t, z), Found(z.result, issued, conns),
         Extended, Longer
  PROVE  FoundAll'
<1>1. ASSUME NEW u \in Threads PROVE Found(thread'[u].result, issued, conns)
  <2>1. CASE u = t
    BY <2>1 DEF Moved
  <2>2. CASE u # t
    BY <2>2 DEF Moved, FoundAll
  <2> QED BY <2>1, <2>2
<1>2. ASSUME NEW u \in Threads PROVE Found(thread'[u].result, issued', conns')
  BY <1>1, FoundKept
<1> QED BY <1>2 DEF FoundAll

(* A call begins. *)
LEMMA BeginFound ==
  ASSUME Base, FoundAll, NEW t \in Threads, NEW tokens \in Calls[t], Begin(t, tokens)
  PROVE  FoundAll'
<1> DEFINE z == [NoCall EXCEPT !.pc = "lock", !.id = Len(issued) + 1]
<1>1. /\ issued' = Append(issued, tokens) /\ tokens \in DOMAIN Answer
      /\ Moved(t, z)
  BY BeginFacts DEF Base
<1>2. Found(z.result, issued, conns)
  <2>1. z.result.tag # "value"
    BY NewCallFields, ResultTags
  <2> HIDE DEF z
  <2> QED BY <2>1 DEF Found
<1> HIDE DEF z
<1>3. Longer
  BY <1>1, TypeFacts DEF Base, Longer
<1>4. Extended
  BY NoneGrew DEF Base, Begin
<1> QED BY <1>1, <1>2, <1>3, <1>4, FoundMoved DEF Base

(* The lock is taken, the command sent, or the connection lost. *)
LEMMA CallFound ==
  ASSUME Base, FoundAll, NEW t \in Threads,
         Enter(t) \/ Send(t) \/ Broken(t) \/ TimesOut(t) \/ ReadEof(t)
  PROVE  FoundAll'
<1> DEFINE x == thread[t]
           none == [tag |-> "none"]
<1>0. Types /\ Control
  BY DEF Base
<1>1. x.pc \in {"lock", "send", "read"} /\ UNCHANGED issued
  BY <1>0, EnterFacts, SendFacts, BrokenFacts, ReadEofFacts DEF Retried, GaveUp, WasRefused
<1>2. x.result = none
  BY <1>0, <1>1 DEF Control, CallOK
<1>3. \E z : Moved(t, z) /\ z.result \in {none, Upstream}
  <2> DEFINE ended == [thread[t] EXCEPT !.pc = "idle", !.buffer = <<>>, !.result = Upstream]
             entered == [thread[t] EXCEPT !.pc = "send"]
             sent == [thread[t] EXCEPT !.pc = "read", !.clean = ~conns[current].lagging]
             retried == [thread[t] EXCEPT !.pc = "send", !.attempt = 2, !.buffer = <<>>]
  <2>1. Moved(t, ended) \/ Moved(t, entered) \/ Moved(t, sent) \/ Moved(t, retried)
    BY <1>0, EnterFacts, SendFacts, BrokenFacts, ReadEofFacts DEF Retried, GaveUp, WasRefused
  <2>2. ended.result = Upstream /\ entered.result = x.result /\ retried.result = x.result
    BY <1>0, CallFields
  <2>3. sent.result = x.result
    <3>1. \A k : LET w == [thread[t] EXCEPT !.pc = "read", !.clean = k] IN w.result = x.result
      BY <1>0, CallFields
    <3> QED BY <3>1
  <2> HIDE DEF ended, entered, sent, retried
  <2> QED BY <1>2, <2>1, <2>2, <2>3
<1>4. PICK z : Moved(t, z) /\ z.result \in {none, Upstream}
  BY <1>3
<1>5. Found(z.result, issued, conns)
  BY <1>4, ResultTags DEF Found
<1>6. Longer
  BY <1>0, <1>1, TypeFacts DEF Longer
<1>7. Extended
  BY <1>0, CallGrows
<1> QED BY <1>0, <1>4, <1>5, <1>6, <1>7, FoundMoved

(* recv() of the client, with or without all of a reply. *)
LEMMA ReadFoundAll ==
  ASSUME Base, Arrive, FoundAll, NEW t \in Threads, Read(t)
  PROVE  FoundAll'
<1> DEFINE x == thread[t]
<1>0. Types /\ Control
  BY DEF Base
<1>1. /\ x.pc = "read" /\ \E n, b : Got(t, n, b)
      /\ UNCHANGED issued
  BY <1>0, ReadFacts
<1>2. PICK n, b : Got(t, n, b)
  BY <1>1
<1>3. Longer /\ Extended
  BY <1>0, <1>1, TypeFacts, CallGrows DEF Longer
<1> DEFINE z == [thread[t] EXCEPT !.buffer = b]
<1>4. CASE Moved(t, z)
  <2>1. z.result = x.result
    <3>1. \A d : LET w == [thread[t] EXCEPT !.buffer = d] IN w.result = x.result
      BY <1>0, CallFields
    <3> QED BY <3>1
  <2>2. Found(z.result, issued, conns)
    BY <2>1 DEF FoundAll
  <2> HIDE DEF z
  <2> QED BY <1>0, <1>3, <1>4, <2>2, FoundMoved
<1>5. ASSUME NEW r, Decoded(r, ParseReply(b), Len(b), Shape[issued[thread[t].id][1][1]]),
             Moved(t, [thread[t] EXCEPT !.pc = "idle", !.buffer = <<>>, !.result = r])
      PROVE  FoundAll'
  <2> DEFINE v == [thread[t] EXCEPT !.pc = "idle", !.buffer = <<>>, !.result = r]
  <2>1. v.result = r /\ Moved(t, v)
    <3>1. \A d : LET w == [thread[t] EXCEPT !.pc = "idle", !.buffer = <<>>, !.result = d]
                 IN w.result = d
      BY <1>0, CallFields
    <3> QED BY <1>5, <3>1
  <2> HIDE DEF v
  <2>2. Found(r, issued, conns)
    <3>1. thread[t].pc = "read" /\ Got(t, n, b)
      BY <1>1, <1>2
    <3>2. Decoded(r, ParseReply(b), Len(b), Shape[issued[thread[t].id][1][1]])
      BY <1>5
    <3>3. Base /\ Arrive
      OBVIOUS
    <3> QED BY ONLY <3>1, <3>2, <3>3, ReadFound
  <2> QED BY <1>0, <1>3, <2>1, <2>2, FoundMoved
<1> QED BY <1>2, <1>4, <1>5 DEF Got

(* Every step. *)
LEMMA NextFound == Base /\ Arrive /\ FoundAll /\ [Next]_vars => FoundAll'
<1> SUFFICES ASSUME Base, Arrive, FoundAll, [Next]_vars PROVE FoundAll'
  OBVIOUS
<1>1. ASSUME NEW t \in Threads, NEW tokens \in Calls[t], Begin(t, tokens) PROVE FoundAll'
  BY <1>1, BeginFound
<1>2. ASSUME NEW t \in Threads, ClientStep(t) PROVE FoundAll'
  BY <1>2, CallFound, ReadFoundAll DEF ClientStep
<1>3. ASSUME NEW t \in Threads, TimesOut(t) PROVE FoundAll'
  BY <1>3, CallFound
<1>4. ASSUME NEW c \in DOMAIN conns, ServerStep(c) \/ Leave(c) \/ Stop(c) \/ Reset(c)
      PROVE  FoundAll'
  <2>1. c \in 1..Len(conns)
    BY TypeFacts DEF Base
  <2>2. Extended /\ Serves
    BY <1>4, <2>1, ServerGrows DEF ServerStep
  <2>3. Longer
    BY <2>2, TypeFacts DEF Longer, Serves, Base
  <2>4. ASSUME NEW t \in Threads PROVE Found(thread'[t].result, issued', conns')
    <3>1. thread'[t] = thread[t] /\ Found(thread[t].result, issued, conns)
      BY <2>2 DEF Serves, FoundAll
    <3> QED BY <2>2, <2>3, <3>1, FoundKept DEF Base
  <2> QED BY <2>4 DEF FoundAll
<1>5. CASE UNCHANGED vars
  BY <1>5 DEF vars, FoundAll
<1>6. Quiet => UNCHANGED vars
  BY DEF Quiet
<1> QED BY <1>1, <1>2, <1>3, <1>4, <1>5, <1>6 DEF Next

(* What was said of each call, as OwnReply says it. *)
LEMMA ResultsOwnReply == Base /\ Results /\ FoundAll => OwnReply
<1> SUFFICES ASSUME Base, Results, FoundAll PROVE OwnReply
  OBVIOUS
<1>1. DOMAIN issued = 1..Len(issued) /\ DOMAIN conns = 1..Len(conns)
  BY TypeFacts DEF Base
<1>2. ASSUME NEW t \in Threads
      PROVE  LET x == thread[t]
             IN /\ (x.result.tag = "value" /\ x.clean) => x.result.value = Answer[issued[x.id]]
                /\ (x.result.tag = "conflict" /\ x.clean) => Answer[issued[x.id]] = ErrorReply
  <2> DEFINE x == thread[t]
  <2>1. (x.clean /\ x.result.tag \in {"value", "conflict"}) =>
          x.id \in 1..Len(issued) /\ Tells(x.result, issued[x.id])
    BY DEF Results, Answered
  <2> HIDE DEF x
  <2>2. ASSUME x.result.tag = "value", x.clean PROVE x.result.value = Answer[issued[x.id]]
    <3>1. x.result = Value(Answer[issued[x.id]])
      BY <2>1, <2>2, ResultTags DEF Tells
    <3> QED BY <3>1, ResultTags
  <2>3. ASSUME x.result.tag = "conflict", x.clean PROVE Answer[issued[x.id]] = ErrorReply
    BY <2>1, <2>3, ResultTags DEF Tells
  <2> QED BY <2>2, <2>3 DEF x
<1>3. ASSUME NEW t \in Threads, thread[t].result.tag = "value"
      PROVE  /\ \E c \in DOMAIN conns : StandsIn(thread[t].result.value, Answers(conns[c].executed))
             /\ \E i \in DOMAIN issued : \/ thread[t].result.value = Answer[issued[i]]
                                         \/ HoldsArray(Answer[issued[i]])
  BY <1>1, <1>3 DEF FoundAll, Found
<1> QED BY <1>2, <1>3 DEF OwnReply

(* THEOREM: a call returns the answer to its own command, or, after a call *)
(* that gave up on the same connection, what stands in the bytes of one    *)
(* connection: at worst the whole answer to another command, unless a text *)
(* in an answer holds the byte that begins an array.                       *)
THEOREM OwnReplyAlways == Spec => []OwnReply
<1>1. Spec => []Base
  BY BaseAlways
<1>2. Spec => []Arrive
  BY ArriveAlways
<1>3. Spec => []Results
  BY ResultsAlways
<1>4. Init => FoundAll
  <2> SUFFICES ASSUME Init, NEW t \in Threads PROVE Found(thread[t].result, issued, conns)
    BY DEF FoundAll
  <2>1. thread[t].result = [tag |-> "none"]
    BY DEF Init, NoCall
  <2> QED BY <2>1, ResultTags DEF Found
<1>5. Base /\ Arrive /\ FoundAll /\ [Next]_vars => FoundAll'
  BY NextFound
<1>6. Base /\ Results /\ FoundAll => OwnReply
  BY ResultsOwnReply
<1> QED BY <1>1, <1>2, <1>3, <1>4, <1>5, <1>6, PTL DEF Spec
=============================================================================
