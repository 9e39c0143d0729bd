------------------------ MODULE MiniRedisServerProofs ------------------------
(***************************************************************************)
(* Theorems about the threads of the Mini Redis process, for every set of  *)
(* peers and every number of commands, starts, crashes and failed saves.   *)
(***************************************************************************)
EXTENDS MiniRedisServer, SequenceTheorems, TLAPS

(* What holds while the process is down: no thread, no connection and no   *)
(* queued command is left.                                                 *)
DownInv ==
  main.pc = "none" => /\ saver.pc = "none" /\ ~worker /\ queue = <<>>
                      /\ \A c \in Clients : conn[c] = NoConn

(* A queued command is the one that its connection waits for, and no       *)
(* connection has two of them in the queue.                                *)
QueuedInv ==
  /\ \A i \in 1..Len(queue) : queue[i] # Sentinel =>
       /\ conn[queue[i].client].pc = "wait"
       /\ Head(conn[queue[i].client].buffer) = queue[i]
  /\ \A i, j \in 1..Len(queue) :
       (queue[i] # Sentinel /\ queue[j] # Sentinel /\ queue[i].client = queue[j].client) => i = j

(* The buffer of a connection holds the last commands that it read, one    *)
(* after the other.                                                        *)
Ordered(b, c, s) == \A i \in 1..Len(b) : b[i].client = c /\ b[i].n = s - Len(b) + i

(* What was answered comes before what is still buffered. *)
AnsweredBefore(rs, b, s) ==
  \A i \in 1..Len(rs) : rs[i].n =< s /\ \A j \in 1..Len(b) : rs[i].n < b[j].n

(* What was executed does so too, except for the command that a connection *)
(* is answering with "ok".                                                 *)
Acknowledging(x) == x.pc = "send" /\ x.result = "ok"

ExecutedBefore(n, x, s) ==
  n =< s /\ \A j \in 1..Len(x.buffer) : n < x.buffer[j].n \/ (j = 1 /\ Acknowledging(x))

(* Nothing that an open connection read is lost: ExactlyOnce's lower bound. *)
Accounted(c) == conn[c].peer =>
  \A n \in (conn[c].first + 1)..sent[c] : Waiting(c, n) \/ Answered(c, n) \/ Dropped(c, n)

(* The commands of one connection. *)
InOrder(c) ==
  /\ Ordered(conn[c].buffer, c, sent[c])
  /\ AnsweredBefore(replies[c], conn[c].buffer, sent[c])
  /\ InTurn(replies[c])
  /\ Acknowledging(conn[c]) => <<c, Head(conn[c].buffer).n>> \in ToSet(store)
  /\ Accounted(c)

(* The store has no write twice and none that was answered by anything but *)
(* "ok".                                                                   *)
Refused(rs, n) == \E x \in ToSet(rs) : x.n = n /\ x.result # "ok"

StoreInOrder ==
  /\ IsInjective(store)
  /\ \A i \in 1..Len(store) : \A c \in Clients : store[i][1] = c =>
       ExecutedBefore(store[i][2], conn[c], sent[c]) /\ ~Refused(replies[c], store[i][2])

OrderInv == StoreInOrder /\ \A c \in Clients : InOrder(c)

(* A sequence of writes that a store may start from. *)
Sound(s) == /\ IsInjective(s)
            /\ \A i \in 1..Len(s) : s[i][2] =< sent[s[i][1]] /\ ~Refused(replies[s[i][1]], s[i][2])

(* Every snapshot, on disk or about to be written, is a prefix of the      *)
(* store; of a server that is down, the file alone remains.                *)
SnapshotInv ==
  /\ main.pc # "none" => IsPrefix(disk, store)
  /\ main.pc = "save" => IsPrefix(main.entries, store)
  /\ saver.pc = "save" => IsPrefix(saver.entries, store)
  /\ main.pc = "none" => Sound(disk)

(* From the final copy of the store on, what the copy and then, unless it  *)
(* was overtaken, the file lacks of the store is late.                     *)
LateInv ==
  /\ main.pc = "save" => ToSet(store) \subseteq ToSet(main.entries) \cup late
  /\ (main.pc \in Flushed /\ ~overtaken) => ToSet(store) \subseteq ToSet(disk) \cup late

(* The inductive invariant. *)
IInv == /\ TypeOK
        /\ DownInv
        /\ QueuedInv
        /\ OrderInv
        /\ SnapshotInv
        /\ LateInv

-----------------------------------------------------------------------------
(* Prefixes and sequences without repetition. *)

(* A prefix agrees with the longer sequence as far as it goes. *)
LEMMA PrefixPointwise ==
  ASSUME NEW S, NEW s \in Seq(S), NEW t \in Seq(S)
  PROVE  IsPrefix(s, t) <=> /\ Len(s) =< Len(t)
                            /\ \A i \in 1..Len(s) : s[i] = t[i]
<1>1. Len(s) \in Nat /\ Len(t) \in Nat
  OBVIOUS
<1>2. SUFFICES ASSUME Len(s) =< Len(t)
               PROVE  SubSeq(s, 1, Len(s)) = SubSeq(t, 1, Len(s))
                        <=> \A i \in 1..Len(s) : s[i] = t[i]
  BY <1>1 DEF IsPrefix
<1>3. /\ SubSeq(s, 1, Len(s)) \in Seq(S) /\ Len(SubSeq(s, 1, Len(s))) = Len(s)
      /\ \A i \in 1..Len(s) : SubSeq(s, 1, Len(s))[i] = s[i]
  BY <1>1
<1>4. /\ SubSeq(t, 1, Len(s)) \in Seq(S) /\ Len(SubSeq(t, 1, Len(s))) = Len(s)
      /\ \A i \in 1..Len(s) : SubSeq(t, 1, Len(s))[i] = t[i]
  BY <1>1, <1>2
<1>5. ASSUME \A i \in 1..Len(s) : s[i] = t[i]
      PROVE  SubSeq(s, 1, Len(s)) = SubSeq(t, 1, Len(s))
  BY <1>3, <1>4, <1>5, SeqEqual
<1>6. ASSUME SubSeq(s, 1, Len(s)) = SubSeq(t, 1, Len(s))
      PROVE  \A i \in 1..Len(s) : s[i] = t[i]
  BY <1>3, <1>4, <1>6
<1> QED BY <1>5, <1>6

(* A sequence is a prefix of itself, and stays one of whatever grows. *)
LEMMA PrefixGrows ==
  ASSUME NEW S, NEW s \in Seq(S), NEW t \in Seq(S)
  PROVE  /\ IsPrefix(t, t)
         /\ IsPrefix(<<>>, t)
         /\ \A x \in S : IsPrefix(s, t) => IsPrefix(s, Append(t, x))
<1>1. Len(s) \in Nat /\ Len(t) \in Nat
  OBVIOUS
<1>2. <<>> \in Seq(S) /\ Len(<<>>) = 0
  OBVIOUS
<1>3. IsPrefix(t, t) /\ IsPrefix(<<>>, t)
  <2>1. IsPrefix(t, t)
    BY <1>1, PrefixPointwise
  <2>2. IsPrefix(<<>>, t)
    BY <1>1, <1>2 DEF IsPrefix
  <2> QED BY <2>1, <2>2
<1>4. ASSUME NEW x \in S, IsPrefix(s, t)
      PROVE  IsPrefix(s, Append(t, x))
  <2> DEFINE r == Append(t, x)
  <2>1. r \in Seq(S) /\ Len(r) = Len(t) + 1 /\ \A i \in 1..Len(t) : r[i] = t[i]
    OBVIOUS
  <2>2. Len(s) =< Len(t) /\ \A i \in 1..Len(s) : s[i] = t[i]
    BY <1>4, PrefixPointwise
  <2> HIDE DEF r
  <2>3. IsPrefix(s, r)
    BY <1>1, <2>1, <2>2, PrefixPointwise
  <2> QED BY <2>3 DEF r
<1> QED BY <1>3, <1>4

(* A sequence that grows keeps its elements and gets one more. *)
LEMMA ToSetGrows ==
  ASSUME NEW S, NEW t \in Seq(S), NEW x \in S
  PROVE  ToSet(Append(t, x)) = ToSet(t) \cup {x}
<1>1. /\ DOMAIN t = 1..Len(t) /\ DOMAIN Append(t, x) = 1..(Len(t) + 1) /\ Len(t) \in Nat
      /\ \A i \in 1..Len(t) : Append(t, x)[i] = t[i]
      /\ Append(t, x)[Len(t) + 1] = x
  OBVIOUS
<1>2. ASSUME NEW i \in 1..Len(t) PROVE t[i] \in ToSet(Append(t, x))
  BY <1>1 DEF ToSet
<1>3. ASSUME NEW i \in 1..(Len(t) + 1) PROVE Append(t, x)[i] \in ToSet(t) \cup {x}
  <2>1. i \in 1..Len(t) \/ i = Len(t) + 1
    BY <1>1
  <2> QED BY <1>1, <2>1 DEF ToSet
<1>4. x \in ToSet(Append(t, x))
  BY <1>1 DEF ToSet
<1> QED BY <1>1, <1>2, <1>3, <1>4 DEF ToSet

-----------------------------------------------------------------------------
(* Types. *)

(* The keys of queued and buffered commands are keys of the store. *)
LEMMA MessageTypes ==
  /\ Sentinel \notin Messages
  /\ \A m \in Messages : Key(m) \in Keys
  /\ \A c \in Clients, n \in Nat \ {0}, k \in Kinds : Command(c, n, k) \in Messages
BY KindAssumption DEF Sentinel, Messages, Key, Keys, Command

(* A thread that has ended, or starts. *)
LEMMA ThreadTypes ==
  /\ \A p \in {"none", "serve", "join_saver"} : [NoThread EXCEPT !.pc = p] \in MainThreads
  /\ \A p \in {"none", "wait", "take", "gone"} : [NoThread EXCEPT !.pc = p] \in Savers
  /\ NoThread \in MainThreads /\ NoThread \in Savers
  /\ NoConn \in Connections /\ Ready(NoConn)
  /\ <<>> \in Seq(Keys) /\ <<>> \in Seq(Messages) /\ <<>> \in Seq(Messages \cup {Sentinel})
<1>1. <<>> \in Seq(Keys) /\ <<>> \in Seq(Messages) /\ <<>> \in Seq(Messages \cup {Sentinel})
  OBVIOUS
<1>2. \A p : [NoThread EXCEPT !.pc = p] = [pc |-> p, entries |-> <<>>]
  BY DEF NoThread
<1> QED BY <1>1, <1>2 DEF NoThread, NoConn, MainThreads, Savers, Connections, Results, Ready

(* A connection is open: its peer was there already, or it starts now. *)
Opened(c, y) == y.peer => \/ conn[c].peer /\ y.first = conn[c].first
                          \/ y.first = sent[c]

(* A step changes connection c alone, to this point, buffer and result. *)
Becomes(c, p, b, r) ==
  /\ conn' \in [Clients -> Connections]
  /\ \A d \in Clients : d # c => conn'[d] = conn[d]
  /\ conn'[c].pc = p /\ conn'[c].buffer = b /\ conn'[c].result = r
  /\ Opened(c, conn'[c])

(* An assignment to one connection. *)
LEMMA BecomesAt ==
  ASSUME TypeOK, NEW c \in Clients, NEW y \in Connections, conn' = [conn EXCEPT ![c] = y],
         Opened(c, y)
  PROVE  Becomes(c, y.pc, y.buffer, y.result)
BY DEF Becomes, TypeOK

(* What the steps of a connection's thread and of its peer do to it. *)
LEMMA ConnEffects ==
  ASSUME TypeOK, NEW c \in Clients
  PROVE  LET x == conn[c]
         IN /\ Accept(c) => Becomes(c, "check", x.buffer, x.result)
            /\ BufferEmpty(c) => Becomes(c, "check", x.buffer, x.result)
            /\ CheckStop(c) => \/ Becomes(c, "recv", x.buffer, x.result)
                               \/ Becomes(c, "none", <<>>, "none")
            /\ PeerLeaves(c) => Becomes(c, x.pc, x.buffer, x.result)
            /\ RecvEnds(c) => Becomes(c, "none", <<>>, "none")
            /\ Reject(c) => Becomes(c, "send", x.buffer, "garbage")
            /\ Execute(c) => \/ Becomes(c, "put", x.buffer, x.result)
                             \/ Becomes(c, "send", x.buffer, "error")
            /\ Put(c) => Becomes(c, "wait", x.buffer, x.result)
            /\ Send(c) => Becomes(c, "parse",
                             IF x.result = "garbage" THEN <<>> ELSE Tail(x.buffer), "none")
            /\ \A r \in Results : Answer(c, r) => Becomes(c, "send", x.buffer, r)
            /\ \A b \in Seq(Messages) :
                 conn' = [conn EXCEPT ![c].pc = "parse", ![c].buffer = b]
                   => Becomes(c, "parse", b, x.result)
<1> DEFINE x == conn[c]
<1>1. x \in Connections /\ conn \in [Clients -> Connections] /\ sent[c] \in Nat
  BY DEF TypeOK
<1>2. ASSUME NEW p \in {"none", "check", "recv", "parse", "put", "wait", "send"},
             conn' = [conn EXCEPT ![c].pc = p]
      PROVE  Becomes(c, p, x.buffer, x.result)
  <2>1. conn' = [conn EXCEPT ![c] = [x EXCEPT !.pc = p]]
    BY <1>2
  <2> HIDE DEF x
  <2>2. LET y == [x EXCEPT !.pc = p]
        IN /\ y \in Connections /\ y.pc = p /\ y.buffer = x.buffer /\ y.result = x.result
           /\ y.peer = x.peer /\ y.first = x.first
    BY <1>1 DEF Connections
  <2> QED BY <2>1, <2>2, BecomesAt DEF Opened, x
<1>3. ASSUME Accept(c) PROVE Becomes(c, "check", x.buffer, x.result)
  <2>1. conn' = [conn EXCEPT ![c] = [x EXCEPT !.pc = "check", !.peer = TRUE, !.first = sent[c]]]
    BY <1>1, <1>3 DEF Accept
  <2> HIDE DEF x
  <2>2. LET y == [x EXCEPT !.pc = "check", !.peer = TRUE, !.first = sent[c]]
        IN /\ y \in Connections /\ y.pc = "check" /\ y.buffer = x.buffer /\ y.result = x.result
           /\ y.first = sent[c]
    BY <1>1 DEF Connections
  <2> QED BY <2>1, <2>2, BecomesAt DEF Opened, x
<1>4. ASSUME PeerLeaves(c) PROVE Becomes(c, x.pc, x.buffer, x.result)
  <2>1. conn' = [conn EXCEPT ![c] = [x EXCEPT !.peer = FALSE, !.first = 0]]
    BY <1>1, <1>4 DEF PeerLeaves
  <2> HIDE DEF x
  <2>2. LET y == [x EXCEPT !.peer = FALSE, !.first = 0]
        IN /\ y \in Connections /\ y.pc = x.pc /\ y.buffer = x.buffer /\ y.result = x.result
           /\ ~y.peer
    BY <1>1 DEF Connections
  <2> QED BY <2>1, <2>2, BecomesAt DEF Opened, x
<1>5. ASSUME NEW r \in Results, Answer(c, r) PROVE Becomes(c, "send", x.buffer, r)
  <2>1. conn' = [conn EXCEPT ![c] = [x EXCEPT !.pc = "send", !.result = r]]
    BY <1>1, <1>5 DEF Answer
  <2> HIDE DEF x
  <2>2. LET y == [x EXCEPT !.pc = "send", !.result = r]
        IN /\ y \in Connections /\ y.pc = "send" /\ y.buffer = x.buffer /\ y.result = r
           /\ y.peer = x.peer /\ y.first = x.first
    BY <1>1 DEF Connections
  <2> QED BY <2>1, <2>2, BecomesAt DEF Opened, x
<1>6. ASSUME NEW b \in Seq(Messages), conn' = [conn EXCEPT ![c].pc = "parse", ![c].buffer = b]
      PROVE  Becomes(c, "parse", b, x.result)
  <2>1. conn' = [conn EXCEPT ![c] = [x EXCEPT !.pc = "parse", !.buffer = b]]
    BY <1>1, <1>6
  <2> HIDE DEF x
  <2>2. LET y == [x EXCEPT !.pc = "parse", !.buffer = b]
        IN /\ y \in Connections /\ y.pc = "parse" /\ y.buffer = b /\ y.result = x.result
           /\ y.peer = x.peer /\ y.first = x.first
    BY <1>1 DEF Connections
  <2> QED BY <2>1, <2>2, BecomesAt DEF Opened, x
<1>7. ASSUME Leave(c) PROVE Becomes(c, "none", <<>>, "none")
  <2>1. /\ NoConn.pc = "none" /\ NoConn.buffer = <<>> /\ NoConn.result = "none"
        /\ ~NoConn.peer
    BY DEF NoConn
  <2> QED BY <1>7, <2>1, ThreadTypes, BecomesAt DEF Leave, Opened
<1>8. ASSUME Send(c)
      PROVE  Becomes(c, "parse", IF x.result = "garbage" THEN <<>> ELSE Tail(x.buffer), "none")
  <2> DEFINE b == IF x.result = "garbage" THEN <<>> ELSE Tail(x.buffer)
  <2>1. conn' = [conn EXCEPT ![c] = [x EXCEPT !.pc = "parse", !.result = "none", !.buffer = b]]
    BY <1>1, <1>8 DEF Send, Connections
  <2>2. x.buffer # <<>> /\ x.buffer \in Seq(Messages)
    BY <1>8 DEF Send, TypeOK, Ready, Connections
  <2>3. b \in Seq(Messages)
    BY <2>2
  <2> HIDE DEF x, b
  <2>4. LET y == [x EXCEPT !.pc = "parse", !.result = "none", !.buffer = b]
        IN /\ y \in Connections /\ y.pc = "parse" /\ y.buffer = b /\ y.result = "none"
           /\ y.peer = x.peer /\ y.first = x.first
    BY <1>1, <2>3 DEF Connections, Results
  <2>5. Becomes(c, "parse", b, "none")
    BY <2>1, <2>4, BecomesAt DEF Opened, x
  <2> QED BY <2>5 DEF b
<1>9. CheckStop(c) => conn' = [conn EXCEPT ![c].pc = "recv"] \/ Leave(c)
  BY DEF CheckStop, ConnStep
<1>10. Execute(c) => conn' = [conn EXCEPT ![c].pc = "put"] \/ Answer(c, "error")
  BY DEF Execute, ConnStep
<1>11. /\ BufferEmpty(c) => conn' = [conn EXCEPT ![c].pc = "check"]
       /\ Put(c) => conn' = [conn EXCEPT ![c].pc = "wait"]
       /\ RecvEnds(c) => Leave(c)
       /\ Reject(c) => Answer(c, "garbage")
       /\ "garbage" \in Results /\ "error" \in Results
  BY DEF BufferEmpty, Put, RecvEnds, Reject, ConnStep, Results
<1> QED BY <1>2, <1>3, <1>4, <1>5, <1>6, <1>7, <1>8, <1>9, <1>10, <1>11

(* A step that leaves its connection Ready keeps the types. *)
LEMMA BecomesTypes ==
  ASSUME TypeOK, NEW c \in Clients, NEW p, NEW b, NEW r, Becomes(c, p, b, r),
         p \in {"put", "wait", "send"} => b # <<>>,
         p \in {"none", "check", "recv"} => b = <<>>,
         p = "send" => r # "none",
         queue' \in Seq(Messages \cup {Sentinel}), store' \in Seq(Keys),
         sent' \in [Clients -> Nat],
         replies' \in [Clients -> Seq(Replies)],
         late' \subseteq Keys,
         UNCHANGED <<main, saver, running, worker, stopping, disk, due, overtaken, boots>>
  PROVE  TypeOK'
<1>1. \A d \in Clients : Ready(conn'[d])
  BY DEF Becomes, TypeOK, Ready
<1> QED BY <1>1 DEF Becomes, TypeOK, Ready

(* The commands that recv() returns are well typed and numbered on from    *)
(* the last one.                                                           *)
LEMMA ReceiveEffect ==
  ASSUME TypeOK, NEW c \in Clients, Receive(c)
  PROVE  \E k \in Nat, b \in Seq(Messages) :
           /\ sent' = [sent EXCEPT ![c] = @ + k]
           /\ Becomes(c, "parse", b, conn[c].result)
           /\ conn[c].buffer = <<>> /\ Len(b) = k
           /\ \A i \in 1..k : b[i].client = c /\ b[i].n = sent[c] + i
<1>1. PICK k \in 1..MaxChunk : \E kinds \in [1..k -> Kinds] :
        /\ sent' = [sent EXCEPT ![c] = @ + k]
        /\ conn' = [conn EXCEPT ![c].pc = "parse",
                       ![c].buffer = [i \in 1..k |-> Command(c, sent[c] + i, kinds[i])]]
  BY DEF Receive
<1>2. PICK kinds \in [1..k -> Kinds] :
        /\ sent' = [sent EXCEPT ![c] = @ + k]
        /\ conn' = [conn EXCEPT ![c].pc = "parse",
                       ![c].buffer = [i \in 1..k |-> Command(c, sent[c] + i, kinds[i])]]
  BY <1>1
<1> DEFINE b == [i \in 1..k |-> Command(c, sent[c] + i, kinds[i])]
<1>3. k \in Nat /\ sent[c] \in Nat
  BY BoundAssumption DEF TypeOK
<1>4. ASSUME NEW i \in 1..k PROVE Command(c, sent[c] + i, kinds[i]) \in Messages
  <2>1. sent[c] + i \in Nat \ {0} /\ kinds[i] \in Kinds
    BY <1>3
  <2> QED BY <2>1, MessageTypes
<1>5. b \in Seq(Messages) /\ Len(b) = k
  <2>1. b \in [1..k -> Messages]
    BY <1>4
  <2> HIDE DEF b
  <2> QED BY <1>3, <2>1
<1>6. \A i \in 1..k : b[i].client = c /\ b[i].n = sent[c] + i
  BY DEF Command
<1>7. conn' = [conn EXCEPT ![c].pc = "parse", ![c].buffer = b]
  BY <1>2
<1> HIDE DEF b
<1>8. Becomes(c, "parse", b, conn[c].result)
  BY <1>5, <1>7, ConnEffects
<1>9. conn[c].buffer = <<>>
  BY DEF Receive, TypeOK, Ready
<1> QED BY <1>2, <1>3, <1>5, <1>6, <1>8, <1>9

(* What an answer does to the peer's replies. *)
LEMMA SendEffect ==
  ASSUME TypeOK, NEW c \in Clients, Send(c)
  PROVE  LET x == conn[c]
         IN /\ x.pc = "send" /\ x.buffer # <<>> /\ x.buffer \in Seq(Messages)
            /\ Head(x.buffer) \in Messages /\ x.result \in Results
            /\ UNCHANGED <<main, saver, queue, running, worker, stopping, sent, stored>>
            /\ Reply(c) \in Replies
            /\ Reply(c).n = Head(x.buffer).n /\ Reply(c).result = x.result
            /\ x.result = "garbage" => Reply(c).read = sent[c]
            /\ replies' = IF x.peer THEN [replies EXCEPT ![c] = Append(replies[c], Reply(c))]
                                    ELSE replies
<1> DEFINE x == conn[c]
<1>1. /\ x.pc = "send" /\ x.buffer # <<>> /\ x.buffer \in Seq(Messages) /\ x.result \in Results
      /\ sent[c] \in Nat
  BY DEF Send, TypeOK, Ready, Connections
<1>2. Head(x.buffer) \in Messages
  BY <1>1
<1>3. /\ Reply(c) \in Replies /\ Reply(c).n = Head(x.buffer).n /\ Reply(c).result = x.result
      /\ x.result = "garbage" => Reply(c).read = sent[c]
  BY <1>1, <1>2 DEF Messages, Replies, Reply
<1>4. /\ UNCHANGED <<main, saver, queue, running, worker, stopping, sent, stored>>
      /\ replies' = IF x.peer THEN [replies EXCEPT ![c] = Append(replies[c], Reply(c))]
                              ELSE replies
  BY DEF Send
<1> HIDE DEF x
<1> QED BY <1>1, <1>2, <1>3, <1>4 DEF x

(* What the worker does with the first command of the queue. *)
LEMMA WorkEffect ==
  ASSUME TypeOK, QueuedInv, Work
  PROVE  LET m == Head(queue)
         IN /\ queue # <<>> /\ queue' = Tail(queue) /\ Tail(queue) \in Seq(Messages \cup {Sentinel})
            /\ UNCHANGED <<main, saver, running, stopping, disk, sent, replies, due, overtaken, boots>>
            /\ m = queue[1] /\ 1 \in 1..Len(queue)
            /\ \/ m = Sentinel /\ worker' = FALSE /\ UNCHANGED <<store, late, conn>>
               \/ /\ m \in Messages /\ m.client \in Clients /\ UNCHANGED worker
                  /\ conn[m.client].pc = "wait"
                  /\ conn[m.client].buffer # <<>> /\ Head(conn[m.client].buffer) = m
                  /\ \/ /\ Execution(m)
                        /\ Becomes(m.client, "send", conn[m.client].buffer, "ok")
                     \/ /\ UNCHANGED <<store, late>>
                        /\ Becomes(m.client, "send", conn[m.client].buffer, "error")
<1> DEFINE m == Head(queue)
<1>1. queue # <<>> /\ queue \in Seq(Messages \cup {Sentinel}) /\ queue' = Tail(queue)
  BY DEF Work, TypeOK
<1>2. /\ m \in Messages \cup {Sentinel} /\ Tail(queue) \in Seq(Messages \cup {Sentinel})
      /\ m = queue[1] /\ 1 \in 1..Len(queue)
  BY <1>1
<1>3. UNCHANGED <<main, saver, running, stopping, disk, sent, replies, due, overtaken, boots>>
  BY DEF Work
<1>4. CASE m = Sentinel
  <2>1. m.kind = "sentinel"
    BY <1>4 DEF Sentinel
  <2>2. worker' = FALSE /\ UNCHANGED <<store, late, conn>>
    BY <2>1 DEF Work
  <2> HIDE DEF m
  <2> QED BY <1>1, <1>2, <1>3, <1>4, <2>2 DEF m
<1>5. CASE m # Sentinel
  <2>1. m \in Messages /\ m.client \in Clients /\ m.kind # "sentinel"
    BY <1>2, <1>5, KindAssumption DEF Messages
  <2>2. /\ conn[m.client].pc = "wait" /\ conn[m.client].buffer # <<>>
        /\ Head(conn[m.client].buffer) = m
    BY <1>2, <1>5, <2>1 DEF QueuedInv, TypeOK, Ready
  <2>3. /\ \/ Execution(m) /\ Answer(m.client, "ok")
           \/ UNCHANGED <<store, late>> /\ Answer(m.client, "error")
        /\ UNCHANGED worker
    BY <2>1 DEF Work
  <2>4. "ok" \in Results /\ "error" \in Results
    BY DEF Results
  <2>5. \/ /\ Execution(m)
           /\ Becomes(m.client, "send", conn[m.client].buffer, "ok")
        \/ /\ UNCHANGED <<store, late>>
           /\ Becomes(m.client, "send", conn[m.client].buffer, "error")
    BY <2>1, <2>3, <2>4, ConnEffects
  <2> HIDE DEF m
  <2> QED BY <1>1, <1>2, <1>3, <2>1, <2>2, <2>3, <2>5
<1> QED BY <1>4, <1>5

-----------------------------------------------------------------------------
(* The steps of the main thread and of the snapshot thread keep the types. *)
LEMMA MainTypes ==
  ASSUME TypeOK, Boot \/ Shutdown \/ MainThread \/ Crash \/ Saver
  PROVE  TypeOK'
<1> USE BoundAssumption
<1>1. CASE Boot
  <2>1. main' \in MainThreads /\ saver' \in Savers /\ store' \in Seq(Keys)
    BY <1>1, ThreadTypes DEF Boot, TypeOK
  <2>2. boots' \in 0..MaxBoots /\ running' \in BOOLEAN /\ worker' \in BOOLEAN
    BY <1>1 DEF Boot, TypeOK
  <2> QED BY <1>1, <2>1, <2>2 DEF Boot, TypeOK
<1>2. CASE Shutdown
  <2>1. Acked \cap ToSet(store) \subseteq Keys
    BY DEF TypeOK, ToSet
  <2> QED BY <1>2, <2>1 DEF Shutdown, TypeOK
<1>3. CASE LeaveLoop \/ JoinClients \/ JoinSaver \/ JoinWorker
  BY <1>3 DEF LeaveLoop, JoinClients, JoinSaver, JoinWorker, MainStep, TypeOK, stored, MainThreads
<1>4. CASE Flush
  BY <1>4 DEF Flush, TypeOK, stored, MainThreads
<1>5. CASE FlushSave
  <2>1. disk' \in Seq(Keys) /\ (disk' # main.entries) \in BOOLEAN
    BY <1>5 DEF FlushSave, SaveEntries, TypeOK, MainThreads
  <2> QED BY <1>5, <2>1, ThreadTypes DEF FlushSave, TypeOK
<1>6. CASE StopRunning
  BY <1>6 DEF StopRunning, MainStep, TypeOK, stored, MainThreads
<1>7. CASE PutSentinel
  <2>1. Append(queue, Sentinel) \in Seq(Messages \cup {Sentinel})
    BY DEF TypeOK
  <2> QED BY <1>7, <2>1 DEF PutSentinel, MainStep, TypeOK, stored, MainThreads
<1>8. CASE Exit \/ Crash
  <2>1. EndProcess
    BY <1>8 DEF Exit, Crash
  <2>2. conn' \in [Clients -> Connections] /\ \A c \in Clients : Ready(conn'[c])
    BY <2>1, ThreadTypes DEF EndProcess
  <2> QED BY <2>1, <2>2, ThreadTypes DEF EndProcess, TypeOK, Ready
<1>9. CASE Saver
  <2>1. CASE SaverTake
    BY <2>1 DEF SaverTake, TypeOK, stored, Savers
  <2>2. CASE SaverWakes \/ SaverEnds
    BY <2>2, ThreadTypes DEF SaverWakes, SaverEnds, TypeOK, stored
  <2>3. CASE SaverSave
    <3>1. disk' \in Seq(Keys) /\ saver' \in Savers /\ overtaken' \in BOOLEAN
      BY <2>3, ThreadTypes DEF SaverSave, SaveEntries, TypeOK, Savers
    <3> QED BY <2>3, <3>1 DEF SaverSave, TypeOK
  <2> QED BY <1>9, <2>1, <2>2, <2>3 DEF Saver
<1> QED BY <1>1, <1>2, <1>3, <1>4, <1>5, <1>6, <1>7, <1>8, <1>9 DEF MainThread

(* So do the steps of the thread of a connection and of its peer. *)
LEMMA ConnTypes ==
  ASSUME TypeOK, NEW c \in Clients, Accept(c) \/ Receive(c) \/ PeerLeaves(c) \/ ConnThread(c)
  PROVE  TypeOK'
<1> DEFINE x == conn[c]
<1>1. x \in Connections /\ Ready(x) /\ sent[c] \in Nat
  BY DEF TypeOK
<1>2. CASE Accept(c) \/ BufferEmpty(c) \/ CheckStop(c) \/ RecvEnds(c)
  <2>1. \E p \in {"check", "recv", "none"} : \E r : Becomes(c, p, <<>>, r)
    <3>1. (Accept(c) \/ BufferEmpty(c) \/ CheckStop(c)) => x.buffer = <<>>
      BY <1>1 DEF Accept, BufferEmpty, CheckStop, Ready
    <3> QED BY <1>2, <3>1, ConnEffects
  <2>2. UNCHANGED <<main, saver, queue, running, worker, stopping, sent, replies, stored>>
    BY <1>2 DEF Accept, BufferEmpty, CheckStop, RecvEnds
  <2> QED BY <2>1, <2>2, BecomesTypes DEF stored, TypeOK
<1>3. CASE PeerLeaves(c)
  <2>1. Becomes(c, x.pc, x.buffer, x.result)
    BY <1>3, ConnEffects
  <2>2. UNCHANGED <<main, saver, queue, running, worker, stopping, sent, replies, stored>>
    BY <1>3 DEF PeerLeaves
  <2> HIDE DEF x
  <2> QED BY <1>1, <2>1, <2>2, BecomesTypes DEF stored, TypeOK, Ready
<1>4. CASE Reject(c) \/ Execute(c)
  <2>1. \/ Becomes(c, "send", x.buffer, "garbage")
        \/ Becomes(c, "put", x.buffer, x.result)
        \/ Becomes(c, "send", x.buffer, "error")
    BY <1>4, ConnEffects
  <2>2. /\ UNCHANGED <<main, saver, queue, running, worker, stopping, sent, replies, stored>>
        /\ x.buffer # <<>>
    BY <1>4 DEF Reject, Execute
  <2> HIDE DEF x
  <2> QED BY <2>1, <2>2, BecomesTypes DEF stored, TypeOK
<1>5. CASE Put(c)
  <2>1. Becomes(c, "wait", x.buffer, x.result)
    BY <1>5, ConnEffects
  <2>2. x.buffer # <<>> /\ x.buffer \in Seq(Messages)
    BY <1>1, <1>5 DEF Put, ConnStep, Ready, Connections
  <2>3. queue' \in Seq(Messages \cup {Sentinel})
    <3>1. Head(x.buffer) \in Messages
      BY <2>2
    <3> QED BY <1>5, <3>1 DEF Put, TypeOK
  <2>4. UNCHANGED <<main, saver, running, worker, stopping, sent, replies, stored>>
    BY <1>5 DEF Put
  <2> HIDE DEF x
  <2> QED BY <2>1, <2>2, <2>3, <2>4, BecomesTypes DEF stored, TypeOK
<1>6. CASE Receive(c)
  <2>1. PICK k \in Nat, b \in Seq(Messages) : /\ sent' = [sent EXCEPT ![c] = @ + k]
                                            /\ Becomes(c, "parse", b, conn[c].result)
    BY <1>6, ReceiveEffect
  <2>2. UNCHANGED <<main, saver, queue, running, worker, stopping, replies, stored>>
    BY <1>6 DEF Receive
  <2>3. sent' \in [Clients -> Nat]
    BY <1>1, <2>1 DEF TypeOK
  <2> QED BY <2>1, <2>2, <2>3, BecomesTypes DEF stored, TypeOK
<1>7. CASE Send(c)
  <2>1. \E b : Becomes(c, "parse", b, "none")
    BY <1>7, ConnEffects
  <2>2. /\ Reply(c) \in Replies
        /\ replies' \in {replies, [replies EXCEPT ![c] = Append(replies[c], Reply(c))]}
        /\ UNCHANGED <<main, saver, queue, running, worker, stopping, sent, stored>>
    BY <1>7, SendEffect
  <2>3. Append(replies[c], Reply(c)) \in Seq(Replies)
    BY <2>2 DEF TypeOK
  <2>4. replies' \in [Clients -> Seq(Replies)]
    BY <2>2, <2>3 DEF TypeOK
  <2> QED BY <2>1, <2>2, <2>4, BecomesTypes DEF stored, TypeOK
<1> QED BY <1>2, <1>3, <1>4, <1>5, <1>6, <1>7 DEF ConnThread

(* So does the worker, since the connection of a queued command waits for  *)
(* it; hence every step does.                                              *)
LEMMA TypeStep ==
  ASSUME TypeOK, QueuedInv, [Next]_vars
  PROVE  TypeOK'
<1>1. CASE Work
  <2> DEFINE m == Head(queue)
  <2>1. /\ queue' = Tail(queue) /\ Tail(queue) \in Seq(Messages \cup {Sentinel})
        /\ UNCHANGED <<main, saver, running, stopping, disk, sent, replies, due, overtaken, boots>>
    BY <1>1, WorkEffect
  <2>2. CASE m = Sentinel /\ worker' = FALSE /\ UNCHANGED <<store, late, conn>>
    BY <2>1, <2>2 DEF TypeOK
  <2>3. CASE /\ m \in Messages /\ m.client \in Clients /\ UNCHANGED worker
             /\ conn[m.client].buffer # <<>>
             /\ \/ /\ Execution(m)
                   /\ Becomes(m.client, "send", conn[m.client].buffer, "ok")
                \/ /\ UNCHANGED <<store, late>>
                   /\ Becomes(m.client, "send", conn[m.client].buffer, "error")
    <3>1. store' \in Seq(Keys) /\ late' \subseteq Keys
      <4>1. Key(m) \in Keys
        BY <2>3, MessageTypes
      <4>2. Append(store, Key(m)) \in Seq(Keys)
        BY <4>1 DEF TypeOK
      <4> QED BY <2>3, <4>1, <4>2 DEF TypeOK, Execution
    <3>2. PICK r \in {"ok", "error"} : Becomes(m.client, "send", conn[m.client].buffer, r)
      BY <2>3
    <3> HIDE DEF m
    <3>3. UNCHANGED worker /\ m.client \in Clients /\ conn[m.client].buffer # <<>>
      BY <2>3
    <3>4. /\ queue' \in Seq(Messages \cup {Sentinel}) /\ sent' \in [Clients -> Nat]
          /\ replies' \in [Clients -> Seq(Replies)]
      BY <2>1 DEF TypeOK
    <3>5. UNCHANGED <<main, saver, running, worker, stopping, disk, due, overtaken, boots>>
      BY <2>1, <3>3
    <3> DEFINE c == m.client
               b == conn[c].buffer
    <3>6. c \in Clients /\ Becomes(c, "send", b, r) /\ b # <<>>
      BY <3>2, <3>3
    <3> HIDE DEF c, b
    <3> QED BY <3>1, <3>4, <3>5, <3>6, BecomesTypes
  <2> QED BY <1>1, <2>2, <2>3, WorkEffect
<1>2. CASE Finished \/ UNCHANGED vars
  BY <1>2 DEF Finished, vars, TypeOK
<1> QED BY <1>1, <1>2, MainTypes, ConnTypes DEF Next

-----------------------------------------------------------------------------
(* The order in which commands are executed and answered. *)

(* A step that receives, executes and answers nothing. *)
Calm == /\ UNCHANGED <<store, sent, replies>>
        /\ \A d \in Clients : /\ conn'[d].buffer = conn[d].buffer
                              /\ Acknowledging(conn'[d]) <=> Acknowledging(conn[d])
                              /\ Opened(d, conn'[d])

(* The other steps are these. *)
LEMMA StepKinds ==
  ASSUME TypeOK, [Next]_vars
  PROVE  \/ Calm \/ Boot \/ EndProcess \/ Work
         \/ \E c \in Clients : Receive(c) \/ Send(c)
<1>1. ASSUME UNCHANGED <<conn, store, sent, replies>> PROVE Calm
  BY <1>1 DEF Calm, Opened
<1>2. CASE Shutdown \/ Saver \/ Finished \/ UNCHANGED vars
  BY <1>1, <1>2 DEF Shutdown, Saver, SaverWakes, SaverTake, SaverSave, SaverEnds, Finished, vars,
                    stored
<1>3. CASE MainThread \/ Crash
  <2>1. CASE Exit \/ Crash
    BY <2>1 DEF Exit, Crash
  <2>2. CASE LeaveLoop \/ JoinClients \/ Flush \/ FlushSave \/ JoinSaver \/ StopRunning
               \/ PutSentinel \/ JoinWorker
    BY <1>1, <2>2 DEF LeaveLoop, JoinClients, Flush, FlushSave, JoinSaver, StopRunning,
                      PutSentinel, JoinWorker, stored
  <2> QED BY <1>3, <2>1, <2>2 DEF MainThread
<1>4. ASSUME NEW c \in Clients, NEW p, NEW r, Becomes(c, p, conn[c].buffer, r),
             UNCHANGED <<store, sent, replies>>,
             (p = "send" /\ r = "ok") <=> Acknowledging(conn[c])
      PROVE  Calm
  BY <1>4 DEF Calm, Becomes, Acknowledging, Opened
<1>5. ASSUME NEW c \in Clients, Accept(c) \/ PeerLeaves(c)
      PROVE  Calm
  <2>1. UNCHANGED <<store, sent, replies>>
    BY <1>5 DEF Accept, PeerLeaves, stored
  <2>2. Accept(c) => conn[c].pc = "none"
    BY DEF Accept
  <2>3. \E p, r : /\ Becomes(c, p, conn[c].buffer, r)
                  /\ (p = "send" /\ r = "ok") <=> Acknowledging(conn[c])
    <3>1. CASE Accept(c)
      <4>1. Becomes(c, "check", conn[c].buffer, conn[c].result)
        BY <3>1, ConnEffects
      <4> QED BY <2>2, <3>1, <4>1 DEF Acknowledging
    <3>2. CASE PeerLeaves(c)
      <4>1. Becomes(c, conn[c].pc, conn[c].buffer, conn[c].result)
        BY <3>2, ConnEffects
      <4> QED BY <4>1 DEF Acknowledging
    <3> QED BY <1>5, <3>1, <3>2
  <2> QED BY <1>4, <2>1, <2>3
<1>6. ASSUME NEW c \in Clients, ConnThread(c), ~Send(c)
      PROVE  Calm
  <2>1. UNCHANGED <<store, sent, replies>>
    BY <1>6 DEF ConnThread, CheckStop, RecvEnds, BufferEmpty, Reject, Execute, Put, stored
  <2>2. conn[c].pc # "send"
    BY <1>6 DEF ConnThread, CheckStop, RecvEnds, BufferEmpty, Reject, Execute, Put, ConnStep
  <2>3. \E p, r : Becomes(c, p, conn[c].buffer, r) /\ ~(p = "send" /\ r = "ok")
    <3>1. CASE CheckStop(c) \/ RecvEnds(c)
      <4>1. conn[c].buffer = <<>>
        BY <3>1 DEF CheckStop, RecvEnds, TypeOK, Ready
      <4>2. \/ Becomes(c, "recv", conn[c].buffer, conn[c].result)
            \/ Becomes(c, "none", conn[c].buffer, "none")
        BY <3>1, <4>1, ConnEffects
      <4> QED BY <4>2
    <3>2. CASE BufferEmpty(c) \/ Put(c)
      <4>1. \E p \in {"check", "wait"} : Becomes(c, p, conn[c].buffer, conn[c].result)
        BY <3>2, ConnEffects
      <4> QED BY <4>1
    <3>3. CASE Reject(c) \/ Execute(c)
      <4>1. \/ Becomes(c, "send", conn[c].buffer, "garbage")
            \/ Becomes(c, "put", conn[c].buffer, conn[c].result)
            \/ Becomes(c, "send", conn[c].buffer, "error")
        BY <3>3, ConnEffects
      <4> QED BY <4>1
    <3> QED BY <1>6, <3>1, <3>2, <3>3 DEF ConnThread
  <2> QED BY <1>4, <2>1, <2>2, <2>3 DEF Acknowledging
<1> QED BY <1>2, <1>3, <1>5, <1>6 DEF Next

(* What the order says before a step. *)
LEMMA OrderParts ==
  ASSUME TypeOK, OrderInv
  PROVE  /\ IsInjective(store)
         /\ store \in Seq(Keys) /\ sent \in [Clients -> Nat]
         /\ \A i \in 1..Len(store) : store[i][1] \in Clients /\ store[i][2] \in Nat
         /\ \A d \in Clients : /\ InOrder(d)
                               /\ replies[d] \in Seq(Replies)
                               /\ conn[d].buffer \in Seq(Messages)
         /\ \A i \in 1..Len(store) : \A d \in Clients :
              store[i][1] = d => /\ ExecutedBefore(store[i][2], conn[d], sent[d])
                                 /\ ~Refused(replies[d], store[i][2])
<1>1. IsInjective(store) /\ \A d \in Clients : InOrder(d)
  BY DEF OrderInv, StoreInOrder
<1>2. \A d \in Clients : replies[d] \in Seq(Replies) /\ conn[d].buffer \in Seq(Messages)
  BY DEF TypeOK, Connections
<1>3. store \in Seq(Keys) /\ sent \in [Clients -> Nat]
  BY DEF TypeOK
<1>4. \A i \in 1..Len(store) : store[i][1] \in Clients /\ store[i][2] \in Nat
  BY <1>3 DEF Keys
<1>5. \A i \in 1..Len(store) : \A d \in Clients :
        store[i][1] = d => /\ ExecutedBefore(store[i][2], conn[d], sent[d])
                           /\ ~Refused(replies[d], store[i][2])
  BY DEF OrderInv, StoreInOrder
<1> QED BY <1>1, <1>2, <1>3, <1>4, <1>5

(* A command of an open connection that was accounted for still is, if its *)
(* connection keeps its buffer and replies and the store loses nothing.    *)
LEMMA StillAccounted ==
  ASSUME TypeOK, NEW d \in Clients, Accounted(d), sent'[d] = sent[d],
         conn'[d].buffer = conn[d].buffer, Opened(d, conn'[d]), replies'[d] = replies[d],
         ToSet(store) \subseteq ToSet(store')
  PROVE  Accounted(d)'
<1>1. sent[d] \in Nat /\ (sent[d] + 1)..sent[d] = {}
  BY DEF TypeOK
<1>2. \A n : /\ Waiting(d, n) => Waiting(d, n)'
             /\ Answered(d, n) => Answered(d, n)'
             /\ Dropped(d, n) => Dropped(d, n)'
  BY DEF Waiting, Answered, Dropped
<1>3. CASE conn[d].peer /\ conn'[d].first = conn[d].first
  BY <1>2, <1>3 DEF Accounted
<1>4. CASE ~conn'[d].peer \/ conn'[d].first = sent[d]
  BY <1>1, <1>4 DEF Accounted
<1> QED BY <1>3, <1>4 DEF Opened

(* A connection stays in order if nothing happens to it. *)
LEMMA OthersOrder ==
  ASSUME TypeOK, OrderInv, NEW d \in Clients, ToSet(store) \subseteq ToSet(store'),
         conn'[d].buffer = conn[d].buffer, Acknowledging(conn'[d]) <=> Acknowledging(conn[d]),
         Opened(d, conn'[d]), sent'[d] = sent[d], replies'[d] = replies[d]
  PROVE  InOrder(d)'
<1>1. InOrder(d)
  BY OrderParts
<1>2. Accounted(d)'
  BY <1>1, StillAccounted DEF InOrder
<1>3. Acknowledging(conn'[d]) => <<d, Head(conn'[d].buffer).n>> \in ToSet(store')
  BY <1>1 DEF InOrder
<1>4. /\ Ordered(conn'[d].buffer, d, sent'[d])
      /\ AnsweredBefore(replies'[d], conn'[d].buffer, sent'[d])
      /\ InTurn(replies'[d])
  BY <1>1 DEF InOrder
<1> QED BY <1>2, <1>3, <1>4 DEF InOrder

(* Steps that do nothing to the order of commands. *)
LEMMA CalmOrder ==
  ASSUME TypeOK, OrderInv, Calm
  PROVE  OrderInv'
<1>1. sent' = sent /\ store' = store /\ replies' = replies
  BY DEF Calm
<1>2. \A d \in Clients : InOrder(d)'
  BY <1>1, OthersOrder DEF Calm
<1>3. ASSUME NEW i \in 1..Len(store'), NEW d \in Clients, store'[i][1] = d
      PROVE  ExecutedBefore(store'[i][2], conn'[d], sent'[d]) /\ ~Refused(replies'[d], store'[i][2])
  <2>1. ExecutedBefore(store[i][2], conn[d], sent[d]) /\ ~Refused(replies[d], store[i][2])
    BY <1>1, <1>3, OrderParts
  <2> QED BY <1>1, <2>1 DEF ExecutedBefore, Refused, Calm
<1> QED BY <1>1, <1>2, <1>3, OrderParts DEF OrderInv, StoreInOrder

(* A start from the snapshot file, and the end of the process. *)
LEMMA BootOrder ==
  ASSUME TypeOK, DownInv, SnapshotInv, OrderInv, Boot \/ EndProcess
  PROVE  OrderInv'
<1>1. /\ sent' = sent /\ replies' = replies
      /\ \A d \in Clients : conn'[d].buffer = <<>> /\ conn'[d].pc = "none" /\ ~conn'[d].peer
  <2>1. CASE Boot
    BY <2>1 DEF Boot, DownInv, NoConn
  <2>2. CASE EndProcess
    BY <2>2 DEF EndProcess, NoConn
  <2> QED BY <2>1, <2>2
<1>2. Len(<<>>) = 0 /\ 1..0 = {}
  OBVIOUS
<1>3. /\ IsInjective(store')
      /\ \A i \in 1..Len(store') : /\ store'[i][2] =< sent[store'[i][1]]
                                   /\ ~Refused(replies[store'[i][1]], store'[i][2])
  <2>1. CASE Boot
    BY <2>1 DEF Boot, SnapshotInv, Sound
  <2>2. CASE EndProcess
    BY <1>2, <2>2 DEF EndProcess, IsInjective
  <2> QED BY <2>1, <2>2
<1>4. ASSUME NEW i \in 1..Len(store'), NEW d \in Clients, store'[i][1] = d
      PROVE  ExecutedBefore(store'[i][2], conn'[d], sent'[d]) /\ ~Refused(replies'[d], store'[i][2])
  BY <1>1, <1>2, <1>3, <1>4 DEF ExecutedBefore
<1>5. ASSUME NEW d \in Clients PROVE InOrder(d)'
  <2>1. AnsweredBefore(replies[d], conn[d].buffer, sent[d]) /\ InTurn(replies[d])
    BY OrderParts DEF InOrder
  <2>2. Ordered(<<>>, d, sent[d]) /\ AnsweredBefore(replies[d], <<>>, sent[d])
    BY <1>2, <2>1 DEF Ordered, AnsweredBefore
  <2>3. ~Acknowledging(conn'[d]) /\ Accounted(d)'
    BY <1>1 DEF Acknowledging, Accounted
  <2> QED BY <1>1, <2>1, <2>2, <2>3 DEF InOrder
<1> QED BY <1>3, <1>4, <1>5 DEF OrderInv, StoreInOrder

(* The arrival of commands. *)
LEMMA ReceiveOrder ==
  ASSUME TypeOK, OrderInv, NEW c \in Clients, Receive(c)
  PROVE  OrderInv'
<1>1. PICK k \in Nat, b \in Seq(Messages) :
        /\ sent' = [sent EXCEPT ![c] = @ + k]
        /\ Becomes(c, "parse", b, conn[c].result)
        /\ conn[c].buffer = <<>> /\ Len(b) = k
        /\ \A i \in 1..k : b[i].client = c /\ b[i].n = sent[c] + i
  BY ReceiveEffect
<1>2. store' = store /\ replies' = replies
  BY DEF Receive, stored
<1>3. /\ sent[c] \in Nat /\ sent'[c] = sent[c] + k
      /\ \A d \in Clients : d # c => sent'[d] = sent[d] /\ conn'[d] = conn[d]
      /\ conn'[c].buffer = b /\ ~Acknowledging(conn'[c]) /\ Opened(c, conn'[c])
      /\ conn'[c].first \in Nat
  BY <1>1 DEF TypeOK, Becomes, Acknowledging, Connections
<1>4. Ordered(b, c, sent'[c])
  BY <1>1, <1>3 DEF Ordered
<1>5. AnsweredBefore(replies[c], b, sent'[c])
  <2>1. ASSUME NEW i \in 1..Len(replies[c])
        PROVE  replies[c][i].n =< sent[c] /\ replies[c][i].n \in Nat
    <3>1. replies[c][i] \in Replies
      BY OrderParts
    <3> QED BY <3>1, OrderParts DEF InOrder, AnsweredBefore, Replies
  <2> QED BY <1>1, <1>3, <2>1 DEF AnsweredBefore
<1>6. Accounted(c)'
  <2>1. SUFFICES ASSUME conn'[c].peer, NEW n \in (conn'[c].first + 1)..sent'[c]
                 PROVE  Waiting(c, n)' \/ Answered(c, n)' \/ Dropped(c, n)'
    BY DEF Accounted
  <2>2. CASE n > sent[c]
    <3> DEFINE i == n - sent[c]
    <3>1. i \in 1..k /\ b[i].n = n /\ i \in DOMAIN b
      BY <1>1, <1>3, <2>2
    <3>2. b[i] \in ToSet(b)
      BY <3>1 DEF ToSet
    <3> QED BY <1>3, <3>1, <3>2 DEF Waiting
  <2>3. CASE n =< sent[c]
    <3>1. conn[c].peer /\ n \in (conn[c].first + 1)..sent[c]
      BY <1>3, <2>1, <2>3 DEF Opened
    <3>2. ToSet(<<>>) = {}
      BY DEF ToSet
    <3>3. ~Waiting(c, n)
      BY <1>1, <3>2 DEF Waiting
    <3>4. Accounted(c)
      BY OrderParts DEF InOrder
    <3>5. Answered(c, n) \/ Dropped(c, n)
      BY <3>1, <3>3, <3>4 DEF Accounted
    <3> QED BY <1>2, <3>5 DEF Answered, Dropped
  <2> QED BY <1>3, <2>2, <2>3
<1>7. ASSUME NEW d \in Clients PROVE InOrder(d)'
  <2>1. CASE d = c
    <3>1. InTurn(replies'[c])
      BY <1>2, OrderParts DEF InOrder
    <3> QED BY <1>2, <1>3, <1>4, <1>5, <1>6, <2>1, <3>1 DEF InOrder
  <2>2. CASE d # c
    <3>1. conn'[d] = conn[d] /\ sent'[d] = sent[d] /\ replies'[d] = replies[d] /\ store' = store
      BY <1>2, <1>3, <2>2
    <3>2. Opened(d, conn'[d])
      BY <3>1 DEF Opened
    <3> QED BY <3>1, <3>2, OthersOrder
  <2> QED BY <2>1, <2>2
<1>8. ASSUME NEW i \in 1..Len(store'), NEW d \in Clients, store'[i][1] = d
      PROVE  ExecutedBefore(store'[i][2], conn'[d], sent'[d]) /\ ~Refused(replies'[d], store'[i][2])
  <2>1. /\ ExecutedBefore(store[i][2], conn[d], sent[d]) /\ store[i][2] \in Nat
        /\ ~Refused(replies[d], store[i][2])
    BY <1>2, <1>8, OrderParts
  <2>2. ExecutedBefore(store[i][2], conn'[d], sent'[d])
    <3>1. CASE d = c
      <4>1. store[i][2] =< sent[c] /\ store[i][2] \in Nat
        BY <2>1, <3>1 DEF ExecutedBefore
      <4>2. store[i][2] =< sent'[c] /\ \A j \in 1..Len(b) : store[i][2] < b[j].n
        BY <1>1, <1>3, <4>1
      <4> QED BY <1>3, <3>1, <4>2 DEF ExecutedBefore
    <3>2. CASE d # c
      BY <1>3, <2>1, <3>2
    <3> QED BY <3>1, <3>2
  <2> QED BY <1>2, <2>1, <2>2 DEF Refused
<1> QED BY <1>2, <1>7, <1>8, OrderParts DEF OrderInv, StoreInOrder

(* Once its first command is answered, a buffer keeps its order without    *)
(* it, and the answer comes before all that is left.                       *)
LEMMA AnswerFirst ==
  ASSUME NEW c, NEW s \in Nat, NEW b \in Seq(Messages), b # <<>>, NEW rs \in Seq(Replies),
         NEW r \in Replies, Ordered(b, c, s), AnsweredBefore(rs, b, s), InTurn(rs), r.n = Head(b).n,
         NEW t \in {<<>>, Tail(b)}
  PROVE  /\ Ordered(t, c, s)
         /\ AnsweredBefore(rs, t, s)
         /\ AnsweredBefore(Append(rs, r), t, s)
         /\ InTurn(Append(rs, r))
         /\ \A n \in Nat : n =< b[1].n => \A j \in 1..Len(t) : n < t[j].n
<1> DEFINE a == Append(rs, r)
<1>1. /\ Len(b) \in Nat \ {0} /\ Head(b) = b[1] /\ 1 \in 1..Len(b)
      /\ Len(t) \in Nat
      /\ \A j \in 1..Len(t) : /\ t[j] = b[j + 1] /\ j + 1 \in 1..Len(b) /\ j + 1 > 1
                              /\ s - Len(t) + j = s - Len(b) + (j + 1)
  <2>1. CASE t = <<>>
    BY <2>1
  <2>2. CASE t = Tail(b)
    BY <2>2
  <2> QED BY <2>1, <2>2
<1>2. /\ Len(rs) \in Nat /\ Len(a) = Len(rs) + 1 /\ a[Len(rs) + 1] = r
      /\ \A i \in 1..Len(rs) : a[i] = rs[i]
  OBVIOUS
<1>3. \A j \in 1..Len(b) : b[j].n = s - Len(b) + j /\ b[j].client = c
  BY DEF Ordered
<1> HIDE DEF a
<1>4. Ordered(t, c, s)
  BY <1>1, <1>3 DEF Ordered
<1>5. AnsweredBefore(rs, t, s)
  BY <1>1 DEF AnsweredBefore
<1>6. ASSUME NEW n \in Nat, n =< b[1].n, NEW j \in 1..Len(t) PROVE n < t[j].n
  <2>1. t[j] = b[j + 1] /\ j + 1 \in 1..Len(b) /\ j \in Nat /\ j >= 1
    BY <1>1
  <2>2. t[j].n = s - Len(b) + (j + 1) /\ b[1].n = s - Len(b) + 1
    BY <1>1, <1>3, <2>1
  <2> QED BY <1>1, <1>6, <2>1, <2>2
<1>7. r.n =< s /\ (\A j \in 1..Len(t) : r.n < t[j].n) /\ r.n \in Nat
  <2>1. r.n = b[1].n /\ r.n \in Nat
    BY <1>1 DEF Replies
  <2>2. b[1].n =< s
    BY <1>1, <1>3
  <2> QED BY <1>6, <2>1, <2>2
<1>8. ASSUME NEW i \in 1..Len(a) PROVE i = Len(rs) + 1 \/ i \in 1..Len(rs)
  BY <1>2
<1>9. AnsweredBefore(a, t, s)
  BY <1>2, <1>5, <1>7, <1>8 DEF AnsweredBefore
<1>10. InTurn(a)
  <2>1. SUFFICES ASSUME NEW i \in 1..Len(a), NEW j \in 1..Len(a), i < j
                 PROVE  a[i].n < a[j].n
    BY DEF InTurn
  <2>2. i \in 1..Len(rs)
    BY <1>2, <2>1
  <2>3. CASE j \in 1..Len(rs)
    BY <1>2, <2>1, <2>2, <2>3 DEF InTurn
  <2>4. CASE j = Len(rs) + 1
    <3>1. rs[i].n < b[1].n
      BY <1>1, <2>2 DEF AnsweredBefore
    <3> QED BY <1>1, <1>2, <2>2, <2>4, <3>1
  <2> QED BY <1>8, <2>3, <2>4
<1> QED BY <1>4, <1>5, <1>6, <1>9, <1>10 DEF a

(* Every command of an open connection is accounted for after the answer   *)
(* to the first one of its buffer.                                         *)
LEMMA SendAccounted ==
  ASSUME TypeOK, OrderInv, NEW c \in Clients, Send(c)
  PROVE  Accounted(c)'
<1> DEFINE x == conn[c]
           b == x.buffer
           rs == replies[c]
           t == IF x.result = "garbage" THEN <<>> ELSE Tail(b)
<1>1. SUFFICES ASSUME conn'[c].peer, NEW n \in (conn'[c].first + 1)..sent'[c]
               PROVE  Waiting(c, n)' \/ Answered(c, n)' \/ Dropped(c, n)'
  BY DEF Accounted
<1>2. /\ x.pc = "send" /\ b # <<>> /\ b \in Seq(Messages)
      /\ store' = store /\ sent' = sent
      /\ Reply(c) \in Replies /\ Reply(c).n = Head(b).n /\ Reply(c).result = x.result
      /\ x.result = "garbage" => Reply(c).read = sent[c]
      /\ replies' = IF x.peer THEN [replies EXCEPT ![c] = Append(rs, Reply(c))] ELSE replies
  BY SendEffect DEF stored
<1>3. Becomes(c, "parse", t, "none")
  BY ConnEffects
<1>4. sent[c] \in Nat /\ rs \in Seq(Replies) /\ conn'[c].buffer = t /\ Opened(c, conn'[c])
  BY <1>3 DEF Becomes, TypeOK
<1>5. x.peer /\ n \in (x.first + 1)..sent[c]
  <2>1. conn'[c].first # sent[c]
    BY <1>1, <1>2, <1>4
  <2> QED BY <1>1, <1>2, <1>4, <2>1 DEF Opened
<1>6. replies'[c] = Append(rs, Reply(c))
  BY <1>2, <1>5 DEF TypeOK
<1>7. ToSet(replies'[c]) = ToSet(rs) \cup {Reply(c)}
  BY <1>2, <1>4, <1>6, ToSetGrows
<1>8. InOrder(c)
  BY OrderParts
<1>9. Waiting(c, n) \/ Answered(c, n) \/ Dropped(c, n)
  BY <1>5, <1>8 DEF InOrder, Accounted
<1>10. (Answered(c, n) => Answered(c, n)') /\ (Dropped(c, n) => Dropped(c, n)')
  BY <1>2, <1>7 DEF Answered, Dropped
<1>11. CASE Waiting(c, n)
  <2>1. PICK i \in 1..Len(b) : b[i].n = n
    BY <1>2, <1>11 DEF Waiting, ToSet
  <2>2. Len(b) \in Nat \ {0} /\ Head(b) = b[1] /\ \A j \in 1..Len(b) : b[j].n = sent[c] - Len(b) + j
    BY <1>2, <1>8 DEF InOrder, Ordered
  <2>3. CASE i = 1
    <3>1. x.result = "ok" => <<c, n>> \in ToSet(store)
      BY <1>2, <1>8, <2>1, <2>2, <2>3 DEF InOrder, Acknowledging
    <3>2. Reply(c).n = n /\ Reply(c) \in ToSet(replies'[c])
      BY <1>2, <1>7, <2>1, <2>2, <2>3
    <3> HIDE DEF x
    <3> QED BY <1>2, <3>1, <3>2 DEF Answered
  <2>4. CASE i # 1 /\ x.result = "garbage"
    <3>1. Reply(c).n = b[1].n /\ Reply(c).read = sent[c] /\ Reply(c) \in ToSet(replies'[c])
      BY <1>2, <1>7, <2>2, <2>4
    <3> HIDE DEF x, b, rs, t
    <3>2. b[1].n = sent[c] - Len(b) + 1 /\ n = sent[c] - Len(b) + i /\ i > 1 /\ i =< Len(b)
      BY <2>1, <2>2, <2>4
    <3>3. Reply(c).n < n /\ n =< Reply(c).read
      BY <1>4, <2>2, <3>1, <3>2
    <3> QED BY <1>2, <2>4, <3>1, <3>3 DEF Dropped
  <2>5. CASE i # 1 /\ x.result # "garbage"
    <3>1. /\ t = Tail(b) /\ Tail(b) \in Seq(Messages) /\ i - 1 \in DOMAIN Tail(b)
          /\ Tail(b)[i - 1] = b[i]
      BY <1>2, <2>1, <2>2, <2>5
    <3>2. b[i] \in ToSet(t)
      BY <3>1 DEF ToSet
    <3> HIDE DEF t, b
    <3> QED BY <1>4, <2>1, <3>2 DEF Waiting
  <2> QED BY <2>3, <2>4, <2>5
<1> QED BY <1>9, <1>10, <1>11

(* An answer. *)
LEMMA SendOrder ==
  ASSUME TypeOK, OrderInv, NEW c \in Clients, Send(c)
  PROVE  OrderInv'
<1> DEFINE x == conn[c]
           b == x.buffer
           r == Reply(c)
<1>1. /\ x.pc = "send" /\ b # <<>> /\ b \in Seq(Messages)
      /\ store' = store /\ sent' = sent
      /\ r \in Replies /\ r.n = Head(b).n /\ r.result = x.result
      /\ replies' \in {replies, [replies EXCEPT ![c] = Append(replies[c], r)]}
  BY SendEffect DEF stored
<1>2. PICK t \in {<<>>, Tail(b)} : Becomes(c, "parse", t, "none")
  BY ConnEffects
<1> HIDE DEF x, b, r
<1>3. /\ sent[c] \in Nat /\ replies[c] \in Seq(Replies)
      /\ conn'[c].buffer = t /\ ~Acknowledging(conn'[c])
      /\ \A d \in Clients : d # c => conn'[d] = conn[d] /\ replies'[d] = replies[d]
      /\ replies'[c] \in {replies[c], Append(replies[c], r)}
  BY <1>1, <1>2 DEF Becomes, TypeOK, Acknowledging
<1>4. InOrder(c)
  BY OrderParts
<1>5. /\ Ordered(t, c, sent[c])
      /\ AnsweredBefore(replies[c], t, sent[c])
      /\ AnsweredBefore(Append(replies[c], r), t, sent[c])
      /\ InTurn(Append(replies[c], r))
      /\ \A n \in Nat : n =< b[1].n => \A j \in 1..Len(t) : n < t[j].n
  <2>1. Ordered(b, c, sent[c]) /\ AnsweredBefore(replies[c], b, sent[c]) /\ InTurn(replies[c])
    BY <1>4 DEF InOrder, b, x
  <2>2. /\ sent[c] \in Nat /\ b \in Seq(Messages) /\ b # <<>> /\ replies[c] \in Seq(Replies)
        /\ r \in Replies /\ r.n = Head(b).n /\ t \in {<<>>, Tail(b)}
    BY <1>1, <1>2, <1>3
  <2> QED BY <2>1, <2>2, AnswerFirst
<1>6. ASSUME NEW d \in Clients PROVE InOrder(d)'
  <2>1. CASE d = c
    <3>1. AnsweredBefore(replies'[c], t, sent[c]) /\ InTurn(replies'[c])
      BY <1>3, <1>4, <1>5 DEF InOrder
    <3>2. Accounted(c)'
      BY SendAccounted
    <3> QED BY <1>1, <1>3, <1>5, <2>1, <3>1, <3>2 DEF InOrder
  <2>2. CASE d # c
    <3>1. conn'[d] = conn[d] /\ sent'[d] = sent[d] /\ replies'[d] = replies[d] /\ store' = store
      BY <1>1, <1>3, <2>2
    <3>2. Opened(d, conn'[d])
      BY <3>1 DEF Opened
    <3> QED BY <3>1, <3>2, OthersOrder
  <2> QED BY <2>1, <2>2
<1>7. ASSUME NEW i \in 1..Len(store'), NEW d \in Clients, store'[i][1] = d
      PROVE  ExecutedBefore(store'[i][2], conn'[d], sent'[d]) /\ ~Refused(replies'[d], store'[i][2])
  <2> DEFINE n == store[i][2]
  <2>1. ExecutedBefore(n, conn[d], sent[d]) /\ ~Refused(replies[d], n) /\ n \in Nat /\ store' = store
    BY <1>1, <1>7, OrderParts
  <2> HIDE DEF n
  <2>2. CASE d # c
    BY <1>1, <1>3, <2>1, <2>2 DEF Refused, n
  <2>3. CASE d = c
    <3>1. /\ Len(b) \in Nat \ {0} /\ Head(b) = b[1] /\ 1 \in 1..Len(b) /\ b[1].n \in Nat
          /\ conn[c].buffer = b /\ conn[c] = x
      <4>1. /\ Len(b) \in Nat \ {0} /\ Head(b) = b[1] /\ 1 \in 1..Len(b)
            /\ b[1] \in Messages
        BY <1>1
      <4> QED BY <4>1 DEF b, x, Messages
    <3>2. n =< sent[c] /\ (n < b[1].n \/ Acknowledging(x))
      BY <2>1, <2>3, <3>1 DEF ExecutedBefore
    <3>3. \A j \in 1..Len(t) : n < t[j].n
      <4>1. CASE n =< b[1].n
        BY <1>5, <2>1, <4>1
      <4>2. CASE n > b[1].n
        <5>1. t = <<>> \/ Tail(b) # <<>> \/ Tail(b) = <<>>
          OBVIOUS
        <5>2. ASSUME NEW j \in 1..Len(Tail(b)) PROVE n < Tail(b)[j].n
          <6>1. j + 1 \in 1..Len(b) /\ Tail(b)[j] = b[j + 1] /\ j + 1 # 1
            BY <1>1, <3>1
          <6> QED BY <2>1, <2>3, <3>1, <6>1 DEF ExecutedBefore
        <5>3. CASE t = <<>>
          BY <5>3
        <5> QED BY <5>2, <5>3
      <4> QED BY <2>1, <3>1, <4>1, <4>2
    <3>4. ExecutedBefore(n, conn'[c], sent[c])
      BY <1>3, <3>2, <3>3 DEF ExecutedBefore
    <3>5. ~(r.n = n /\ r.result # "ok")
      BY <1>1, <2>1, <3>1, <3>2 DEF Acknowledging
    <3>6. ToSet(replies'[c]) \subseteq ToSet(replies[c]) \cup {r}
      <4>1. ToSet(Append(replies[c], r)) = ToSet(replies[c]) \cup {r}
        BY <1>1, <1>3, ToSetGrows
      <4> QED BY <1>3, <4>1
    <3>7. ~Refused(replies'[c], n)
      BY <2>1, <2>3, <3>5, <3>6 DEF Refused
    <3>8. store'[i][2] = n /\ sent' = sent
      BY <1>1, <2>1 DEF n
    <3> QED BY <2>3, <3>4, <3>7, <3>8 DEF Refused
  <2> QED BY <2>2, <2>3
<1> QED BY <1>1, <1>6, <1>7, OrderParts DEF OrderInv, StoreInOrder

(* A sequence without repetition stays one when something new is appended. *)
LEMMA InjectiveAppend ==
  ASSUME NEW S, NEW s \in Seq(S), NEW x \in S, IsInjective(s), \A i \in 1..Len(s) : s[i] # x
  PROVE  IsInjective(Append(s, x))
<1> DEFINE a == Append(s, x)
<1>1. /\ Len(s) \in Nat /\ DOMAIN s = 1..Len(s) /\ DOMAIN a = 1..(Len(s) + 1) /\ a[Len(s) + 1] = x
      /\ \A i \in 1..Len(s) : a[i] = s[i]
  OBVIOUS
<1> HIDE DEF a
<1>2. \A i \in DOMAIN a : i = Len(s) + 1 \/ i \in 1..Len(s)
  BY <1>1
<1>3. IsInjective(a)
  BY <1>1, <1>2 DEF IsInjective
<1> QED BY <1>3 DEF a

(* The execution of a command: it is the first of its connection's buffer, *)
(* and the connection has waited for it.                                   *)
LEMMA WorkOrder ==
  ASSUME TypeOK, QueuedInv, OrderInv, Work
  PROVE  OrderInv'
<1> DEFINE m == Head(queue)
<1>1. sent' = sent /\ replies' = replies
  BY WorkEffect
<1>2. CASE UNCHANGED <<store, conn>>
  <2>1. Calm
    BY <1>1, <1>2 DEF Calm, Opened
  <2> QED BY <2>1, CalmOrder
<1>3. CASE /\ m \in Messages /\ m.client \in Clients
           /\ conn[m.client].pc = "wait"
           /\ conn[m.client].buffer # <<>> /\ Head(conn[m.client].buffer) = m
           /\ \/ Execution(m) /\ Becomes(m.client, "send", conn[m.client].buffer, "ok")
              \/ /\ UNCHANGED store
                 /\ Becomes(m.client, "send", conn[m.client].buffer, "error")
  <2> PICK c \in Clients : c = m.client
    BY <1>3
  <2> DEFINE b == conn[c].buffer
  <2>1. /\ c \in Clients /\ conn[c].pc = "wait" /\ b \in Seq(Messages) /\ b # <<>> /\ Head(b) = m
        /\ Key(m) \in Keys /\ Key(m) = <<c, m.n>> /\ m.n \in Nat
    BY <1>3, MessageTypes DEF TypeOK, Connections, Key, Messages
  <2>2. /\ \A d \in Clients : conn'[d].buffer = conn[d].buffer /\ (d # c => conn'[d] = conn[d])
        /\ Opened(c, conn'[c])
        /\ \/ store' = Append(store, Key(m)) /\ Acknowledging(conn'[c])
           \/ store' = store /\ ~Acknowledging(conn'[c])
    BY <1>3 DEF Becomes, Execution, Acknowledging
  <2> HIDE DEF m, b
  <2>3. Len(b) \in Nat \ {0} /\ m = b[1] /\ 1 \in 1..Len(b)
    BY <2>1
  <2>4. /\ InOrder(c) /\ IsInjective(store) /\ store \in Seq(Keys) /\ sent[c] \in Nat
        /\ \A i \in 1..Len(store) : store[i][1] \in Clients /\ store[i][2] \in Nat
    BY <2>1, OrderParts
  <2>5. CASE store' = store /\ ~Acknowledging(conn'[c])
    <3>1. ~Acknowledging(conn[c])
      BY <2>1 DEF Acknowledging
    <3>2. Calm
      BY <1>1, <2>2, <2>5, <3>1 DEF Calm, Opened
    <3> QED BY <3>2, CalmOrder
  <2>6. CASE store' = Append(store, Key(m)) /\ Acknowledging(conn'[c])
    <3>1. ToSet(store') = ToSet(store) \cup {Key(m)}
      <4>1. \A k \in Keys : ToSet(Append(store, k)) = ToSet(store) \cup {k}
        BY <2>4, ToSetGrows
      <4> QED BY <2>1, <2>6, <4>1
    <3>2. ASSUME NEW i \in 1..Len(store) PROVE store[i] # Key(m)
      <4>1. CASE store[i][1] = c
        <5>1. ExecutedBefore(store[i][2], conn[c], sent[c])
          BY <2>1, <4>1, OrderParts
        <5>2. ~Acknowledging(conn[c])
          BY <2>1 DEF Acknowledging
        <5>3. store[i][2] < m.n
          BY <2>3, <5>1, <5>2 DEF ExecutedBefore, b
        <5> QED BY <2>1, <2>4, <5>3
      <4>2. CASE store[i][1] # c
        BY <2>1, <4>2
      <4> QED BY <4>1, <4>2
    <3>3. IsInjective(store')
      BY <2>1, <2>4, <2>6, <3>2, InjectiveAppend
    <3>4. m.n =< sent[c] /\ \A j \in 1..Len(b) : j # 1 => m.n < b[j].n
      <4>1. \A j \in 1..Len(b) : b[j].n = sent[c] - Len(b) + j
        BY <2>4 DEF InOrder, Ordered, b
      <4> QED BY <2>3, <2>4, <4>1
    <3>5. ExecutedBefore(m.n, conn'[c], sent[c])
      BY <2>1, <2>2, <2>6, <3>4 DEF ExecutedBefore, b
    <3>6. ~Refused(replies[c], m.n)
      <4>1. ASSUME NEW i \in 1..Len(replies[c]) PROVE replies[c][i].n < m.n
        BY <2>3, <2>4 DEF InOrder, AnsweredBefore, b
      <4>2. \A y \in ToSet(replies[c]) : y.n # m.n
        <5>1. replies[c] \in Seq(Replies)
          BY <2>1, OrderParts
        <5>2. \A i \in 1..Len(replies[c]) : replies[c][i].n \in Nat
          <6>1. \A i \in 1..Len(replies[c]) : replies[c][i] \in Replies
            BY <5>1
          <6> QED BY <6>1 DEF Replies
        <5>3. \A i \in 1..Len(replies[c]) : replies[c][i].n # m.n
          BY <2>1, <4>1, <5>2
        <5> QED BY <5>1, <5>3 DEF ToSet
      <4> QED BY <4>2 DEF Refused
    <3>7. ASSUME NEW i \in 1..Len(store')
          PROVE  (i \in 1..Len(store) /\ store'[i] = store[i]) \/ store'[i] = Key(m)
      <4>1. /\ Len(store) \in Nat /\ Len(store') = Len(store) + 1
            /\ \A j \in 1..Len(store) : store'[j] = store[j]
            /\ store'[Len(store) + 1] = Key(m)
        BY <2>1, <2>4, <2>6
      <4>2. i = Len(store) + 1 \/ i \in 1..Len(store)
        BY <4>1
      <4> QED BY <4>1, <4>2
    <3>8. ASSUME NEW i \in 1..Len(store'), NEW d \in Clients, store'[i][1] = d
          PROVE  ExecutedBefore(store'[i][2], conn'[d], sent'[d]) /\ ~Refused(replies'[d], store'[i][2])
      <4>1. CASE i \in 1..Len(store) /\ store'[i] = store[i]
        <5>1. ExecutedBefore(store[i][2], conn[d], sent[d]) /\ ~Refused(replies[d], store[i][2])
          BY <3>8, <4>1, OrderParts
        <5>2. Acknowledging(conn[d]) => Acknowledging(conn'[d])
          BY <2>2, <2>6
        <5> QED BY <1>1, <2>2, <4>1, <5>1, <5>2 DEF ExecutedBefore, Refused
      <4>2. CASE store'[i] = Key(m)
        <5>1. d = c /\ store'[i][2] = m.n
          BY <2>1, <3>8, <4>2
        <5> QED BY <1>1, <3>5, <3>6, <5>1 DEF Refused
      <4> QED BY <3>7, <4>1, <4>2
    <3>9. ASSUME NEW d \in Clients PROVE InOrder(d)'
      <4>1. CASE d # c
        <5>1. conn'[d] = conn[d] /\ sent'[d] = sent[d] /\ replies'[d] = replies[d]
          BY <1>1, <2>2, <4>1
        <5>2. Opened(d, conn'[d])
          BY <5>1 DEF Opened
        <5> QED BY <3>1, <5>1, <5>2, OthersOrder
      <4>2. CASE d = c
        <5>1. Accounted(c)'
          <6>1. /\ Accounted(c) /\ sent'[c] = sent[c] /\ replies'[c] = replies[c]
                /\ conn'[c].buffer = conn[c].buffer /\ Opened(c, conn'[c])
                /\ ToSet(store) \subseteq ToSet(store')
            BY <1>1, <2>1, <2>2, <2>4, <3>1 DEF InOrder
          <6> QED BY <2>1, <6>1, StillAccounted
        <5>2. <<c, Head(conn'[c].buffer).n>> \in ToSet(store')
          BY <2>1, <2>2, <3>1 DEF b
        <5>3. /\ Ordered(conn'[c].buffer, c, sent'[c])
              /\ AnsweredBefore(replies'[c], conn'[c].buffer, sent'[c])
              /\ InTurn(replies'[c])
          BY <1>1, <2>1, <2>2, <2>4 DEF InOrder
        <5> QED BY <4>2, <5>1, <5>2, <5>3 DEF InOrder
      <4> QED BY <4>1, <4>2
    <3> QED BY <3>3, <3>8, <3>9 DEF OrderInv, StoreInOrder
  <2> QED BY <2>2, <2>5, <2>6
<1> QED BY <1>2, <1>3, WorkEffect

(* Hence every step keeps the order. *)
LEMMA OrderStep ==
  ASSUME TypeOK, DownInv, QueuedInv, SnapshotInv, OrderInv, [Next]_vars
  PROVE  OrderInv'
BY StepKinds, CalmOrder, BootOrder, ReceiveOrder, SendOrder, WorkOrder

-----------------------------------------------------------------------------
(* The queue. *)

(* What the invariant says of a command in the queue. *)
Awaits(x, m) == x.pc = "wait" /\ Head(x.buffer) = m

(* A step that adds no command to the queue, takes none from it and leaves *)
(* the connections that wait alone.                                        *)
Quiet == /\ queue' \in {queue, Append(queue, Sentinel)}
         /\ \A d \in Clients : conn[d].pc = "wait" => /\ conn'[d].pc = "wait"
                                                      /\ conn'[d].buffer = conn[d].buffer

(* The other steps are these. *)
LEMMA QueueKinds ==
  ASSUME TypeOK, [Next]_vars
  PROVE  \/ Quiet \/ EndProcess \/ Work
         \/ \E c \in Clients : Put(c)
<1>1. ASSUME UNCHANGED conn, queue' \in {queue, Append(queue, Sentinel)} PROVE Quiet
  BY <1>1 DEF Quiet
<1>2. CASE Boot \/ Shutdown \/ Saver \/ Finished \/ UNCHANGED vars
  BY <1>1, <1>2 DEF Boot, Shutdown, Saver, SaverWakes, SaverTake, SaverSave, SaverEnds, Finished, vars
<1>3. CASE MainThread \/ Crash
  <2>1. CASE Exit \/ Crash
    BY <2>1 DEF Exit, Crash
  <2>2. CASE LeaveLoop \/ JoinClients \/ Flush \/ FlushSave \/ JoinSaver \/ StopRunning
               \/ PutSentinel \/ JoinWorker
    BY <1>1, <2>2 DEF LeaveLoop, JoinClients, Flush, FlushSave, JoinSaver, StopRunning,
                      PutSentinel, JoinWorker
  <2> QED BY <1>3, <2>1, <2>2 DEF MainThread
<1>4. ASSUME NEW c \in Clients, Accept(c) \/ Receive(c) \/ PeerLeaves(c) \/ ConnThread(c), ~Put(c)
      PROVE  Quiet
  <2>1. queue' = queue /\ conn[c].pc # "wait"
    BY <1>4 DEF Accept, Receive, PeerLeaves, ConnThread, CheckStop, RecvEnds, BufferEmpty, Reject,
                Execute, Send, ConnStep
  <2>2. \A d \in Clients : d # c => conn'[d] = conn[d]
    <3>1. CASE Accept(c) \/ PeerLeaves(c)
      BY <3>1, ConnEffects DEF Becomes
    <3>2. CASE Receive(c)
      BY <3>2, ReceiveEffect DEF Becomes
    <3>3. CASE CheckStop(c) \/ RecvEnds(c)
      BY <3>3, ConnEffects DEF Becomes
    <3>4. CASE BufferEmpty(c) \/ Send(c)
      BY <3>4, ConnEffects DEF Becomes
    <3>5. CASE Reject(c) \/ Execute(c)
      BY <3>5, ConnEffects DEF Becomes
    <3> QED BY <1>4, <3>1, <3>2, <3>3, <3>4, <3>5 DEF ConnThread
  <2> QED BY <2>1, <2>2 DEF Quiet
<1> QED BY <1>2, <1>3, <1>4 DEF Next

(* The queue after a step is what remains of it and one more element. *)
LEMMA QueuedAppend ==
  ASSUME TypeOK, QueuedInv, NEW m \in Messages \cup {Sentinel}, queue' = Append(queue, m),
         \A i \in 1..Len(queue) : queue[i] # Sentinel => Awaits(conn'[queue[i].client], queue[i]),
         m # Sentinel => /\ Awaits(conn'[m.client], m)
                         /\ \A i \in 1..Len(queue) :
                              queue[i] # Sentinel => queue[i].client # m.client
  PROVE  QueuedInv'
<1>1. /\ Len(queue) \in Nat /\ Len(queue') = Len(queue) + 1 /\ queue'[Len(queue) + 1] = m
      /\ \A i \in 1..Len(queue) : queue'[i] = queue[i]
  BY DEF TypeOK
<1>2. \A i \in 1..Len(queue') : i \in 1..Len(queue) \/ i = Len(queue) + 1
  BY <1>1
<1>3. \A i \in 1..Len(queue') : queue'[i] # Sentinel => Awaits(conn'[queue'[i].client], queue'[i])
  BY <1>1, <1>2 DEF Awaits
<1>4. ASSUME NEW i \in 1..Len(queue'), NEW j \in 1..Len(queue'),
             queue'[i] # Sentinel, queue'[j] # Sentinel, queue'[i].client = queue'[j].client
      PROVE  i = j
  BY <1>1, <1>2, <1>4 DEF QueuedInv
<1> QED BY <1>3, <1>4 DEF QueuedInv, Awaits

(* Every step keeps the queue as it should be. *)
LEMMA QueuedStep ==
  ASSUME TypeOK, QueuedInv, OrderInv, [Next]_vars
  PROVE  QueuedInv'
<1>1. /\ queue \in Seq(Messages \cup {Sentinel})
      /\ \A i \in 1..Len(queue) : queue[i] # Sentinel =>
           /\ queue[i] \in Messages /\ queue[i].client \in Clients
           /\ conn[queue[i].client].pc = "wait"
           /\ Head(conn[queue[i].client].buffer) = queue[i]
  BY DEF TypeOK, QueuedInv, Messages
<1>2. CASE Quiet
  <2>1. \A i \in 1..Len(queue) : queue[i] # Sentinel => Awaits(conn'[queue[i].client], queue[i])
    BY <1>1, <1>2 DEF Quiet, Awaits
  <2>2. CASE queue' = queue
    BY <2>1, <2>2 DEF QueuedInv, Awaits
  <2>3. CASE queue' = Append(queue, Sentinel)
    BY <2>1, <2>3, QueuedAppend
  <2> QED BY <1>2, <2>2, <2>3 DEF Quiet
<1>3. CASE EndProcess
  <2>1. queue' = <<>> /\ Len(<<>>) = 0 /\ 1..0 = {}
    BY <1>3 DEF EndProcess
  <2> QED BY <2>1 DEF QueuedInv
<1>4. ASSUME NEW c \in Clients, Put(c)
      PROVE  QueuedInv'
  <2> DEFINE b == conn[c].buffer
             m == Head(b)
  <2>1. b \in Seq(Messages) /\ b # <<>> /\ conn[c].pc = "put" /\ queue' = Append(queue, m)
    BY <1>4 DEF Put, ConnStep, TypeOK, Ready, Connections
  <2>2. Becomes(c, "wait", b, conn[c].result)
    BY <1>4, ConnEffects
  <2>3. \A d \in Clients : d # c => conn'[d] = conn[d]
    BY <2>2 DEF Becomes
  <2>4. conn'[c].pc = "wait" /\ conn'[c].buffer = b
    BY <2>2 DEF Becomes
  <2>5. Ordered(b, c, sent[c])
    BY DEF OrderInv, InOrder
  <2> HIDE DEF b
  <2>6. m \in Messages /\ m = b[1] /\ 1 \in 1..Len(b)
    BY <2>1
  <2>7. m.client = c
    BY <2>5, <2>6 DEF Ordered
  <2>8. Awaits(conn'[m.client], m)
    BY <2>4, <2>7 DEF Awaits
  <2> HIDE DEF m
  <2>9. ASSUME NEW i \in 1..Len(queue), queue[i] # Sentinel
        PROVE  Awaits(conn'[queue[i].client], queue[i]) /\ queue[i].client # m.client
    BY <1>1, <2>1, <2>3, <2>7, <2>9 DEF Awaits
  <2> QED BY <2>1, <2>6, <2>8, <2>9, QueuedAppend
<1>5. CASE Work
  <2> DEFINE m == Head(queue)
  <2>1. queue # <<>> /\ queue' = Tail(queue) /\ m = queue[1] /\ 1 \in 1..Len(queue)
    BY <1>5, WorkEffect
  <2>2. /\ Len(queue) \in Nat /\ Len(queue') = Len(queue) - 1
        /\ \A i \in 1..Len(queue') : queue'[i] = queue[i + 1] /\ i + 1 \in 1..Len(queue) /\ i + 1 # 1
    BY <1>1, <2>1
  <2>3. \/ m = Sentinel /\ UNCHANGED conn
        \/ m # Sentinel /\ \A d \in Clients : d # m.client => conn'[d] = conn[d]
    BY <1>5, WorkEffect, MessageTypes DEF Becomes
  <2> HIDE DEF m
  <2>4. ASSUME NEW i \in 1..Len(queue'), queue'[i] # Sentinel
        PROVE  Awaits(conn'[queue'[i].client], queue'[i])
    <3>1. /\ queue'[i] = queue[i + 1] /\ i + 1 \in 1..Len(queue) /\ i + 1 # 1
          /\ queue'[i].client \in Clients
      BY <1>1, <2>2, <2>4
    <3>2. m # Sentinel => queue'[i].client # m.client
      BY <2>1, <2>4, <3>1 DEF QueuedInv
    <3>3. conn'[queue'[i].client] = conn[queue'[i].client]
      BY <2>3, <3>1, <3>2
    <3>4. Awaits(conn[queue[i + 1].client], queue[i + 1])
      BY <1>1, <2>4, <3>1 DEF Awaits
    <3> QED BY <3>1, <3>3, <3>4 DEF Awaits
  <2>5. ASSUME NEW i \in 1..Len(queue'), NEW j \in 1..Len(queue'),
               queue'[i] # Sentinel, queue'[j] # Sentinel, queue'[i].client = queue'[j].client
        PROVE  i = j
    <3>1. i + 1 = j + 1
      BY <2>2, <2>5 DEF QueuedInv
    <3> QED BY <3>1
  <2> QED BY <2>4, <2>5 DEF QueuedInv, Awaits
<1> QED BY <1>2, <1>3, <1>4, <1>5, QueueKinds

-----------------------------------------------------------------------------
(* The store and its snapshots. *)

(* Nothing happens to a server that is down but a start. *)
LEMMA WhileDown ==
  ASSUME DownInv, main.pc = "none", [Next]_vars
  PROVE  Boot \/ UNCHANGED vars
<1>1. /\ saver.pc = "none" /\ ~worker
      /\ \A c \in Clients : conn[c].pc = "none" /\ ~conn[c].peer
  BY DEF DownInv, NoConn
<1>2. ~Shutdown /\ ~Crash /\ ~Saver /\ ~Work
  BY <1>1 DEF Shutdown, Crash, Saver, SaverWakes, SaverTake, SaverSave, SaverEnds, Work
<1>3. ~MainThread
  BY DEF MainThread, MainStep, LeaveLoop, JoinClients, Flush, FlushSave, JoinSaver, StopRunning,
         PutSentinel, JoinWorker, Exit
<1>4. ASSUME NEW c \in Clients PROVE ~(Accept(c) \/ Receive(c) \/ PeerLeaves(c) \/ ConnThread(c))
  BY <1>1 DEF Accept, Receive, PeerLeaves, ConnThread, CheckStop, RecvEnds, BufferEmpty, Reject,
              Execute, Put, Send, ConnStep
<1> QED BY <1>2, <1>3, <1>4 DEF Next, Finished

(* A step of a running server that touches no snapshot, though it may      *)
(* execute a write.                                                        *)
Keeps == /\ UNCHANGED <<disk, overtaken>>
         /\ \/ UNCHANGED <<store, late>>
            \/ \E k \in Keys : /\ store' = Append(store, k)
                              /\ late' = IF main.pc \in {"save"} \cup Flushed THEN late \cup {k}
                                                                            ELSE late
         /\ saver'.pc = "save" => saver' = saver
         /\ main'.pc # "none"
         /\ main'.pc = "save" => main' = main
         /\ main'.pc \in Flushed => main.pc \in Flushed

(* The other steps are these. *)
LEMMA StoreKinds ==
  ASSUME TypeOK, QueuedInv, main.pc # "none", [Next]_vars
  PROVE  Keeps \/ Shutdown \/ Flush \/ FlushSave \/ SaverTake \/ SaverSave \/ EndProcess
<1>1. ASSUME UNCHANGED <<main, saver, store, disk, overtaken, late>> PROVE Keeps
  BY <1>1 DEF Keeps
<1>2. CASE Finished \/ UNCHANGED vars
  BY <1>1, <1>2 DEF Finished, vars
<1>3. CASE SaverWakes \/ SaverEnds
  <2>1. saver'.pc \in {"take", "gone"}
    BY <1>3 DEF SaverWakes, SaverEnds, NoThread
  <2> QED BY <1>3, <2>1 DEF SaverWakes, SaverEnds, stored, Keeps
<1>4. CASE LeaveLoop \/ JoinClients \/ JoinSaver \/ StopRunning \/ PutSentinel \/ JoinWorker
  <2>1. UNCHANGED <<saver, store, disk, overtaken, late>>
    BY <1>4 DEF LeaveLoop, JoinClients, JoinSaver, StopRunning, PutSentinel, JoinWorker, stored
  <2>2. \E p \in {"join_clients", "flush"} \cup Flushed :
          main'.pc = p /\ (p \in Flushed => main.pc \in Flushed)
    BY <1>4 DEF LeaveLoop, JoinClients, JoinSaver, StopRunning, PutSentinel, JoinWorker, MainStep,
                TypeOK, MainThreads, Flushed
  <2> QED BY <2>1, <2>2 DEF Keeps, Flushed
<1>5. CASE Exit \/ Crash
  BY <1>5 DEF Exit, Crash
<1>6. CASE Work
  <2> DEFINE m == Head(queue)
  <2>1. UNCHANGED <<main, saver, disk, overtaken>>
    BY <1>6, WorkEffect
  <2>2. UNCHANGED <<store, late>> \/ (m \in Messages /\ Execution(m))
    BY <1>6, WorkEffect
  <2> HIDE DEF m
  <2> QED BY <2>1, <2>2, MessageTypes DEF Keeps, Execution
<1>7. ASSUME NEW c \in Clients, Accept(c) \/ Receive(c) \/ PeerLeaves(c) \/ ConnThread(c)
      PROVE  Keeps
  BY <1>1, <1>7 DEF Accept, Receive, PeerLeaves, ConnThread, CheckStop, RecvEnds, BufferEmpty,
                    Reject, Execute, Put, Send, stored
<1>8. ~Boot
  BY DEF Boot
<1> QED BY <1>2, <1>3, <1>4, <1>5, <1>6, <1>7, <1>8 DEF Next, MainThread, Saver

(* The process ends as a whole. *)
LEMMA DownStep ==
  ASSUME TypeOK, QueuedInv, DownInv, [Next]_vars
  PROVE  DownInv'
<1>1. CASE main.pc = "none"
  <2>1. CASE Boot
    BY <2>1 DEF Boot, DownInv, NoThread
  <2>2. CASE UNCHANGED vars
    BY <2>2 DEF vars, DownInv
  <2> QED BY <1>1, <2>1, <2>2, WhileDown
<1>2. CASE main.pc # "none"
  <2>1. CASE EndProcess
    BY <2>1 DEF EndProcess, DownInv, NoThread
  <2>2. CASE Keeps \/ Shutdown \/ Flush \/ FlushSave \/ SaverTake \/ SaverSave
    BY <1>2, <2>2 DEF Keeps, Shutdown, Flush, FlushSave, SaverTake, SaverSave, DownInv, NoThread
  <2> QED BY <1>2, <2>1, <2>2, StoreKinds
<1> QED BY <1>1, <1>2

(* A store may start from a prefix of the store. *)
LEMMA PrefixSound ==
  ASSUME TypeOK, OrderInv, NEW s \in Seq(Keys), IsPrefix(s, store)
  PROVE  Sound(s)
<1>1. /\ Len(s) \in Nat /\ Len(store) \in Nat /\ Len(s) =< Len(store)
      /\ \A i \in 1..Len(s) : s[i] = store[i] /\ i \in 1..Len(store)
      /\ DOMAIN s = 1..Len(s) /\ DOMAIN store = 1..Len(store)
  BY OrderParts, PrefixPointwise
<1>2. IsInjective(s)
  BY <1>1, OrderParts DEF IsInjective
<1>3. \A i \in 1..Len(store) : /\ store[i][2] =< sent[store[i][1]]
                               /\ ~Refused(replies[store[i][1]], store[i][2])
  BY OrderParts DEF ExecutedBefore
<1> QED BY <1>1, <1>2, <1>3 DEF Sound

(* Whatever is saved stays a prefix of the store. *)
LEMMA SnapshotStep ==
  ASSUME TypeOK, QueuedInv, DownInv, OrderInv, SnapshotInv, [Next]_vars
  PROVE  SnapshotInv'
<1>1. /\ store \in Seq(Keys) /\ disk \in Seq(Keys)
      /\ main.entries \in Seq(Keys) /\ saver.entries \in Seq(Keys)
  BY DEF TypeOK, MainThreads, Savers
<1>2. CASE main.pc = "none"
  <2>1. CASE Boot
    <3>1. main'.pc = "serve" /\ saver'.pc = "wait" /\ store' = disk /\ disk' = disk
      BY <2>1 DEF Boot, NoThread
    <3>2. IsPrefix(disk, disk)
      BY <1>1, PrefixGrows
    <3> QED BY <3>1, <3>2 DEF SnapshotInv
  <2>2. CASE UNCHANGED vars
    BY <2>2 DEF vars, SnapshotInv, Sound, Refused
  <2> QED BY <1>2, <2>1, <2>2, WhileDown
<1>3. CASE main.pc # "none" /\ EndProcess
  <2>1. Sound(disk)
    BY <1>1, <1>3, PrefixSound DEF SnapshotInv
  <2>2. main'.pc = "none" /\ saver'.pc = "none" /\ UNCHANGED <<disk, sent, replies>>
    BY <1>3 DEF EndProcess, NoThread
  <2> QED BY <2>1, <2>2 DEF SnapshotInv, Sound, Refused
<1>4. CASE main.pc # "none" /\ Keeps
  <2>1. \A s \in Seq(Keys) : IsPrefix(s, store) => IsPrefix(s, store')
    BY <1>1, <1>4, PrefixGrows DEF Keeps
  <2> QED BY <1>1, <1>4, <2>1 DEF Keeps, SnapshotInv
<1>5. CASE main.pc # "none" /\ (Flush \/ SaverTake)
  <2>1. IsPrefix(store, store)
    BY <1>1, PrefixGrows
  <2>2. CASE Flush
    BY <1>5, <2>1, <2>2 DEF Flush, SnapshotInv, stored
  <2>3. CASE SaverTake
    BY <1>5, <2>1, <2>3 DEF SaverTake, SnapshotInv, stored
  <2> QED BY <1>5, <2>2, <2>3
<1>6. CASE main.pc # "none" /\ FlushSave
  <2>1. main'.pc = "join_saver" /\ store' = store /\ saver' = saver
    BY <1>6 DEF FlushSave, NoThread
  <2>2. IsPrefix(disk', store)
    BY <1>6 DEF FlushSave, SaveEntries, SnapshotInv
  <2> QED BY <2>1, <2>2 DEF SnapshotInv
<1>7. CASE main.pc # "none" /\ SaverSave
  <2>1. saver'.pc = "wait" /\ store' = store /\ main' = main
    BY <1>7 DEF SaverSave, NoThread
  <2>2. IsPrefix(disk', store)
    BY <1>7 DEF SaverSave, SaveEntries, SnapshotInv
  <2> QED BY <1>7, <2>1, <2>2 DEF SnapshotInv
<1>8. CASE main.pc # "none" /\ Shutdown
  BY <1>8 DEF Shutdown, SnapshotInv
<1> QED BY <1>2, <1>3, <1>4, <1>5, <1>6, <1>7, <1>8, StoreKinds

(* What the file lacks at the end of a clean shutdown is late. *)
LEMMA LateStep ==
  ASSUME TypeOK, QueuedInv, DownInv, LateInv, [Next]_vars
  PROVE  LateInv'
<1>1. store \in Seq(Keys)
  BY DEF TypeOK
<1>2. CASE main.pc = "none"
  <2>1. CASE Boot
    BY <2>1 DEF Boot, NoThread, LateInv, Flushed
  <2>2. CASE UNCHANGED vars
    BY <2>2 DEF vars, LateInv
  <2> QED BY <1>2, <2>1, <2>2, WhileDown
<1>3. CASE EndProcess
  BY <1>3 DEF EndProcess, NoThread, LateInv, Flushed
<1>4. CASE main.pc # "none" /\ Keeps
  <2>1. /\ main'.pc = "save" => main' = main
        /\ main'.pc \in Flushed => main.pc \in Flushed
        /\ UNCHANGED <<disk, overtaken>>
    BY <1>4 DEF Keeps
  <2>2. CASE UNCHANGED <<store, late>>
    BY <2>1, <2>2 DEF LateInv
  <2>3. ASSUME NEW k \in Keys, store' = Append(store, k),
               late' = IF main.pc \in {"save"} \cup Flushed THEN late \cup {k} ELSE late
        PROVE  LateInv'
    <3>1. ToSet(store') = ToSet(store) \cup {k}
      BY <1>1, <2>3, ToSetGrows
    <3> QED BY <2>1, <2>3, <3>1 DEF LateInv
  <2> QED BY <1>4, <2>2, <2>3 DEF Keeps
<1>5. CASE Flush
  BY <1>5 DEF Flush, LateInv, stored, Flushed
<1>6. CASE FlushSave
  <2>1. /\ main'.pc = "join_saver" /\ store' = store /\ late' = late /\ main.pc = "save"
        /\ ~overtaken' => disk' = main.entries
    BY <1>6 DEF FlushSave, NoThread
  <2> QED BY <2>1 DEF LateInv
<1>7. CASE SaverTake
  BY <1>7 DEF SaverTake, LateInv, stored
<1>8. CASE SaverSave
  <2>1. /\ UNCHANGED <<main, store, late>>
        /\ main.pc \in Flushed => overtaken'
    BY <1>8 DEF SaverSave
  <2> QED BY <2>1 DEF LateInv
<1>9. CASE Shutdown
  BY <1>9 DEF Shutdown, LateInv, Flushed
<1> QED BY <1>2, <1>3, <1>4, <1>5, <1>6, <1>7, <1>8, <1>9, StoreKinds

-----------------------------------------------------------------------------
(* The invariant and what follows from it. *)

(* It holds before the first start. *)
LEMMA Initially == Init => IInv
<1> SUFFICES ASSUME Init PROVE IInv
  OBVIOUS
<1>1. Len(<<>>) = 0 /\ 1..0 = {}
  OBVIOUS
<1>2. TypeOK
  <2>1. /\ conn \in [Clients -> Connections] /\ (\A c \in Clients : Ready(conn[c]))
        /\ main \in MainThreads /\ saver \in Savers
    BY ThreadTypes DEF Init
  <2>2. /\ queue \in Seq(Messages \cup {Sentinel}) /\ store \in Seq(Keys) /\ disk \in Seq(Keys)
        /\ sent \in [Clients -> Nat] /\ replies \in [Clients -> Seq(Replies)]
    BY ThreadTypes DEF Init
  <2>3. /\ running \in BOOLEAN /\ worker \in BOOLEAN /\ stopping \in BOOLEAN /\ overtaken \in BOOLEAN
        /\ due \subseteq Keys /\ late \subseteq Keys
    BY DEF Init
  <2>4. boots \in 0..MaxBoots
    BY BoundAssumption DEF Init
  <2> QED BY <2>1, <2>2, <2>3, <2>4 DEF TypeOK
<1>3. DownInv /\ QueuedInv
  BY <1>1 DEF Init, DownInv, QueuedInv, NoThread
<1>4. IsInjective(<<>>)
  BY <1>1 DEF IsInjective
<1>5. OrderInv
  <2>1. ASSUME NEW c \in Clients PROVE InOrder(c)
    BY <1>1 DEF Init, InOrder, Ordered, AnsweredBefore, InTurn, Acknowledging, Accounted, NoConn
  <2> QED BY <1>1, <1>4, <2>1 DEF Init, OrderInv, StoreInOrder
<1>6. SnapshotInv /\ LateInv
  BY <1>1, <1>4 DEF Init, SnapshotInv, Sound, LateInv, Flushed, NoThread
<1> QED BY <1>2, <1>3, <1>5, <1>6 DEF IInv

(* Every step keeps it. *)
LEMMA Inductive == IInv /\ [Next]_vars => IInv'
<1> SUFFICES ASSUME IInv, [Next]_vars PROVE IInv'
  OBVIOUS
<1>1. TypeOK /\ DownInv /\ QueuedInv /\ OrderInv /\ SnapshotInv /\ LateInv
  BY DEF IInv
<1>2. TypeOK'
  BY <1>1, TypeStep
<1>3. OrderInv'
  BY <1>1, OrderStep
<1>4. QueuedInv' /\ DownInv'
  BY <1>1, QueuedStep, DownStep
<1>5. SnapshotInv' /\ LateInv'
  BY <1>1, SnapshotStep, LateStep
<1> QED BY <1>2, <1>3, <1>4, <1>5 DEF IInv

(* So it always holds. *)
LEMMA Invariant == Spec => []IInv
BY Initially, Inductive, PTL DEF Spec

(* Type correctness: whatever the peers send and wherever the process is   *)
(* killed, every thread is at a point of its code with the data that point *)
(* needs; a connection that waits for the executor or answers has a        *)
(* command, one that answers has its result.                               *)
THEOREM TypeCorrect == Spec => []TypeOK
<1>1. IInv => TypeOK
  BY DEF IInv
<1> QED BY <1>1, Invariant, PTL

(* Every command that handle_client takes from a socket is executed at     *)
(* most once, over restarts too, never if its answer was not "ok", and its *)
(* peer is answered in the order in which it sent, at most once for each   *)
(* command; and on an open connection none is lost: it is still in the     *)
(* buffer, was answered (and executed, if with "ok"), or had been read     *)
(* behind a malformed one that was answered.                               *)
THEOREM RunExactlyOnce == Spec => []ExactlyOnce
<1>1. ASSUME TypeOK, OrderInv PROVE ExactlyOnce
  <2>1. ASSUME NEW c \in Clients, NEW x \in ToSet(replies[c]), x.result # "ok",
               <<c, x.n>> \in ToSet(store)
        PROVE  FALSE
    <3>1. store \in Seq(Keys)
      BY <1>1, OrderParts
    <3>2. \E i \in 1..Len(store) : store[i] = <<c, x.n>>
      BY <2>1, <3>1 DEF ToSet
    <3>3. PICK i \in 1..Len(store) : store[i][1] = c /\ store[i][2] = x.n
      BY <3>2
    <3>4. ~Refused(replies[c], x.n)
      BY <1>1, <3>3, OrderParts
    <3> QED BY <2>1, <3>4 DEF Refused
  <2>2. \A c \in Clients : InTurn(replies[c]) /\ Accounted(c)
    BY <1>1, OrderParts DEF InOrder
  <2> QED BY <1>1, <2>1, <2>2, OrderParts DEF ExactlyOnce, Accounted
<1>2. IInv => ExactlyOnce
  BY <1>1 DEF IInv
<1> QED BY <1>2, Invariant, PTL

(* The snapshot file of a running server is a state its store went         *)
(* through, whichever of the two threads that save wrote it last and       *)
(* whatever saves failed.                                                  *)
THEOREM DiskAlwaysPrefix == Spec => []DiskIsPrefix
<1>1. IInv => DiskIsPrefix
  BY DEF IInv, SnapshotInv, DiskIsPrefix
<1> QED BY <1>1, Invariant, PTL

(* When a shutdown comes to its end, every acknowledged write of the store *)
(* is in the snapshot file, unless the final save failed, the snapshot     *)
(* thread saved after it, or the write was executed after the final copy.  *)
THEOREM CleanShutdownSaves == Spec => []SavedUnlessLate
<1>1. IInv => SavedUnlessLate
  BY DEF IInv, LateInv, Flushed, SavedUnlessLate
<1> QED BY <1>1, Invariant, PTL
=============================================================================
