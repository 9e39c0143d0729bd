-------------------------- MODULE RedisConnection --------------------------
(***************************************************************************)
(* The byte streams between the app server and Mini Redis.  Request        *)
(* threads of the app server share one RedisRESPClient                     *)
(* (app_server/redis_client.py): under its lock, execute() sends a command *)
(* and reads bytes until they make a reply; after an OSError it does so    *)
(* once more on a new connection.  On the other side handle_client         *)
(* (server/server.py) reads bytes until they make a command.  TCP delivers *)
(* the bytes in order, in chunks of any size.  A behaviour follows either  *)
(* the app server or a raw client that has pipelined a stream of commands: *)
(* the connections of two clients share nothing here.                      *)
(***************************************************************************)
EXTENDS RESP, FiniteSets

CONSTANTS
  Threads,    \* request threads of the app server
  Answer,     \* what the server answers to each command, a sequence of texts
  Calls,      \* the commands that each thread sends
  Streams,    \* what raw clients send: commands, then some other bytes
  MaxCalls,   \* bound on the calls of execute()
  MaxFaults,  \* bound on timeouts, resets, refused and closed connections
  MaxCuts,    \* bound on the calls of recv() that return only part of the bytes
  None

ASSUME NoneAssumption == None \notin Threads
ASSUME BoundsAssumption == MaxCalls \in Nat /\ MaxFaults \in Nat /\ MaxCuts \in Nat
ASSUME AnswersAssumption ==
  \A c \in DOMAIN Answer : c \in Seq(Seq(Chars)) /\ IsReply(Answer[c])
ASSUME CallsAssumption == \A t \in Threads : Calls[t] \subseteq DOMAIN Answer

(* The bytes after the commands of a stream do not make another one. *)
ASSUME StreamsAssumption ==
  \A s \in Streams : /\ s.commands \in Seq(DOMAIN Answer) /\ s.rest \in Seq(Byte)
                     /\ ParseFrame(s.rest).tag # "ok"

VARIABLES
  peer,     \* "app_server" or "raw_client"
  issued,   \* the commands sent, in the order of their calls
  thread,   \* the call of execute() each thread is in
  holder,   \* who holds _connection_lock
  current,  \* _connection, an index into conns, or 0
  conns,    \* the connections, in the order in which they were made
  faults,
  cuts

vars == <<peer, issued, thread, holder, current, conns, faults, cuts>>

(* A connection: the bytes in flight, the buffer of handle_client, and     *)
(* whether it is open, closed by the client ("fin") or the server ("eof"), *)
(* or broken ("reset").  For the properties: the calls whose command was   *)
(* sent, the commands executed, whether the server saw a protocol error,   *)
(* and whether a call gave up waiting and left the connection in use.      *)
NewConn == [c2s |-> <<>>, s2c |-> <<>>, buffer |-> <<>>, state |-> "open",
            sent |-> <<>>, executed |-> <<>>, garbled |-> FALSE, lagging |-> FALSE]

Bytes(stream) == FlattenSeq([i \in DOMAIN stream.commands |->
                               EncodeCommand(stream.commands[i])]) \o stream.rest

NoCall == [pc |-> "idle", id |-> 0, attempt |-> 1, buffer |-> <<>>, clean |-> TRUE,
           result |-> [tag |-> "none"]]

Init ==
  /\ thread = [t \in Threads |-> NoCall]
  /\ holder = None
  /\ current = 0
  /\ faults = 0
  /\ cuts = 0
  /\ \/ /\ peer = "app_server"
        /\ issued = <<>>
        /\ conns = <<>>
     \/ /\ peer = "raw_client"
        /\ \E s \in Streams :
             /\ issued = s.commands
             /\ conns = <<[NewConn EXCEPT !.c2s = Bytes(s),
                                          !.sent = [i \in DOMAIN s.commands |-> i]]>>

Fault == faults < MaxFaults /\ faults' = faults + 1

(* recv() returns the first n bytes of those on their way, or all of them. *)
Chunk(bytes, n) ==
  /\ n \in 1..Len(bytes)
  /\ \/ n = Len(bytes) /\ UNCHANGED cuts
     \/ n < Len(bytes) /\ cuts < MaxCuts /\ cuts' = cuts + 1

-----------------------------------------------------------------------------
(* app_server/redis_client.py *)

At(t, pc) == thread[t].pc = pc

(* The array that each command method expects, and the kinds of its items. *)
Flag == {"int"}
Number == {"int"}
Name == {"str"}
OptName == {"str", "null"}
SeatResult == <<Flag, Name, OptName, Number>>
Shape == [SEAT_STATUS        |-> <<Name, OptName, Number>>,
          RESERVE_SEAT       |-> SeatResult,
          CONFIRM_SEAT       |-> SeatResult,
          FORCE_CONFIRM_SEAT |-> SeatResult,
          RELEASE_SEAT       |-> SeatResult,
          JOIN_QUEUE         |-> <<Flag, Number, Number>>,
          LEAVE_QUEUE        |-> <<Flag, Number, Number>>,
          QUEUE_POSITION     |-> <<Number, Number>>,
          PEEK_QUEUE         |-> <<OptName, Number>>]

(* _expect_array, _expect_string and the like *)
Fits(reply, shape) ==
  /\ Is(reply, "array")
  /\ Len(reply.array) = Len(shape)
  /\ \A i \in DOMAIN shape : \E kind \in shape[i] : Is(reply.array[i], kind)

(* The handlers answer a call with an error or with the array it expects. *)
ASSUME ShapesAssumption ==
  \A t \in Threads : \A c \in Calls[t] :
    Answer[c] = ErrorReply \/ Fits(Answer[c], Shape[c[1][1]])

Upstream == [tag |-> "upstream"]
Conflict == [tag |-> "conflict"]
Value(reply) == [tag |-> "value", value |-> reply]

(* execute() returns or raises, and the command method decodes a reply. *)
End(t, result) ==
  /\ holder' = None
  /\ thread' = [thread EXCEPT ![t].pc = "idle", ![t].buffer = <<>>, ![t].result = result]

Begin(t, tokens) ==
  /\ peer = "app_server"
  /\ At(t, "idle")
  /\ Len(issued) < MaxCalls
  /\ issued' = Append(issued, tokens)
  /\ thread' = [thread EXCEPT ![t] = [NoCall EXCEPT !.pc = "lock", !.id = Len(issued) + 1]]
  /\ UNCHANGED <<peer, holder, current, conns, faults, cuts>>

EnterUnlocked(t) ==
  /\ At(t, "lock")
  /\ IF current # 0 THEN UNCHANGED <<current, conns>>
     ELSE current' = Len(conns) + 1 /\ conns' = Append(conns, NewConn)
  /\ thread' = [thread EXCEPT ![t].pc = "send"]
  /\ UNCHANGED <<peer, issued, holder, faults, cuts>>

(* The lock is taken and _ensure_connection called. *)
Enter(t) ==
  /\ At(t, "lock")
  /\ holder = None
  /\ \/ /\ current # 0
        /\ UNCHANGED <<current, conns, faults>>
        /\ holder' = t
        /\ thread' = [thread EXCEPT ![t].pc = "send"]
     \/ /\ current = 0
        /\ current' = Len(conns) + 1
        /\ conns' = Append(conns, NewConn)
        /\ UNCHANGED faults
        /\ holder' = t
        /\ thread' = [thread EXCEPT ![t].pc = "send"]
     \/ /\ current = 0
        /\ Fault
        /\ UNCHANGED <<current, conns>>
        /\ End(t, Upstream)
  /\ UNCHANGED <<peer, issued, cuts>>

(* _close_connection: what the server has not read yet may still reach it. *)
Closed == [conns EXCEPT ![current].state = IF @ = "open" THEN "fin" ELSE "reset",
                        ![current].s2c = <<>>]

RetryForever(t) ==
  /\ current' = Len(conns) + 1
  /\ conns' = Append(Closed, NewConn)
  /\ thread' = [thread EXCEPT ![t].pc = "send", ![t].attempt = 2, ![t].buffer = <<>>]
  /\ UNCHANGED holder

KeepConnection(t) ==
  /\ UNCHANGED <<current, conns>>
  /\ \/ /\ thread[t].attempt = 1
        /\ thread' = [thread EXCEPT ![t].pc = "send", ![t].attempt = 2, ![t].buffer = <<>>]
        /\ UNCHANGED holder
     \/ thread[t].attempt = 2 /\ End(t, Upstream)

(* The first OSError closes the connection and makes another; if that      *)
(* fails or another OSError follows, the call fails.  The connection of    *)
(* the second attempt is not closed.                                       *)
OnOSError(t) ==
  \/ /\ thread[t].attempt = 1
     /\ current' = Len(conns) + 1
     /\ conns' = Append(Closed, NewConn)
     /\ thread' = [thread EXCEPT ![t].pc = "send", ![t].attempt = 2, ![t].buffer = <<>>]
     /\ UNCHANGED holder
  \/ /\ thread[t].attempt = 2
     /\ conns' = [conns EXCEPT ![current].lagging = TRUE]
     /\ UNCHANGED current
     /\ End(t, Upstream)

(* The same, when the new connection is refused. *)
Refuse(t) ==
  /\ thread[t].attempt = 1
  /\ current' = 0
  /\ conns' = Closed
  /\ End(t, Upstream)

Send(t) ==
  /\ At(t, "send")
  /\ conns[current].state # "reset"
  /\ conns' = [conns EXCEPT ![current].c2s = @ \o EncodeCommand(issued[thread[t].id]),
                            ![current].sent = Append(@, thread[t].id)]
  /\ thread' = [thread EXCEPT ![t].pc = "read", ![t].clean = ~conns[current].lagging]
  /\ UNCHANGED <<peer, issued, holder, current, faults, cuts>>

(* sendall() or recv() finds the connection broken. *)
Broken(t) ==
  /\ thread[t].pc \in {"send", "read"}
  /\ conns[current].state = "reset"
  /\ \/ OnOSError(t) /\ UNCHANGED faults
     \/ Refuse(t) /\ Fault
  /\ UNCHANGED <<peer, issued, cuts>>

TimesOut(t) ==
  /\ At(t, "read")
  /\ Fault
  /\ OnOSError(t) \/ Refuse(t)
  /\ UNCHANGED <<peer, issued, cuts>>

(* _read_reply has read the bytes in buffer. *)
TryParse(t, buffer, parsed) ==
  \/ /\ parsed.tag = "incomplete"
     /\ thread' = [thread EXCEPT ![t].buffer = buffer]
     /\ UNCHANGED holder
  \/ parsed.tag = "refused" /\ End(t, Conflict)
  \/ parsed.tag = "malformed" /\ End(t, Upstream)
  \/ /\ parsed.tag = "ok"
     /\ End(t, IF /\ parsed.next = Len(buffer) + 1
                  /\ Fits(parsed.value, Shape[issued[thread[t].id][1][1]])
               THEN Value(parsed.value) ELSE Upstream)

(* recv() returns some of the bytes on their way. *)
Read(t) ==
  /\ At(t, "read")
  /\ \E n \in DOMAIN conns[current].s2c :
       /\ Chunk(conns[current].s2c, n)
       /\ conns' = [conns EXCEPT ![current].s2c = SubSeq(@, n + 1, Len(@))]
       /\ \E buffer \in {thread[t].buffer \o SubSeq(conns[current].s2c, 1, n)} :
            \E parsed \in {ParseReply(buffer)} : TryParse(t, buffer, parsed)
  /\ UNCHANGED <<peer, issued, current, faults>>

(* The server has closed the connection: it is closed here too, and the    *)
(* call is not repeated.                                                   *)
ReadEof(t) ==
  /\ At(t, "read")
  /\ conns[current].state = "eof"
  /\ conns[current].s2c = <<>>
  /\ conns' = Closed
  /\ current' = 0
  /\ End(t, Upstream)
  /\ UNCHANGED <<peer, issued, faults, cuts>>

-----------------------------------------------------------------------------
(* server/server.py, the thread of connection c in handle_client *)

(* The inner loop ends when the buffer holds no complete command. *)
Waiting(c) == ParseFrame(conns[c].buffer).tag = "incomplete"

Recv(c) ==
  /\ conns[c].state \in {"open", "fin"}
  /\ Waiting(c)
  /\ \E n \in DOMAIN conns[c].c2s :
       /\ Chunk(conns[c].c2s, n)
       /\ conns' = [conns EXCEPT ![c].buffer = @ \o SubSeq(conns[c].c2s, 1, n),
                                 ![c].c2s = SubSeq(@, n + 1, Len(@))]
  /\ UNCHANGED <<peer, issued, thread, holder, current, faults>>

(* send_response: nobody reads the bytes of a closed connection. *)
Sent(c, bytes) == IF conns[c].state = "open" THEN conns[c].s2c \o bytes ELSE conns[c].s2c

(* A command that no handler knows is answered with an error. *)
AnswerTo(command) == IF command \in DOMAIN Answer THEN Answer[command] ELSE ErrorReply

Respond(c, frame) ==
  \/ /\ frame.tag = "ok"
     /\ conns' = [conns EXCEPT
          ![c].s2c = Sent(c, EncodeReply(AnswerTo(frame.value))),
          ![c].buffer = SubSeq(@, frame.next, Len(@)),
          ![c].executed = IF conns[c].garbled THEN @ ELSE Append(@, frame.value)]
  \/ /\ frame.tag = "malformed"
     /\ conns' = [conns EXCEPT ![c].s2c = Sent(c, EncodeReply(ErrorReply)),
                               ![c].buffer = <<>>,
                               ![c].garbled = TRUE]

(* One round of the inner loop. *)
Handle(c) ==
  /\ conns[c].state \in {"open", "fin", "reset"}
  /\ \E frame \in {ParseFrame(conns[c].buffer)} : Respond(c, frame)
  /\ UNCHANGED <<peer, issued, thread, holder, current, faults, cuts>>

(* The server reads the end of a connection that the client closed.  Close *)
(* with a reply unread is a reset, and drops what the server has not read. *)
Leave(c) ==
  /\ conns[c].state = "fin"
  /\ Waiting(c)
  /\ conns' = [conns EXCEPT ![c].state = "reset", ![c].c2s = <<>>, ![c].buffer = <<>>]
  /\ UNCHANGED <<peer, issued, thread, holder, current, faults, cuts>>

(* stop_event is set: the thread closes the connection at its next round.  *)
Stop(c) ==
  /\ conns[c].state = "open"
  /\ Waiting(c)
  /\ Fault
  /\ conns' = [conns EXCEPT ![c].state = "eof", ![c].c2s = <<>>, ![c].buffer = <<>>]
  /\ UNCHANGED <<peer, issued, thread, holder, current, cuts>>

(* The connection breaks.  Commands already read are still executed. *)
Reset(c) ==
  /\ conns[c].state \in {"open", "eof"}
  /\ Fault
  /\ conns' = [conns EXCEPT ![c].state = "reset", ![c].c2s = <<>>, ![c].s2c = <<>>]
  /\ UNCHANGED <<peer, issued, thread, holder, current, cuts>>

-----------------------------------------------------------------------------
ClientStep(t) == Enter(t) \/ Send(t) \/ Broken(t) \/ Read(t) \/ ReadEof(t)
ServerStep(c) == Recv(c) \/ Handle(c)

(* No call is in progress, none is to come, and the server has no bytes.   *)
Quiet == /\ \A t \in Threads : At(t, "idle")
         /\ peer = "raw_client" \/ Len(issued) = MaxCalls
         /\ UNCHANGED vars

Next ==
  \/ \E t \in Threads : \/ \E tokens \in Calls[t] : Begin(t, tokens)
                        \/ ClientStep(t)
                        \/ TimesOut(t)
  \/ \E c \in DOMAIN conns : ServerStep(c) \/ Leave(c) \/ Stop(c) \/ Reset(c)
  \/ Quiet

Spec == Init /\ [][Next]_vars

-----------------------------------------------------------------------------
(* Properties. *)

(* Type invariant: the lock, the connection and the buffers of a call are  *)
(* in states that execute() can be in.                                     *)
TypeOK ==
  /\ peer \in {"app_server", "raw_client"}
  /\ issued \in Seq(DOMAIN Answer)
  /\ holder \in Threads \cup {None}
  /\ current \in 0..Len(conns)
  /\ faults \in 0..MaxFaults /\ cuts \in 0..MaxCuts
  /\ \A t \in Threads :
       /\ thread[t].pc \in {"idle", "lock", "send", "read"}
       /\ thread[t].pc \in {"send", "read"} <=> holder = t
       /\ thread[t].buffer # <<>> => At(t, "read")
       /\ At(t, "read") => current # 0
  /\ \A c \in DOMAIN conns :
       /\ conns[c].state \in {"open", "fin", "eof", "reset"}
       /\ conns[c].state = "fin" => c # current

(* However TCP cuts the streams, the server executes exactly the commands  *)
(* sent on a connection, in order, up to the first malformed bytes; once   *)
(* it has read all of an open connection nothing is left out.              *)
CommandsAsSent ==
  \A c \in DOMAIN conns :
    LET x    == conns[c]
        sent == [i \in DOMAIN x.sent |-> issued[x.sent[i]]]
    IN /\ IsPrefix(x.executed, sent)
       /\ x.garbled => x.executed = sent /\ peer = "raw_client"
       /\ (x.state = "open" /\ x.c2s = <<>> /\ Waiting(c)) => x.executed = sent

(* What the server has sent back on a connection. *)
Answers(executed) == FlattenSeq([i \in DOMAIN executed |-> EncodeReply(AnswerTo(executed[i]))])

(* A client that reads from some byte of the stream on takes it for this.  *)
StandsIn(value, stream) ==
  \E i \in DOMAIN stream : \E parsed \in {ParseReply(SubSeq(stream, i, Len(stream)))} :
     parsed.tag = "ok" /\ parsed.value = value

(* A byte that begins an array is found inside the bytes of a reply, in a  *)
(* user id, say.                                                           *)
HoldsArray(reply) == "*" \in ToSet(Tail(EncodeReply(reply)))

(* A call returns the answer to its own command, however the reply is cut, *)
(* unless an earlier call gave up on the same connection.  Then it returns *)
(* at worst what stands in the bytes of one connection, never parts of two *)
(* (execute() drops what it has read before it tries again): the whole     *)
(* answer to an earlier command, unless a text in an answer reads like one.*)
OwnReply ==
  \A t \in Threads :
    LET x == thread[t]
    IN /\ (x.result.tag = "value" /\ x.clean) => x.result.value = Answer[issued[x.id]]
       /\ (x.result.tag = "conflict" /\ x.clean) => Answer[issued[x.id]] = ErrorReply
       /\ (x.result.tag = "value" /\ ~x.clean) =>
            /\ \E c \in DOMAIN conns : StandsIn(x.result.value, Answers(conns[c].executed))
            /\ \E i \in DOMAIN issued : \/ x.result.value = Answer[issued[i]]
                                        \/ HoldsArray(Answer[issued[i]])

(* How often the command of call i was executed. *)
Executions(i) == Cardinality({p \in UNION {{<<c, k>> : k \in DOMAIN conns[c].executed} :
                                             c \in DOMAIN conns} : conns[p[1]].sent[p[2]] = i})

(* The retry of execute() makes a command run twice at most, and one that  *)
(* is answered on a connection in step has run.                            *)
AtMostTwice ==
  /\ \A i \in DOMAIN issued : Executions(i) <= 2
  /\ \A t \in Threads :
       (thread[t].result.tag \in {"value", "conflict"} /\ thread[t].clean)
         => Executions(thread[t].id) >= 1

(* Encoder and parser agree on every reply: without a fault no call fails  *)
(* with UpstreamError, however its reply is cut.                           *)
NoFalseAlarm ==
  faults = 0 => \A t \in Threads : thread[t].result # Upstream

(* On a connection in step no call waits for bytes that never come: until  *)
(* the connection ends, part of the request or of the reply is on its way, *)
(* or the server has a command to work on.                                 *)
ReplyOnItsWay ==
  \A t \in Threads :
    (At(t, "read") /\ thread[t].clean) =>
      \/ conns[current].state # "open"
      \/ conns[current].c2s # <<>>
      \/ conns[current].s2c # <<>>
      \/ ~Waiting(current)
=============================================================================
