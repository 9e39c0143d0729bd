--------------------------- MODULE MiniRedisServer ---------------------------
(***************************************************************************)
(* The process around the storage engine (server/server.py,                *)
(* server/executor.py, storage/sqlite_store.py): the main thread that      *)
(* boots and shuts down, one thread per connection, the single worker of   *)
(* SerialCommandExecutor behind its queue, and the thread that saves       *)
(* snapshots.  What commands compute is StorageEngine's subject; here a    *)
(* command is a write of a key of its own, a command that raises, or bytes *)
(* that are no command, and the store is the sequence of the writes.       *)
(***************************************************************************)
EXTENDS Integers, Sequences, SequencesExt, Functions

CONSTANTS
  Clients,    \* peers; each has at most one connection at a time
  Kinds,      \* what they send: "write", "invalid", "garbage"
  MaxSent,    \* bound on the commands of all the peers
  MaxChunk,   \* bound on the commands one recv() returns
  MaxBoots,   \* bound on the number of times the server starts
  Periodic,   \* TRUE if the server may run longer than the snapshot interval
  DiskFails,  \* TRUE if saving a snapshot may fail
  Crashes     \* TRUE if the process may be killed

ASSUME BoundAssumption == /\ MaxSent \in Nat \ {0} /\ MaxBoots \in Nat \ {0}
                          /\ MaxChunk \in 1..MaxSent
ASSUME FlagAssumption  == {Periodic, DiskFails, Crashes} \subseteq BOOLEAN
ASSUME KindAssumption  == Kinds \subseteq {"write", "invalid", "garbage"}

VARIABLES
  main,      \* control of serve_forever, and the entries of its last snapshot
  saver,     \* control of the snapshot thread, and the entries it saves
  conn,      \* the thread of each connection
  queue,     \* the executor's queue
  running,   \* the executor's flag
  worker,    \* is the executor's worker thread alive
  stopping,  \* the shutdown event
  store,     \* the writes in memory
  disk,      \* the writes in the snapshot file
  sent,      \* number of commands each peer has sent
  replies,   \* what each peer has received
  due,       \* the writes acknowledged and kept when the shutdown was requested
  overtaken, \* history: the final save failed, or a periodic one came after it
  late,      \* history: the writes executed after the final copy of the store
  boots      \* number of starts

vars == <<main, saver, conn, queue, running, worker, stopping, store, disk,
          sent, replies, due, overtaken, late, boots>>
stored == <<store, disk, due, overtaken, late, boots>>

Sentinel == [client |-> "none", n |-> 0, kind |-> "sentinel"]
Command(c, n, k) == [client |-> c, n |-> n, kind |-> k]
Key(m) == <<m.client, m.n>>

NoThread == [pc |-> "none", entries |-> <<>>]
NoConn   == [pc |-> "none", buffer |-> <<>>, peer |-> FALSE, result |-> "none", first |-> 0]

(* The points of the main thread after its final save. *)
Flushed == {"join_saver", "stop", "sentinel", "join_worker", "exit"}

Init == /\ main = NoThread
        /\ saver = NoThread
        /\ conn = [c \in Clients |-> NoConn]
        /\ queue = <<>>
        /\ running = FALSE
        /\ worker = FALSE
        /\ stopping = FALSE
        /\ store = <<>>
        /\ disk = <<>>
        /\ sent = [c \in Clients |-> 0]
        /\ replies = [c \in Clients |-> <<>>]
        /\ due = {}
        /\ overtaken = FALSE
        /\ late = {}
        /\ boots = 0

SentByAll == SumFunction(sent)

Acked == UNION {{<<c, m.n>> : m \in {x \in ToSet(replies[c]) : x.result = "ok"}} : c \in Clients}

-----------------------------------------------------------------------------
(* The main thread: serve_forever *)

BootEmpty ==
  /\ main.pc = "none" /\ boots < MaxBoots
  /\ store' = <<>>
  /\ boots' = boots + 1
  /\ main' = [NoThread EXCEPT !.pc = "serve"]
  /\ saver' = [NoThread EXCEPT !.pc = "wait"]
  /\ running' = TRUE /\ worker' = TRUE
  /\ UNCHANGED <<conn, queue, stopping, disk, sent, replies, due, overtaken, late>>

Boot ==
  /\ main.pc = "none" /\ boots < MaxBoots
  /\ store' = disk
  /\ boots' = boots + 1
  /\ main' = [NoThread EXCEPT !.pc = "serve"]
  /\ saver' = [NoThread EXCEPT !.pc = "wait"]
  /\ running' = TRUE /\ worker' = TRUE
  /\ UNCHANGED <<conn, queue, stopping, disk, sent, replies, due, overtaken, late>>

(* "first" is history: how many commands the peer had sent before; it is   *)
(* kept as long as the peer is there.                                      *)
Accept(c) ==
  /\ main.pc = "serve"
  /\ conn[c].pc = "none" /\ SentByAll < MaxSent
  /\ conn' = [conn EXCEPT ![c].pc = "check", ![c].peer = TRUE, ![c].first = sent[c]]
  /\ UNCHANGED <<main, saver, queue, running, worker, stopping, sent, replies, stored>>

(* shutdown(), or an interrupt of the accept loop. *)
Shutdown ==
  /\ main.pc = "serve" /\ ~stopping
  /\ stopping' = TRUE
  /\ due' = Acked \cap ToSet(store)
  /\ UNCHANGED <<main, saver, conn, queue, running, worker, store, disk, sent, replies, overtaken,
                 late, boots>>

MainStep(from, to) == main.pc = from /\ main' = [main EXCEPT !.pc = to]

LeaveLoop ==
  /\ stopping
  /\ MainStep("serve", "join_clients")
  /\ UNCHANGED <<saver, conn, queue, running, worker, stopping, sent, replies, stored>>

(* Every thread is joined for half a second at most. *)
JoinClientsUnbounded ==
  /\ \A c \in Clients : conn[c].pc = "none"
  /\ MainStep("join_clients", "flush")
  /\ UNCHANGED <<saver, conn, queue, running, worker, stopping, sent, replies, stored>>

JoinClients ==
  /\ MainStep("join_clients", "flush")
  /\ UNCHANGED <<saver, conn, queue, running, worker, stopping, sent, replies, stored>>

(* _flush_snapshot copies the store under its lock, then save_entries      *)
(* replaces the file in one transaction; an exception is only printed.     *)
NoFinalFlush ==
  /\ MainStep("flush", "join_saver")
  /\ UNCHANGED <<saver, conn, queue, running, worker, stopping, sent, replies, stored>>

Flush ==
  /\ main.pc = "flush"
  /\ main' = [pc |-> "save", entries |-> store]
  /\ UNCHANGED <<saver, conn, queue, running, worker, stopping, sent, replies, stored>>

SaveEntries(entries) == \/ disk' = entries
                        \/ DiskFails /\ disk' = disk

FlushSave ==
  /\ main.pc = "save"
  /\ SaveEntries(main.entries)
  /\ overtaken' = (disk' # main.entries)
  /\ main' = [NoThread EXCEPT !.pc = "join_saver"]
  /\ UNCHANGED <<saver, conn, queue, running, worker, stopping, store, sent, replies, due, late,
                 boots>>

(* The snapshot thread is joined for half a second at most, too. *)
JoinSaver ==
  /\ MainStep("join_saver", "stop")
  /\ UNCHANGED <<saver, conn, queue, running, worker, stopping, sent, replies, stored>>

(* SerialCommandExecutor.stop *)
StopRunning ==
  /\ MainStep("stop", "sentinel")
  /\ running' = FALSE
  /\ UNCHANGED <<saver, conn, queue, worker, stopping, sent, replies, stored>>

PutSentinel ==
  /\ MainStep("sentinel", "join_worker")
  /\ queue' = Append(queue, Sentinel)
  /\ UNCHANGED <<saver, conn, running, worker, stopping, sent, replies, stored>>

JoinWorker ==
  /\ MainStep("join_worker", "exit")
  /\ UNCHANGED <<saver, conn, queue, running, worker, stopping, sent, replies, stored>>

(* The process ends, its daemon threads with it. *)
EndProcess ==
  /\ main' = NoThread /\ saver' = NoThread
  /\ conn' = [c \in Clients |-> NoConn]
  /\ queue' = <<>> /\ running' = FALSE /\ worker' = FALSE
  /\ stopping' = FALSE
  /\ store' = <<>>
  /\ due' = {} /\ overtaken' = FALSE /\ late' = {}
  /\ UNCHANGED <<disk, sent, replies, boots>>

Exit  == main.pc = "exit" /\ EndProcess
Crash == Crashes /\ main.pc # "none" /\ EndProcess

MainThread == \/ LeaveLoop
              \/ JoinClients
              \/ Flush
              \/ FlushSave
              \/ JoinSaver
              \/ StopRunning
              \/ PutSentinel
              \/ JoinWorker
              \/ Exit

-----------------------------------------------------------------------------
(* The snapshot thread: _run_snapshot_loop *)

(* The interval passes before the shutdown event is set; the copy is taken *)
(* later, perhaps when it is set.                                          *)
SaverWakes ==
  /\ Periodic
  /\ saver.pc = "wait" /\ ~stopping
  /\ saver' = [NoThread EXCEPT !.pc = "take"]
  /\ UNCHANGED <<main, conn, queue, running, worker, stopping, sent, replies, stored>>

SaverTake ==
  /\ saver.pc = "take"
  /\ saver' = [pc |-> "save", entries |-> store]
  /\ UNCHANGED <<main, conn, queue, running, worker, stopping, sent, replies, stored>>

SaverSave ==
  /\ saver.pc = "save"
  /\ SaveEntries(saver.entries)
  /\ overtaken' = (overtaken \/ main.pc \in Flushed)
  /\ saver' = [NoThread EXCEPT !.pc = "wait"]
  /\ UNCHANGED <<main, conn, queue, running, worker, stopping, store, sent, replies, due, late,
                 boots>>

SaverEnds ==
  /\ saver.pc = "wait" /\ stopping
  /\ saver' = [NoThread EXCEPT !.pc = "gone"]
  /\ UNCHANGED <<main, conn, queue, running, worker, stopping, sent, replies, stored>>

Saver == SaverWakes \/ SaverTake \/ SaverSave \/ SaverEnds

-----------------------------------------------------------------------------
(* The thread of a connection: handle_client and SerialCommandExecutor.execute *)

ConnStep(c, from, to) == conn[c].pc = from /\ conn' = [conn EXCEPT ![c].pc = to]

(* _run_client forgets the thread when handle_client returns. *)
Leave(c) == conn' = [conn EXCEPT ![c] = NoConn]

CheckStop(c) ==
  /\ conn[c].pc = "check"
  /\ IF stopping THEN Leave(c) ELSE ConnStep(c, "check", "recv")
  /\ UNCHANGED <<main, saver, queue, running, worker, stopping, sent, replies, stored>>

(* recv() returns whole commands; the buffer keeps a partial one. *)
Receive(c) ==
  /\ conn[c].pc = "recv" /\ conn[c].peer
  /\ \E k \in 1..MaxChunk : \E kinds \in [1..k -> Kinds] :
       /\ SentByAll + k <= MaxSent
       /\ sent' = [sent EXCEPT ![c] = @ + k]
       /\ conn' = [conn EXCEPT ![c].pc = "parse",
                               ![c].buffer = [i \in 1..k |-> Command(c, sent[c] + i, kinds[i])]]
  /\ UNCHANGED <<main, saver, queue, running, worker, stopping, replies, stored>>

(* The peer closes its end; recv() then returns nothing or raises, and     *)
(* sendall() reaches nobody: the thread can tell at no other point.        *)
PeerLeaves(c) ==
  /\ conn[c].peer /\ conn[c].pc \in {"recv", "send"}
  /\ conn' = [conn EXCEPT ![c].peer = FALSE, ![c].first = 0]
  /\ UNCHANGED <<main, saver, queue, running, worker, stopping, sent, replies, stored>>

RecvEnds(c) ==
  /\ conn[c].pc = "recv" /\ ~conn[c].peer
  /\ Leave(c)
  /\ UNCHANGED <<main, saver, queue, running, worker, stopping, sent, replies, stored>>

(* The loop over the buffer: it is empty, its first bytes are no command,  *)
(* or execute() tests the executor's flag.                                 *)
BufferEmpty(c) ==
  /\ conn[c].buffer = <<>>
  /\ ConnStep(c, "parse", "check")
  /\ UNCHANGED <<main, saver, queue, running, worker, stopping, sent, replies, stored>>

Answer(c, result) == conn' = [conn EXCEPT ![c].pc = "send", ![c].result = result]

Reject(c) ==
  /\ conn[c].pc = "parse" /\ conn[c].buffer # <<>>
  /\ Head(conn[c].buffer).kind = "garbage"
  /\ Answer(c, "garbage")
  /\ UNCHANGED <<main, saver, queue, running, worker, stopping, sent, replies, stored>>

Execute(c) ==
  /\ conn[c].pc = "parse" /\ conn[c].buffer # <<>>
  /\ Head(conn[c].buffer).kind # "garbage"
  /\ IF running THEN ConnStep(c, "parse", "put") ELSE Answer(c, "error")
  /\ UNCHANGED <<main, saver, queue, running, worker, stopping, sent, replies, stored>>

Put(c) ==
  /\ ConnStep(c, "put", "wait")
  /\ queue' = Append(queue, Head(conn[c].buffer))
  /\ UNCHANGED <<main, saver, running, worker, stopping, sent, replies, stored>>

(* A malformed command drops the rest of the buffer; after any other one   *)
(* the loop goes on, whether or not the reply could be sent.  "read" is    *)
(* history: how much the peer had sent when a malformed command of it was  *)
(* answered.                                                               *)
Reply(c) == [n |-> Head(conn[c].buffer).n, result |-> conn[c].result,
             read |-> IF conn[c].result = "garbage" THEN sent[c] ELSE 0]

SendDropsRest(c) ==
  /\ conn[c].pc = "send"
  /\ conn' = [conn EXCEPT ![c].pc = "parse", ![c].result = "none",
                          ![c].buffer = IF conn[c].result # "ok" THEN <<>> ELSE Tail(@)]
  /\ replies' = IF conn[c].peer THEN [replies EXCEPT ![c] = Append(@, Reply(c))] ELSE replies
  /\ UNCHANGED <<main, saver, queue, running, worker, stopping, sent, stored>>

Send(c) ==
  /\ conn[c].pc = "send"
  /\ conn' = [conn EXCEPT ![c].pc = "parse", ![c].result = "none",
                          ![c].buffer = IF conn[c].result = "garbage" THEN <<>> ELSE Tail(@)]
  /\ replies' = IF conn[c].peer THEN [replies EXCEPT ![c] = Append(@, Reply(c))] ELSE replies
  /\ UNCHANGED <<main, saver, queue, running, worker, stopping, sent, stored>>

ConnThread(c) == CheckStop(c) \/ RecvEnds(c) \/ BufferEmpty(c) \/ Reject(c) \/ Execute(c)
                 \/ Put(c) \/ Send(c)

-----------------------------------------------------------------------------
(* The worker: SerialCommandExecutor._run *)

(* A write executed when the main thread has taken its final copy. *)
Execution(m) == /\ store' = Append(store, Key(m))
                /\ late' = IF main.pc \in {"save"} \cup Flushed THEN late \cup {Key(m)} ELSE late

WorkUnguarded ==
  /\ worker /\ queue # <<>>
  /\ LET m == Head(queue)
     IN IF m.kind = "write"
        THEN /\ Execution(m)
             /\ Answer(m.client, "ok")
             /\ UNCHANGED worker
        ELSE worker' = FALSE /\ UNCHANGED <<store, late, conn>>
  /\ queue' = Tail(queue)
  /\ UNCHANGED <<main, saver, running, stopping, disk, sent, replies, due, overtaken, boots>>

WorkDropsError ==
  /\ worker /\ queue # <<>>
  /\ LET m == Head(queue)
     IN IF m.kind = "sentinel"
        THEN worker' = FALSE /\ UNCHANGED <<store, late, conn>>
        ELSE /\ IF m.kind = "write" THEN Execution(m) ELSE UNCHANGED <<store, late>>
             /\ Answer(m.client, IF m.kind = "write" THEN "ok" ELSE "none")
             /\ UNCHANGED worker
  /\ queue' = Tail(queue)
  /\ UNCHANGED <<main, saver, running, stopping, disk, sent, replies, due, overtaken, boots>>

Work ==
  /\ worker /\ queue # <<>>
  /\ LET m == Head(queue)
     IN \/ /\ m.kind = "sentinel"
           /\ worker' = FALSE
           /\ UNCHANGED <<store, late, conn>>
        \/ /\ m.kind = "write"
           /\ Execution(m)
           /\ Answer(m.client, "ok")
           /\ UNCHANGED worker
        \/ /\ m.kind = "invalid"
           /\ Answer(m.client, "error")
           /\ UNCHANGED <<store, late, worker>>
  /\ queue' = Tail(queue)
  /\ UNCHANGED <<main, saver, running, stopping, disk, sent, replies, due, overtaken, boots>>

-----------------------------------------------------------------------------
(* The server is down for good. *)
Finished == main.pc = "none" /\ boots = MaxBoots /\ UNCHANGED vars

Next == \/ Boot
        \/ Shutdown
        \/ MainThread
        \/ Crash
        \/ Saver
        \/ Work
        \/ \E c \in Clients : \/ Accept(c)
                              \/ Receive(c)
                              \/ PeerLeaves(c)
                              \/ ConnThread(c)
        \/ Finished

Spec == Init /\ [][Next]_vars

(* Threads that can run do; peers and operators need not do anything.      *)
FairSpec == /\ Spec
            /\ WF_vars(MainThread)
            /\ WF_vars(Work)
            /\ \A c \in Clients : WF_vars(ConnThread(c))

-----------------------------------------------------------------------------
(* Properties. *)

Results == {"none", "ok", "error", "garbage"}
Messages == [client: Clients, n: Nat \ {0}, kind: Kinds]
Keys == Clients \X (Nat \ {0})
Replies == [n: Nat \ {0}, result: Results, read: Nat]
MainThreads == [pc: {"none", "serve", "join_clients", "flush", "save", "join_saver", "stop",
                     "sentinel", "join_worker", "exit"}, entries: Seq(Keys)]
Savers == [pc: {"none", "wait", "take", "save", "gone"}, entries: Seq(Keys)]
Connections == [pc: {"none", "check", "recv", "parse", "put", "wait", "send"},
                buffer: Seq(Messages), peer: BOOLEAN, result: Results, first: Nat]

(* A connection never runs ahead of its buffer, reads again only when it   *)
(* is empty, and has a result before it answers.                           *)
Ready(x) == /\ x.pc \in {"put", "wait", "send"} => x.buffer # <<>>
            /\ x.pc \in {"none", "check", "recv"} => x.buffer = <<>>
            /\ x.pc = "send" => x.result # "none"

(* Type invariant: threads stay at the points their code has, and every    *)
(* connection is Ready.                                                    *)
TypeOK ==
  /\ main \in MainThreads
  /\ saver \in Savers
  /\ conn \in [Clients -> Connections]
  /\ \A c \in Clients : Ready(conn[c])
  /\ queue \in Seq(Messages \cup {Sentinel})
  /\ running \in BOOLEAN /\ worker \in BOOLEAN /\ stopping \in BOOLEAN
  /\ store \in Seq(Keys) /\ disk \in Seq(Keys)
  /\ sent \in [Clients -> Nat]
  /\ replies \in [Clients -> Seq(Replies)]
  /\ due \subseteq Keys /\ late \subseteq Keys /\ overtaken \in BOOLEAN
  /\ boots \in 0..MaxBoots

(* The replies of a peer come in the order in which it sent the commands,  *)
(* one each at most.                                                       *)
InTurn(rs) == \A i, j \in 1..Len(rs) : i < j => rs[i].n < rs[j].n

(* What may have become of a command that an open connection read: it is   *)
(* still in the buffer; or its reply was sent, an "ok" only if the write   *)
(* is in the store; or it was dropped, having been read already when a     *)
(* malformed command sent before it was answered.                          *)
Waiting(c, n)  == \E m \in ToSet(conn[c].buffer) : m.n = n
Answered(c, n) == \E x \in ToSet(replies[c]) :
                    x.n = n /\ (x.result = "ok" => <<c, n>> \in ToSet(store))
Dropped(c, n)  == \E x \in ToSet(replies[c]) : x.result = "garbage" /\ x.n < n /\ n <= x.read

(* Every command that a connection reads runs once and is answered once,   *)
(* pipelined or not, but for those behind a malformed one.                 *)
(* At most: no command is executed twice, over restarts too; replies come  *)
(* in turn; and what was answered by anything but "ok" is never executed.  *)
(* At least: as long as the peer of a connection is there, no command read *)
(* from it is lost between recv() and its reply.                           *)
ExactlyOnce ==
  /\ IsInjective(store)
  /\ \A c \in Clients : InTurn(replies[c])
  /\ \A c \in Clients : \A x \in ToSet(replies[c]) :
       x.result # "ok" => <<c, x.n>> \notin ToSet(store)
  /\ \A c \in Clients : conn[c].peer =>
       \A n \in (conn[c].first + 1)..sent[c] : Waiting(c, n) \/ Answered(c, n) \/ Dropped(c, n)

(* The snapshot file is a state the store really went through: whatever    *)
(* is saved, lost or restored, no write is missing between those it has.   *)
DiskIsPrefix == main.pc # "none" => IsPrefix(disk, store)

(* tests/test_integration.py, restart from SQLite: what was acknowledged   *)
(* before a clean shutdown is in the snapshot file when the process ends.  *)
AckedSurvivesShutdown == main.pc = "exit" => due \subseteq ToSet(disk)

(* A clean shutdown loses an acknowledged write in three ways only: the    *)
(* final save failed; a periodic save came after it; or the write was      *)
(* executed after the final copy, for a connection that outlived its join  *)
(* of half a second (server.py:242-245: the executor is stopped last).  A  *)
(* write of before the copy is never lost, however late its connection is. *)
SavedUnlessLate ==
  (main.pc = "exit" /\ ~overtaken) => Acked \cap ToSet(store) \subseteq ToSet(disk) \cup late

(* A connection never waits for ever for the executor's answer.            *)
NoClientWaitsForever == \A c \in Clients : conn[c].pc = "wait" ~> conn[c].pc # "wait"

(* A shutdown comes to its end, whatever the peers do.                     *)
ShutdownEnds == stopping ~> main.pc = "none"
=============================================================================
