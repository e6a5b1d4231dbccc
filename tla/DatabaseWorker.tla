--------------------------- MODULE DatabaseWorker ---------------------------
(***************************************************************************)
(* The worker thread of the DuckDB and DuckLake sinks (sink/worker.rs),    *)
(* with the connection it owns and the transaction of insert_batch         *)
(* (sink/duckdb.rs).  A caller sends commands through a channel and awaits *)
(* a one-shot response; shutdown sends the last command and then joins the *)
(* thread.  A caller makes one call at a time, but may drop a call that is *)
(* still pending: its command stays in the channel and is executed.        *)
(*                                                                         *)
(* The database is external: a statement succeeds or fails, a transaction  *)
(* that was not committed leaves nothing behind, and a failed COMMIT may   *)
(* have committed.                                                         *)
(***************************************************************************)
EXTENDS Naturals, Sequences, SinkErrors

CONSTANTS
    InMemory,       \* BOOLEAN: the database is :memory:, and lives in its connection
    OpenFaults,     \* the errors the connection factory may return
    MayPanic        \* BOOLEAN: the thread may panic while it executes a command

ASSUME DatabaseAssumption ==
    /\ InMemory \in BOOLEAN /\ MayPanic \in BOOLEAN
    /\ OpenFaults \subseteq SinkError

VARIABLES
    future,         \* the call in progress, as its caller sees it
    queue,          \* the channel: the commands sent and not yet received
    join,           \* where the JoinHandle is: see JoinState
    thread,         \* what the thread is doing
    command,        \* the command it has received
    answer,         \* the result it will respond with
    connection,     \* connection.is_some()
    txn,            \* the rows inserted in the open transaction
    table           \* the rows that are committed

inside == <<command, answer>>
store  == <<connection, txn, table>>
worker == <<thread, inside, store>>
database == <<queue, join, worker>>

Commands == [op: {"Initialize", "Write", "Shutdown"}, rows: Seq(Nat)]

\* Held by the DatabaseWorker; taken by a shutdown() that is pending; joined;
\* dropped with a pending shutdown(), which detaches the thread; in Drop.
JoinState == {"held", "taken", "joined", "detached", "dropping", "dropped"}

Executing   == {"connect", "begin", "insert", "rollback", "commit", "close"}
ThreadState == Executing \cup {"receive", "respond", "leave", "exited", "panicked"}

CallState == {"none", "unpolled", "pending", "sleeping", "ok"} \cup SinkError

DatabaseTypeOK ==
    /\ future \in CallState
    /\ queue \in Seq(Commands) /\ join \in JoinState
    /\ thread \in ThreadState /\ command \in Commands
    /\ answer \in {"ok"} \cup SinkError
    /\ connection \in BOOLEAN /\ txn \in Seq(Nat) /\ table \in Seq(Nat)

\* DatabaseWorker::start: the thread waits for a command, and has no connection.
DatabaseInit ==
    /\ queue = <<>> /\ join = "held"
    /\ thread = "receive" /\ command = [op |-> "Initialize", rows |-> <<>>]
    /\ answer = "ok"
    /\ connection = FALSE /\ txn = <<>> /\ table = <<>>

-----------------------------------------------------------------------------
(* The caller. *)

\* The receiver of the channel lives as long as worker_loop.
Alive == thread \notin {"exited", "panicked"}

\* Plausible error: a failed send is not turned into a SinkError.
RequestUnmapped(op, rows) ==
    /\ IF Alive THEN /\ queue' = Append(queue, [op |-> op, rows |-> rows])
                     /\ future' = "pending"
                ELSE /\ future' = "SendError"
                     /\ UNCHANGED queue
    /\ UNCHANGED <<join, worker>>

\* initialize() and write(): the channel is closed once the thread has ended.
Request(op, rows) ==
    /\ IF Alive THEN /\ queue' = Append(queue, [op |-> op, rows |-> rows])
                     /\ future' = "pending"
                ELSE /\ future' = "WorkerUnavailable"
                     /\ UNCHANGED queue
    /\ UNCHANGED <<join, worker>>

\* Send the last command; when the thread has ended only the join is left.
SendShutdown ==
    queue' = IF Alive THEN Append(queue, [op |-> "Shutdown", rows |-> <<>>]) ELSE queue

\* shutdown(): who takes the handle stops the thread and joins it; a later call
\* finds no handle and returns Ok.
Shutdown ==
    /\ IF join = "held" THEN SendShutdown /\ join' = "taken" /\ future' = "pending"
                        ELSE future' = "ok" /\ UNCHANGED <<queue, join>>
    /\ UNCHANGED worker

\* write_batch() of the sinks: an empty batch is not sent.
WriteBatch(rows) ==
    IF rows = <<>> THEN future' = "ok" /\ UNCHANGED database
                   ELSE Request("Write", rows)

Call(op, rows) ==
    \/ op = "Initialize" /\ Request(op, <<>>)
    \/ op = "Write" /\ WriteBatch(rows)
    \/ op = "Shutdown" /\ Shutdown

\* The caller drops a call that is pending, and with it the handle that a
\* shutdown() has taken.
LetGo ==
    /\ future = "pending"
    /\ join' = IF join = "taken" THEN "detached" ELSE join
    /\ UNCHANGED <<queue, worker>>

\* Plausible errors: the outcome of the join is delivered to a caller that has
\* given up; the response is taken for the end of the thread.
JoinedLate ==
    /\ join \in {"taken", "detached"} /\ ~Alive
    /\ join' = "joined" /\ future' = "ok"
    /\ UNCHANGED <<queue, worker>>

JoinedOnResponse ==
    /\ future = "pending" /\ join = "taken" /\ thread = "leave"
    /\ join' = "joined" /\ future' = "ok"
    /\ UNCHANGED <<queue, worker>>

\* shutdown() awaits the join after the response, on a blocking thread.
Joined ==
    /\ future = "pending" /\ join = "taken" /\ ~Alive
    /\ join' = "joined"
    /\ future' = IF thread = "panicked" THEN "WorkerFailed" ELSE "ok"
    /\ UNCHANGED <<queue, worker>>

\* Drop: stop and join the thread, unless a shutdown() has taken the handle.
DropSink ==
    /\ future # "pending" /\ join = "held"
    /\ SendShutdown /\ join' = "dropping"
    /\ UNCHANGED <<future, worker>>

DropReturns ==
    /\ join = "dropping" /\ ~Alive
    /\ join' = "dropped"
    /\ UNCHANGED <<future, queue, worker>>

-----------------------------------------------------------------------------
(* The thread: worker_loop, and insert_batch on its connection. *)

\* What the caller knows of a command is the answer of the thread, once it has
\* executed every command sent before; nothing changes for it until then.
Unseen == UNCHANGED <<future, join>>

\* The thread goes on to t, within the command.
Goes(t) == thread' = t /\ UNCHANGED <<queue, command>> /\ Unseen

Receive ==
    /\ thread = "receive" /\ queue # <<>>
    /\ command' = Head(queue) /\ queue' = Tail(queue)
    /\ thread' = IF command'.op = "Shutdown" THEN "close" ELSE "connect"
    /\ UNCHANGED <<answer, store>> /\ Unseen

\* ensure_connection returned Ok: go on with the command.
Connected ==
    IF command.op = "Write" THEN Goes("begin") /\ UNCHANGED answer
                            ELSE Goes("respond") /\ answer' = "ok"

Reuse ==
    /\ thread = "connect" /\ connection
    /\ Connected /\ UNCHANGED store

\* The factory opens the database, sets its limits and creates the table if it
\* does not exist.
Open ==
    /\ thread = "connect" /\ ~connection
    /\ Connected
    /\ connection' = TRUE /\ UNCHANGED <<txn, table>>

OpenFails ==
    /\ thread = "connect" /\ ~connection
    /\ Goes("respond") /\ answer' \in OpenFaults
    /\ UNCHANGED store

Begin ==
    /\ thread = "begin"
    /\ \/ Goes("insert") /\ UNCHANGED answer
       \/ Goes("respond") /\ answer' = "DuckDBError"
    /\ UNCHANGED store

\* Plausible error: without a transaction each row is committed by itself.
InsertCommitting ==
    /\ thread = "insert" /\ UNCHANGED <<answer, connection, txn>>
    /\ \E n \in 0 .. Len(command.rows) :
         /\ table' = table \o SubSeq(command.rows, 1, n)
         /\ Goes(IF n = Len(command.rows) THEN "commit" ELSE "rollback")

\* The rows are inserted one by one; the first that fails ends the loop.
Insert ==
    /\ thread = "insert" /\ UNCHANGED <<answer, connection, table>>
    /\ \E n \in 0 .. Len(command.rows) :
         /\ txn' = SubSeq(command.rows, 1, n)
         /\ Goes(IF n = Len(command.rows) THEN "commit" ELSE "rollback")

\* The error is that of the insert when nothing can have been written.
Rollback ==
    /\ thread = "rollback" /\ Goes("respond")
    /\ \/ answer' = "DuckDBError" /\ txn' = <<>>
       \/ answer' = "TransactionOutcomeUnknown" /\ UNCHANGED txn
    /\ UNCHANGED <<connection, table>>

\* COMMIT may fail before or after it has taken effect.
CommitWith(failure) ==
    /\ thread = "commit" /\ Goes("respond")
    /\ \/ answer' = "ok" /\ table' = table \o txn
       \/ answer' = failure /\ table' \in {table, table \o txn}
    /\ txn' = <<>> /\ UNCHANGED connection

\* Plausible errors: a failed COMMIT is reported as any other statement that
\* failed; its result is ignored.
CommitPlain   == CommitWith("DuckDBError")
CommitIgnored == CommitWith("ok")

Commit == CommitWith("TransactionOutcomeUnknown")

\* The connection is dropped: an open transaction is gone, and so is an
\* in-memory database.
Disconnect ==
    /\ connection' = FALSE /\ txn' = <<>>
    /\ table' = IF InMemory THEN <<>> ELSE table

\* After a failed write the connection is dropped, so that the next command
\* opens a new one.
Dispose ==
    IF command.op = "Write" /\ answer # "ok" THEN Disconnect ELSE UNCHANGED store

\* Plausible error: the response goes to whoever is waiting.
AwaitedByAnyone == future = "pending"

\* The response reaches the caller if it still awaits this command, the last
\* one sent: that of a call that was dropped is discarded.
Awaited == future = "pending" /\ queue = <<>>

Respond ==
    /\ thread = "respond" /\ thread' = "receive"
    /\ Dispose
    /\ future' = IF Awaited THEN answer ELSE future
    /\ UNCHANGED <<queue, join, inside>>

\* Plausible error: the end of the thread goes unnoticed.
EndsUnnoticed(t) ==
    /\ thread' = t /\ queue' = <<>> /\ Disconnect
    /\ UNCHANGED <<future, join, inside>>

\* The thread ends: the channel and the commands in it are dropped, and a
\* caller awaiting a response gets none (one in shutdown() goes on to join).
Ends(t) ==
    /\ thread' = t /\ queue' = <<>> /\ Disconnect
    /\ future' = IF future = "pending" /\ join # "taken" THEN "WorkerUnavailable"
                                                        ELSE future
    /\ UNCHANGED <<join, inside>>

\* Plausible error: the loop goes on after a Shutdown command.
CloseAndContinue ==
    /\ thread = "close" /\ thread' = "receive" /\ Disconnect
    /\ UNCHANGED <<queue, inside>> /\ Unseen

\* Shutdown: drop the connection, respond and leave the loop.
Close ==
    /\ thread = "close" /\ thread' = "leave" /\ Disconnect
    /\ UNCHANGED <<queue, inside>> /\ Unseen

Exit == thread = "leave" /\ Ends("exited")

\* While it executes a command, or after that (a COMMIT may have taken effect).
Panic == MayPanic /\ thread \in Executing \cup {"respond"} /\ Ends("panicked")

\* What the runtime and the operating system carry out once it can be done.
WorkerStep ==
    \/ Receive \/ Reuse \/ Open \/ OpenFails
    \/ Begin \/ Insert \/ Rollback \/ Commit
    \/ Respond \/ Close \/ Exit \/ Panic
    \/ Joined
=============================================================================
