---------------------------- MODULE DatabaseSink ----------------------------
(***************************************************************************)
(* A DuckDB or DuckLake sink (sink/duckdb.rs, sink/ducklake.rs) and any    *)
(* caller of it: initialize, write_batch and shutdown in any order, each   *)
(* call awaited or dropped while it is pending, a write that failed with a *)
(* retryable error repeated as retry_write does, and in the end the sink   *)
(* dropped with or without a shutdown.                                     *)
(***************************************************************************)
EXTENDS DatabaseWorker, SequencesExt

CONSTANTS
    MaxBatch,       \* bound: rows of a batch
    MaxRows,        \* bound: rows written; a row is named by its position
    MaxCalls        \* bound: calls of the sink

ASSUME SinkAssumption == MaxBatch \in Nat /\ MaxRows \in Nat /\ MaxCalls \in Nat

VARIABLES
    asked,          \* the command of the last call
    calls,          \* calls made
    sent,           \* the batches written, in order
    written,        \* the rows in them
    acked,          \* the rows of the writes that returned Ok, in order
    doubtful        \* the rows of the writes whose outcome the caller never learned

ledger == <<sent, written, acked, doubtful>>
sinkVars == <<future, database, asked, calls, ledger>>

SinkTypeOK ==
    /\ DatabaseTypeOK
    /\ asked \in Commands /\ calls \in 0 .. MaxCalls
    /\ sent \in Seq(Seq(Nat)) /\ written \in 0 .. MaxRows
    /\ acked \in Seq(Nat) /\ doubtful \subseteq Nat

SinkInit ==
    /\ DatabaseInit /\ future = "none"
    /\ asked = [op |-> "Initialize", rows |-> <<>>] /\ calls = 0
    /\ sent = <<>> /\ written = 0 /\ acked = <<>> /\ doubtful = {}

\* The sink is borrowed by a pending call, and gone once it is dropped.
Asks(op, rows) ==
    /\ join \notin {"dropping", "dropped"}
    /\ calls < MaxCalls /\ calls' = calls + 1
    /\ asked' = [op |-> op, rows |-> rows]
    /\ Call(op, rows)

CallInitialize ==
    future = "none" /\ Asks("Initialize", <<>>) /\ UNCHANGED ledger

NewRows(n) == [i \in 1 .. n |-> written + i]

CallWrite ==
    /\ future = "none"
    /\ \E n \in 0 .. MaxBatch :
         /\ written' = written + n /\ written' <= MaxRows
         /\ sent' = Append(sent, NewRows(n))
         /\ Asks("Write", NewRows(n))
    /\ UNCHANGED <<acked, doubtful>>

CallShutdown ==
    future = "none" /\ Asks("Shutdown", <<>>) /\ UNCHANGED ledger

\* retry_write repeats a write only after an error that is_retryable.
RetryWrite ==
    /\ future \in SinkError /\ IsRetryable(future) /\ asked.op = "Write"
    /\ Asks("Write", asked.rows) /\ UNCHANGED ledger

\* The errors after which a row may or may not be in the table.
OutcomeUnknown == {"TransactionOutcomeUnknown", "WorkerUnavailable"}

Doubted == doubtful \cup Range(asked.rows)

TakeAnswer ==
    /\ future \in {"ok"} \cup SinkError /\ future' = "none"
    /\ acked' = IF future = "ok" THEN acked \o asked.rows ELSE acked
    /\ doubtful' = IF future \in OutcomeUnknown THEN Doubted ELSE doubtful
    /\ UNCHANGED <<database, asked, calls, sent, written>>

\* The caller gives up on the pending call (the shutdown deadline of bounded).
GiveUp ==
    /\ LetGo /\ future' = "none" /\ doubtful' = Doubted
    /\ UNCHANGED <<asked, calls, sent, written, acked>>

Dropping == (DropSink \/ DropReturns) /\ UNCHANGED <<asked, calls, ledger>>

ThreadStep == WorkerStep /\ UNCHANGED <<asked, calls, ledger>>

\* The sink is gone, or the caller keeps it and makes no more calls.
SinkIdle ==
    /\ join = "dropped" \/ (future = "none" /\ calls = MaxCalls)
    /\ UNCHANGED sinkVars

SinkNext ==
    \/ CallInitialize \/ CallWrite \/ CallShutdown \/ RetryWrite
    \/ TakeAnswer \/ GiveUp \/ Dropping
    \/ ThreadStep \/ SinkIdle

SinkSpec == SinkInit /\ [][SinkNext]_sinkVars

\* The thread runs, and a Drop that can return does.
FairSinkSpec == SinkSpec /\ WF_sinkVars(ThreadStep) /\ WF_sinkVars(Dropping)

-----------------------------------------------------------------------------
(* Properties. *)

\* The rows the caller cannot tell the fate of: those it gave up on or got an
\* unknown outcome for, and those of the write in progress.  After any other
\* error the rows of a write are certainly not in the table.
InDoubt ==
    IF future \in {"pending", "ok"} \cup OutcomeUnknown THEN Doubted ELSE doubtful

\* A row is stored at most once, and rows in the order they were written, over
\* all the retries, reconnections and abandoned writes of any caller.
StoredInOrder ==
    \A i, j \in 1 .. Len(table) : i < j => table[i] < table[j]

\* What was acknowledged is stored, and what is stored was acknowledged or is in
\* doubt: the error classes tell the caller the truth (error.rs:35-48).
AnswersTrue ==
    /\ Range(acked) \subseteq Range(table)
    /\ Range(table) \subseteq Range(acked) \cup InDoubt

\* A batch is stored as a whole or not at all, in every state: whenever the
\* process dies, the table holds no part of a batch.
BatchesWhole ==
    \A batch \in Range(sent) :
        Range(batch) \subseteq Range(table) \/ Range(batch) \cap Range(table) = {}

\* When shutdown() or Drop has joined the thread, nothing of it is left that
\* could race the end of the process: no connection, no command to execute.
JoinedIsQuiet ==
    join \in {"joined", "dropped"} => ~Alive /\ ~connection /\ queue = <<>>

\* No call waits for ever, be it sent to a thread that has ended or ends, or
\* behind abandoned commands.
CallsReturn == future = "pending" ~> future # "pending"

\* Dropping a sink that was not shut down returns.
DropEnds == join = "dropping" ~> join = "dropped"

\* An in-memory database "persists across worker commands"
\* (tests/duckdb_test.rs:304, README.md:55): what was acknowledged is still in
\* the table when the thread waits for the next command.
InMemoryPersists ==
    thread = "receive" => Range(acked) \subseteq Range(table)
=============================================================================
