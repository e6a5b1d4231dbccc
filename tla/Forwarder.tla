----------------------------- MODULE Forwarder -----------------------------
(***************************************************************************)
(* The process of main.rs with a DuckDB or DuckLake sink: the forwarding   *)
(* task of Pipeline calls the sink, and the worker thread of               *)
(* DatabaseWorker executes the calls and answers them.  The two share the  *)
(* call in progress (future) and the batch that is written (records).      *)
(*                                                                         *)
(* When the task has returned main calls process::exit, and the thread may *)
(* be stopped after any of its steps: ForwarderSpec asks no fairness, so   *)
(* each state reached after the return is one the process may end in.  It  *)
(* may be killed at any other time too: what the table holds in any state  *)
(* is what survives.  FairForwarderSpec is for a process that goes on.     *)
(***************************************************************************)
EXTENDS Pipeline

CONSTANTS InMemory, OpenFaults, MayPanic

\* What the worker may answer is what the sink of Pipeline may.
ASSUME ForwarderAssumption ==
    /\ InMemory \in BOOLEAN /\ MayPanic \in BOOLEAN
    /\ OpenFaults \cup {"DuckDBError", "TransactionOutcomeUnknown",
                        "WorkerUnavailable", "WorkerFailed"} \subseteq SinkFaults

VARIABLES queue, join, thread, command, answer, connection, txn, table

W == INSTANCE DatabaseWorker

database == <<queue, join, thread, command, answer, connection, txn, table>>
forwarderVars == <<vars, database>>

ForwarderInit == Init /\ W!DatabaseInit

\* What the task calls: initialize, write_batch of the records taken, shutdown.
Operation ==
    CASE pc = "initialize"            -> "Initialize"
      [] pc \in FlushOps              -> "Write"
      [] pc \in {"close", "cleanup"}  -> "Shutdown"

CallsWorker == (CallSink \/ RetryNow) /\ W!Call(Operation, records)

\* The operation is dropped at a deadline, with the call it waits for, if any.
Abandons ==
    /\ TimesOut \/ CleanupDone
    /\ IF future = "pending" THEN W!LetGo ELSE UNCHANGED database

\* The thread executes a command, and may answer the task.
WorkerRuns ==
    W!WorkerStep /\ UNCHANGED <<pc, around, records, attempt, timer, shutdown>>

\* Steps in which the sink has no part.
Alone == (TaskAlone \/ SourceStep \/ Signal \/ Tick \/ Terminated) /\ UNCHANGED database

ForwarderNext == CallsWorker \/ Abandons \/ WorkerRuns \/ Alone

ForwarderSpec == ForwarderInit /\ [][ForwarderNext]_forwarderVars

\* The runtime polls the task, the clock advances, and the thread is scheduled:
\* each statement of a command it executes returns in the end.
TaskRuns == CallsWorker \/ Abandons \/ (TaskAlone /\ UNCHANGED database)

FairForwarderSpec ==
    /\ ForwarderSpec
    /\ WF_forwarderVars(TaskRuns)
    /\ WF_forwarderVars(Tick /\ UNCHANGED database)
    /\ WF_forwarderVars(WorkerRuns)

-----------------------------------------------------------------------------
(* Properties. *)

\* The task run against the worker is the task of Pipeline: the worker answers
\* when it is asked, once, and with the answers a sink may give.
ImplementsPipeline == Spec

\* The table holds an initial part of what was read, in every state: in order,
\* nothing twice and nothing skipped, although writes are retried over new
\* connections, given up on at the shutdown deadline and executed after that.
TableInOrder == IsPrefix(table, received)

ForwarderPromise == INSTANCE Delivery
    WITH Record <- 1 .. MaxItems, limit <- batchSize, input <- received,
         stored <- table, outcome <- Outcome

\* The process delivers: each COMMIT that takes effect, that of a write given up
\* on too, adds everything read since the last one to the table, and it does so
\* once; code 0 leaves nothing out.
TableDelivers == ForwarderPromise!Spec

\* What was read reaches the table, unless the process ends with an error: no
\* call waits for ever for its answer, over reconnections and a thread that may
\* panic or end (worker.rs:42, 72).
TableSettles == ForwarderPromise!Settles

\* What the sink acknowledged to the task is in the table.
AcknowledgedStored == IsPrefix(acknowledged, table)

\* When the process ends with code 0 the table holds all that was read, and the
\* connection is closed: "SIGINT, SIGTERM, and EOF flush pending telemetry and
\* close the database connection" (README.md:50).
OkMeansStored ==
    result = "Ok" => table = received /\ ~connection /\ ~W!Alive

\* "Best-effort, time-bounded sink cleanup after a pipeline failure so the
\* database worker is joined even on error exits" (pipeline.rs:227-228): a
\* cleanup that found nothing to report has joined it.
CleanupJoins == pc = "cleanup" /\ future = "ok" => join = "joined"
=============================================================================
