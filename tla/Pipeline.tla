------------------------------ MODULE Pipeline ------------------------------
(***************************************************************************)
(* The forwarding task of pipeline.rs: run_pipeline_until, the select!     *)
(* loop of pipeline_loop, the shutdown bound put on every await (bounded), *)
(* the retries (retry_initialize, retry_write), the final flush and close  *)
(* (finish) and the cleanup after an error (cleanup_after_failure).        *)
(*                                                                         *)
(* The task is one future, polled by one thread.  An action is what one    *)
(* poll does between two suspension points; where a select! may poll its   *)
(* branches in either order, each order is an action.  Around the task     *)
(* stand the source (it yields any item at any time), the shutdown signal, *)
(* the sink (it answers a call after any time, or never), and the clock.   *)
(*                                                                         *)
(* Time is counted in ticks, and a tick passes only when the task has      *)
(* nothing to do (as under tokio's paused clock, in which the tests run):  *)
(* the bounds below are those the code would keep on an idle machine.      *)
(***************************************************************************)
EXTENDS Integers, SequencesExt, SinkErrors

CONSTANTS
    BatchSizes,         \* what desired_batch_size() may return
    Latencies,          \* what desired_max_batch_latency() may return, in ticks
    MaxWriteRetries,    \* config.max_write_retries
    Backoff,            \* Backoff[n]: retry_delay(config, n), in ticks
    ShutdownTimeout,    \* config.shutdown_timeout_seconds, in ticks
    SinkFaults,         \* the errors the sink may answer with
    MaxItems            \* bound: items the source yields before it ends

ASSUME PipelineAssumption ==
    /\ BatchSizes \subseteq Nat
    /\ Latencies \subseteq Nat
    /\ MaxWriteRetries \in Nat
    /\ Backoff \in [1 .. MaxWriteRetries -> Nat]
    /\ ShutdownTimeout \in Nat
    /\ SinkFaults \subseteq SinkError
    /\ MaxItems \in Nat

VARIABLES
    pc,             \* the await the task is suspended at
    batchSize, maxLatency,      \* read from the sink when the task starts
    batch,          \* batch: the records buffered for the next flush
    records,        \* the batch that flush has taken and retry_write is writing
    attempt,        \* retries made in the current operation
    future,         \* the current call of the sink: see FutureState
    timer,          \* the deadlines, as ticks left: see TimerState
    shutdown,       \* the shutdown future
    result,         \* what pipeline_loop returned
    itemsRead       \* items taken from the source; a record is named by its position

VARIABLES           \* history: what the properties are about
    received,       \* the records the source has yielded, in order
    acknowledged,   \* the records of the writes that returned Ok, in order
    age,            \* ticks since the first record of batch was pushed
    elapsed         \* ticks since the shutdown future became ready

settings == <<batchSize, maxLatency>>
buffer   == <<batch, age>>
call     == <<records, attempt, future>>
source   == <<itemsRead, received>>
history  == <<acknowledged, elapsed>>
vars     == <<pc, settings, buffer, call, timer, result, shutdown, source, history>>

\* What a step inside an await leaves alone.
around   == <<settings, buffer, result, source, history>>

\* The awaits that go through bounded, and those of them that flush.  "flush"
\* is the size or the latency flush, "io_flush" the one after a source error,
\* "final_flush" and "close" those of finish.
FlushOps   == {"flush", "io_flush", "final_flush"}
RetriedOps == FlushOps \cup {"initialize"}
BoundedOps == RetriedOps \cup {"close"}
Forwarding == BoundedOps \cup {"start", "loop"}
Point      == Forwarding \cup {"cleanup", "returned"}

\* Of the call in progress: created but never polled, waiting for the sink,
\* asleep before a retry, or answered with Ok or an error.
Answer      == {"ok"} \cup SinkError
FutureState == Answer \cup {"none", "unpolled", "pending", "sleeping"}

Off        == -1
Ticks      == Nat \cup {Off}
TimerState == [latency: Ticks, retry: Ticks, shutdown: Ticks, cleanup: Ticks]
NoTimers   == [latency |-> Off, retry |-> Off, shutdown |-> Off, cleanup |-> Off]

\* PipelineError, by its variant.
Result == {"none", "Ok", "Sink", "Source", "ShutdownTimeout"}

TypeOK ==
    /\ pc \in Point
    /\ batchSize \in Nat /\ maxLatency \in Nat
    /\ batch \in Seq(Nat) /\ records \in Seq(Nat)
    /\ attempt \in 0 .. MaxWriteRetries
    /\ future \in FutureState
    /\ timer \in TimerState
    /\ shutdown \in {"pending", "ready", "taken", "panicked"}
    /\ result \in Result
    /\ itemsRead \in 0 .. MaxItems
    /\ received \in Seq(Nat) /\ acknowledged \in Seq(Nat)
    /\ age \in Nat /\ elapsed \in Nat

Init ==
    /\ pc = "start"
    /\ batchSize \in BatchSizes /\ maxLatency \in Latencies
    /\ batch = <<>> /\ records = <<>>
    /\ attempt = 0 /\ future = "none"
    /\ timer = NoTimers
    /\ shutdown = "pending" /\ result = "none" /\ itemsRead = 0
    /\ received = <<>> /\ acknowledged = <<>>
    /\ age = 0 /\ elapsed = 0

-----------------------------------------------------------------------------
(* Steps several handlers share. *)

Armed(t)   == timer[t] # Off
Expired(t) == timer[t] = 0

\* The buffers, the timers and the call in progress of pipeline_loop are dropped.
DropLocals == batch' = <<>> /\ records' = <<>> /\ attempt' = 0 /\ age' = 0

\* Plausible error: a batch that cannot be written is dropped and the loop goes on.
FailLogged(error) ==
    /\ pc' = "loop" /\ future' = "none" /\ timer' = NoTimers /\ DropLocals
    /\ UNCHANGED <<settings, result, shutdown, source, elapsed>>

\* Return Err(error) from pipeline_loop; run_pipeline_until then closes the sink
\* under a timeout of its own.
Fail(error) ==
    /\ pc' = "cleanup" /\ result' = error /\ future' = "unpolled" /\ DropLocals
    /\ timer' = [NoTimers EXCEPT !.cleanup = ShutdownTimeout]
    /\ UNCHANGED <<settings, shutdown, source, elapsed>>

\* Plausible error: the buffer is cloned instead of taken.
Cloned(b) == b

\* mem::take: flush leaves an empty buffer behind.
Taken(b) == <<>>

\* Await flush on the buffer b; on an empty one it returns Ok without a call.
FlushBuffer(op, b) ==
    /\ pc' = op /\ records' = b /\ batch' = Taken(b) /\ age' = 0
    /\ attempt' = 0 /\ future' = IF b = <<>> THEN "ok" ELSE "unpolled"
    /\ UNCHANGED <<settings, result, shutdown, history>>

FlushNow(op) == FlushBuffer(op, batch) /\ UNCHANGED <<timer, source>>

\* Plausible errors: finish closes the sink at once; finish is handed a fresh
\* shutdown deadline.
FinishUnflushed ==
    /\ pc' = "close" /\ future' = "unpolled"
    /\ UNCHANGED <<around, records, attempt, timer, shutdown>>

FinishFresh ==
    /\ FlushBuffer("final_flush", batch) /\ UNCHANGED source
    /\ timer' = [timer EXCEPT !.shutdown = IF @ = Off THEN Off ELSE ShutdownTimeout]

\* finish: flush what is buffered, and then close the sink (see FinalFlushDone).
Finish == FlushNow("final_flush")

\* Poll the shutdown future when it is not Pending; once it has completed it
\* must not be polled again (an async fn panics when it is).
PollShutdown ==
    /\ shutdown # "pending"
    /\ shutdown' = IF shutdown = "ready" THEN "taken" ELSE "panicked"
    /\ timer' = [timer EXCEPT !.shutdown = ShutdownTimeout]
    /\ UNCHANGED <<pc, around, call>>

-----------------------------------------------------------------------------
(* The start of pipeline_loop. *)

\* A batch size or a latency of zero is an error before any call of the sink.
RejectSettings ==
    /\ pc = "start"
    /\ batchSize = 0 \/ maxLatency = 0
    /\ Fail("Sink") /\ UNCHANGED acknowledged

StartInitialize ==
    /\ pc = "start"
    /\ batchSize > 0 /\ maxLatency > 0
    /\ pc' = "initialize" /\ future' = "unpolled"
    /\ UNCHANGED <<around, records, attempt, timer, shutdown>>

InitializeDone ==
    /\ pc = "initialize" /\ future = "ok"
    /\ pc' = "loop" /\ future' = "none" /\ attempt' = 0
    /\ UNCHANGED <<around, records, timer, shutdown>>

-----------------------------------------------------------------------------
(* The loop.  Its select! polls its branches in a random order, so that any *)
(* of those that are ready may win.                                         *)

\* Plausible error: the loop goes on selecting after a shutdown request, and
\* so polls the shutdown future again.
SelectingForever == pc = "loop"

\* The loop ends before its select! once the shutdown deadline is set.
Selecting == pc = "loop" /\ ~Armed("shutdown")

FinishRequested == pc = "loop" /\ Armed("shutdown") /\ Finish

ShutdownRequested == Selecting /\ PollShutdown

\* The source yields an item; a record is named by the item's position.
ReadItem == Selecting /\ itemsRead < MaxItems /\ itemsRead' = itemsRead + 1

\* Plausible errors: every record restarts the deadline; the deadline is that
\* of the first batch, never set again.
LatencyTimerRestarted == maxLatency
LatencyTimerOnce      == IF received = <<>> THEN maxLatency ELSE timer.latency

\* The deadline of a batch is that of its first record.
LatencyTimer == IF batch = <<>> THEN maxLatency ELSE timer.latency

ReadRecord ==
    /\ ReadItem
    /\ received' = Append(received, itemsRead')
    /\ timer' = [timer EXCEPT !.latency = LatencyTimer]

Full(n) == n >= batchSize

BufferRecord ==
    /\ ReadRecord
    /\ ~Full(Len(batch) + 1)
    /\ batch' = Append(batch, itemsRead')
    /\ UNCHANGED <<pc, settings, age, call, result, shutdown, history>>

\* The record fills the batch: flush it.
FillBatch ==
    /\ ReadRecord
    /\ Full(Len(batch) + 1)
    /\ FlushBuffer("flush", Append(batch, itemsRead'))

\* A line that does not parse is counted, reported and skipped.
SkipParseError ==
    /\ ReadItem
    /\ UNCHANGED <<pc, settings, buffer, call, timer, result, shutdown, received, history>>

\* StreamShutdown, or the end of the stream.
SourceEnds == Selecting /\ Finish

SourceFails == Selecting /\ FlushNow("io_flush")

LatencyExpired == Selecting /\ Expired("latency") /\ FlushNow("flush")

-----------------------------------------------------------------------------
(* Inside bounded: the operation, its retries and the shutdown request. *)

\* A call of the sink may have its answer when it is polled first, or wait for it.
Called == {"pending", "ok"} \cup SinkFaults

\* The first poll of the operation calls the sink.
CallSink ==
    /\ future = "unpolled" /\ future' \in Called
    /\ UNCHANGED <<pc, around, records, attempt, timer, shutdown>>

\* Plausible error: any error is retried, an unknown outcome too.
RetriesAll == future \in SinkError /\ attempt < MaxWriteRetries

\* The answer is an error that retry_initialize and retry_write retry.
Retries == future \in SinkError /\ IsRetryable(future) /\ attempt < MaxWriteRetries

\* Plausible error: the retries are not counted.
RetryLaterUncounted ==
    /\ pc \in RetriedOps /\ Retries
    /\ future' = "sleeping" /\ timer' = [timer EXCEPT !.retry = Backoff[attempt + 1]]
    /\ UNCHANGED <<pc, around, records, attempt, shutdown>>

RetryLater ==
    /\ pc \in RetriedOps /\ Retries
    /\ attempt' = attempt + 1 /\ future' = "sleeping"
    /\ timer' = [timer EXCEPT !.retry = Backoff[attempt + 1]]
    /\ UNCHANGED <<pc, around, records, shutdown>>

\* Plausible error: a retry is counted when it is planned and when it starts.
RetryNowCounted ==
    /\ future = "sleeping" /\ Expired("retry")
    /\ future' \in Called /\ attempt' = attempt + 1
    /\ timer' = [timer EXCEPT !.retry = Off]
    /\ UNCHANGED <<pc, around, records, shutdown>>

RetryNow ==
    /\ future = "sleeping" /\ Expired("retry")
    /\ future' \in Called
    /\ timer' = [timer EXCEPT !.retry = Off]
    /\ UNCHANGED <<pc, around, records, attempt, shutdown>>

\* The operation returns the sink's error, and with it pipeline_loop.
OpFails ==
    /\ pc \in BoundedOps \ {"io_flush"} /\ future \in SinkError
    /\ pc \in RetriedOps => ~Retries
    /\ Fail("Sink") /\ UNCHANGED acknowledged

\* The shutdown branch of bounded wins: the operation goes on, and from now on
\* every await of pipeline_loop shares one deadline.
BoundShutdown == pc \in BoundedOps /\ ~Armed("shutdown") /\ PollShutdown

\* timeout_at polls the operation first: it gives up on one that is still
\* waiting after that poll.
StillWaiting == future = "pending" \/ (future = "sleeping" /\ ~Expired("retry"))

TimesOut ==
    /\ pc \in BoundedOps /\ Expired("shutdown") /\ StillWaiting
    /\ Fail(IF pc = "io_flush" THEN "Source" ELSE "ShutdownTimeout")
    /\ UNCHANGED acknowledged

-----------------------------------------------------------------------------
(* The operation returned. *)

\* write_batch returned Ok, or there was nothing to write.
Acknowledge ==
    /\ future = "ok"
    /\ acknowledged' = acknowledged \o records /\ records' = <<>>

\* Plausible error: the deadline of the flushed batch stays armed.
StillArmed == timer

\* deadline = None: the next batch has no deadline yet.
Disarmed == [timer EXCEPT !.latency = Off]

FlushDone ==
    /\ pc = "flush" /\ Acknowledge
    /\ pc' = "loop" /\ future' = "none" /\ attempt' = 0 /\ timer' = Disarmed
    /\ UNCHANGED <<settings, buffer, result, shutdown, source, elapsed>>

\* A failed flush after a source error is only reported: the error returned is
\* the source's in either case.
SourceFlushDone ==
    /\ pc = "io_flush"
    /\ Acknowledge \/ (future \in SinkError /\ ~Retries /\ UNCHANGED acknowledged)
    /\ Fail("Source")

\* finish goes on to close the sink.
FinalFlushDone ==
    /\ pc = "final_flush" /\ Acknowledge
    /\ pc' = "close" /\ future' = "unpolled" /\ attempt' = 0
    /\ UNCHANGED <<settings, buffer, timer, result, shutdown, source, elapsed>>

Closed ==
    /\ pc = "close" /\ future = "ok"
    /\ pc' = "returned" /\ result' = "Ok" /\ future' = "none" /\ timer' = NoTimers
    /\ UNCHANGED <<settings, buffer, records, attempt, shutdown, source, history>>

\* cleanup_after_failure is over: its outcome is only reported.
CleanupOver ==
    pc = "cleanup" /\ (future \in Answer \/ (future = "pending" /\ Expired("cleanup")))

CleanupDone ==
    /\ CleanupOver
    /\ pc' = "returned" /\ future' = "none" /\ timer' = NoTimers
    /\ UNCHANGED <<around, records, attempt, shutdown>>

-----------------------------------------------------------------------------
(* The world around the task. *)

\* The sink answers the call in progress, whichever it is.
SinkAnswers ==
    /\ future = "pending" /\ future' \in {"ok"} \cup SinkFaults
    /\ UNCHANGED <<pc, around, records, attempt, timer, shutdown>>

\* SIGINT or SIGTERM completes the shutdown future.
Signal ==
    /\ shutdown = "pending" /\ pc # "returned"
    /\ shutdown' = "ready"
    /\ UNCHANGED <<pc, around, call, timer>>

\* What the task can do without the source, the sink, a signal or the clock.
Runnable ==
    \/ pc = "start"
    \/ pc = "loop" /\ (Armed("shutdown") \/ shutdown # "pending" \/ Expired("latency"))
    \/ pc \in BoundedOps
         /\ \/ ~StillWaiting
            \/ Expired("shutdown")
            \/ ~Armed("shutdown") /\ shutdown # "pending"
    \/ pc = "cleanup" /\ (future # "pending" \/ Expired("cleanup"))

Tick ==
    /\ ~Runnable
    /\ \E t \in DOMAIN timer : timer[t] > 0
    /\ timer' = [t \in DOMAIN timer |-> IF timer[t] > 0 THEN timer[t] - 1 ELSE timer[t]]
    /\ age' = IF batch = <<>> THEN age ELSE age + 1
    /\ elapsed' = IF shutdown = "pending" THEN elapsed ELSE elapsed + 1
    /\ UNCHANGED <<pc, settings, batch, call, result, shutdown, source, acknowledged>>

Terminated == pc = "returned" /\ UNCHANGED vars

-----------------------------------------------------------------------------

\* What the source can make the task do.
SourceStep == BufferRecord \/ FillBatch \/ SkipParseError \/ SourceEnds \/ SourceFails

\* What the task does by itself when it is polled: alone, by a call of the sink,
\* or by giving up on one.
TaskAlone ==
    \/ RejectSettings \/ StartInitialize \/ InitializeDone
    \/ FinishRequested \/ ShutdownRequested \/ LatencyExpired
    \/ RetryLater \/ OpFails \/ BoundShutdown
    \/ FlushDone \/ SourceFlushDone \/ FinalFlushDone \/ Closed

TaskStep == TaskAlone \/ CallSink \/ RetryNow \/ TimesOut \/ CleanupDone

Next ==
    \/ TaskStep \/ SourceStep
    \/ SinkAnswers \/ Signal \/ Tick
    \/ Terminated

Spec == Init /\ [][Next]_vars

\* The runtime polls a task that was woken, and the clock advances.  Neither the
\* source, the sink nor the operator owes the task anything.
FairSpec == Spec /\ WF_vars(TaskStep) /\ WF_vars(Tick)

-----------------------------------------------------------------------------
(* Properties. *)

\* While the task forwards (any await before an error), every record the source
\* has yielded is exactly once in one of three places, in the order it was read:
\* acknowledged by the sink, in the batch being written or in the buffer.  The
\* hand-over between them is push, mem::take and the retries of flush.
NothingForgotten ==
    pc \in Forwarding => received = acknowledged \o records \o batch

\* However the task ends, what the sink acknowledged is an initial part of what
\* the source yielded: no gap, no reordering, no batch acknowledged twice.
AcknowledgedInOrder == IsPrefix(acknowledged, received)

\* run_pipeline_until returns Ok only after every record was acknowledged.
OkMeansDelivered == result = "Ok" => acknowledged = received

\* An error loses at most one batch of what was read: batch never outgrows
\* desired_batch_size, and nothing is read while a batch is being written.
LossBounded == batchSize > 0 => Len(received) <= Len(acknowledged) + batchSize

\* In the loop the latency branch is armed exactly while a record is buffered:
\* an armed deadline without records would make the select! spin, records
\* without one could wait for ever.
LatencyArmed == pc = "loop" => (Armed("latency") <=> batch # <<>>)

\* "A partial batch is flushed after its configured latency, measured from its
\* first record" (README.md:49): no buffered record waits longer.
LatencyBound == age <= maxLatency

\* The shutdown future is not polled after it completed (pipeline.rs:58), over
\* all the calls of bounded and the loop that share it.
ShutdownPolledOnce == shutdown # "panicked"

\* From the signal on, a clean end takes at most the shutdown timeout, whatever
\* was in progress and however the sink behaves; an error at most twice that,
\* because the cleanup after it has a timeout of its own.
ShutdownBound ==
    /\ result = "Ok" => elapsed <= ShutdownTimeout
    /\ elapsed <= 2 * ShutdownTimeout

\* When the input has ended and the sink answers every call in the end, the task
\* ends: no await of finish is bounded without a signal (pipeline.rs:183), but
\* its retries are.
InputEnds == WF_vars(SinkAnswers) => (pc = "final_flush" ~> pc = "returned")

\* With a sink that answers every call in the end, each record the source has
\* yielded is acknowledged in the end, unless the task returns an error: no
\* record is stranded in the buffer and no retry goes on for ever.
Delivered ==
    WF_vars(SinkAnswers) =>
        \A n \in 1 .. MaxItems :
            Len(received) >= n ~> Len(acknowledged) >= n \/ result \notin {"none", "Ok"}

-----------------------------------------------------------------------------
(* What the task promises, in the terms of Delivery. *)

Outcome ==
    CASE result = "none" -> "running"
      [] result = "Ok"   -> "ok"
      [] OTHER           -> "failed"

Promise == INSTANCE Delivery
    WITH Record <- 1 .. MaxItems, limit <- batchSize, input <- received,
         stored <- acknowledged, outcome <- Outcome

\* The task of pipeline.rs delivers: each write that the sink acknowledges is
\* everything read since the one before, and Ok leaves nothing out.
ImplementsDelivery == Promise!Spec
=============================================================================
