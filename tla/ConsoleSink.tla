---------------------------- MODULE ConsoleSink ----------------------------
(***************************************************************************)
(* The process with the console sink (sink/console.rs): the forwarding     *)
(* task of Pipeline writes each batch to stdout, as one JSON line for each *)
(* record.  write_all hands the whole output to a blocking thread and      *)
(* flush awaits the outcome; the thread writes in parts of any size, and   *)
(* may fail after any of them.  A line is cut here in two parts, its head  *)
(* and the tail that holds the newline.                                    *)
(*                                                                         *)
(* stdout is external: what was written stays written.  As in Forwarder,   *)
(* process::exit or a kill may stop the thread after any of its steps.     *)
(***************************************************************************)
EXTENDS Pipeline

ASSUME ConsoleAssumption == {"IoError", "ClosedPipe", "SerializationError"} \subseteq SinkFaults

VARIABLES
    out,            \* the parts on stdout, in order
    left            \* the parts the blocking thread has still to write

stdout == <<out, left>>
consoleVars == <<vars, stdout>>

ConsoleInit == Init /\ out = <<>> /\ left = <<>>

\* What the task knows of a write is its outcome.
TaskWaits == UNCHANGED <<pc, around, records, attempt, timer, shutdown>>

\* The output of write_batch: the line of each record, in the order of the batch.
Output(rows) ==
    [i \in 1 .. 2 * Len(rows) |->
        <<rows[(i + 1) \div 2], IF i % 2 = 1 THEN "head" ELSE "tail">>]

\* initialize and shutdown are the defaults of SensorValuesSink.
DefaultReturns == pc \notin FlushOps /\ future' = "ok" /\ UNCHANGED left

\* write_batch fails before it writes anything, or it starts to write.
WriteBatch ==
    /\ pc \in FlushOps
    /\ \/ future' = "SerializationError" /\ UNCHANGED left
       \/ future' = "pending" /\ left' = Output(records)

CallsConsole == (CallSink \/ RetryNow) /\ (DefaultReturns \/ WriteBatch) /\ UNCHANGED out

\* The blocking thread, for a caller that may have given up.
WritePart ==
    /\ left # <<>>
    /\ out' = Append(out, Head(left)) /\ left' = Tail(left)
    /\ TaskWaits /\ UNCHANGED future

\* Plausible error: without the flush, write_batch returns when write_all has
\* handed the output over.
FlushedEarly == future = "pending"

Flushed == future = "pending" /\ left = <<>>

WriteReturns == Flushed /\ future' = "ok" /\ TaskWaits /\ UNCHANGED stdout

\* Plausible error: the failure of a write that was given up on reaches whatever
\* call comes next.
WriteFailsLate ==
    /\ left # <<>> /\ left' = <<>>
    /\ future' \in {"IoError", "ClosedPipe"}
    /\ TaskWaits /\ UNCHANGED out

WriteFails ==
    /\ left # <<>> /\ left' = <<>>
    /\ IF future = "pending" THEN future' \in {"IoError", "ClosedPipe"}
                             ELSE UNCHANGED future
    /\ TaskWaits /\ UNCHANGED out

StdoutStep == WritePart \/ WriteReturns \/ WriteFails

\* Steps in which stdout has no part; a write that is given up on goes on.
Apart ==
    /\ TaskAlone \/ TimesOut \/ CleanupDone \/ SourceStep \/ Signal \/ Tick \/ Terminated
    /\ UNCHANGED stdout

ConsoleNext == CallsConsole \/ StdoutStep \/ Apart

ConsoleSpec == ConsoleInit /\ [][ConsoleNext]_consoleVars

-----------------------------------------------------------------------------
(* Properties. *)

Parts(i, n) == i < Len(out) /\ out[i] = <<n, "head">> /\ out[i + 1] = <<n, "tail">>

\* The task run against stdout is the task of Pipeline.
ConsoleImplementsPipeline == Spec

\* write_batch returns Ok only when its lines are on stdout, each in one piece,
\* whatever earlier attempts left there.
AcknowledgedWhole ==
    \A n \in Range(acknowledged) : \E i \in DOMAIN out : Parts(i, n)

\* The output never goes back to an earlier record, although writes are retried
\* and one that was given up on is still being carried out.
OutputInOrder == \A i, j \in DOMAIN out : i < j => out[i][1] <= out[j][1]

\* A line that was cut ends the output, or the retry of its record follows: the
\* task never goes on to another record after it.
TearsRetried ==
    \A i \in 1 .. Len(out) - 1 :
        out[i][2] = "head" => out[i + 1][1] = out[i][1]

\* "Sink that writes telemetry records as JSON lines to stdout" (console.rs:9)
\* and "other retried writes provide at-least-once delivery and consumers should
\* tolerate duplicates" (README.md:53): an acknowledged record has a line of its
\* own, so that a consumer can parse it.
LineOfItsOwn ==
    \A n \in Range(acknowledged) :
        \E i \in DOMAIN out : Parts(i, n) /\ (i > 1 => out[i - 1][2] = "tail")
=============================================================================
