--------------------------- MODULE PipelineProofs ---------------------------
(***************************************************************************)
(* Proofs about Pipeline, for every set of batch sizes, latencies, retries, *)
(* delays, timeouts, sink errors and any number of items.                  *)
(***************************************************************************)
EXTENDS Pipeline, SequenceTheorems, TLAPS

-----------------------------------------------------------------------------
(* Sequences. *)

\* A sequence is a prefix of whatever is appended to it.
LEMMA PrefixOfConcat ==
    ASSUME NEW s \in Seq(Nat), NEW t \in Seq(Nat)
    PROVE  IsPrefix(s, s \o t)
BY DEF IsPrefix

LEMMA PrefixOfSelf ==
    ASSUME NEW s \in Seq(Nat)
    PROVE  IsPrefix(s, s)
BY DEF IsPrefix

LEMMA PrefixOfAppend ==
    ASSUME NEW s \in Seq(Nat), NEW t \in Seq(Nat), NEW n \in Nat, IsPrefix(s, t)
    PROVE  IsPrefix(s, Append(t, n))
BY DEF IsPrefix

LEMMA ConcatAppend ==
    ASSUME NEW s \in Seq(Nat), NEW t \in Seq(Nat), NEW n \in Nat
    PROVE  Append(s \o t, n) = s \o Append(t, n)
<1>1. Append(s \o t, n) = (s \o t) \o <<n>>
  BY ConcatProperties, AppendIsConcat
<1>2. Append(t, n) = t \o <<n>>
  BY AppendIsConcat
<1>3. <<n>> \in Seq(Nat)
  OBVIOUS
<1>4. QED
  BY <1>1, <1>2, <1>3, ConcatAssociative

LEMMA ConcatEmpty ==
    ASSUME NEW s \in Seq(Nat)
    PROVE  s \o <<>> = s
BY ConcatEmptySeq

LEMMA PrefixOfConcat3 ==
    ASSUME NEW s \in Seq(Nat), NEW t \in Seq(Nat), NEW u \in Seq(Nat)
    PROVE  IsPrefix(s, s \o t \o u)
<1>1. t \o u \in Seq(Nat)
  BY ConcatProperties
<1>2. s \o t \o u = s \o (t \o u)
  BY ONLY s \in Seq(Nat), t \in Seq(Nat), u \in Seq(Nat), ConcatAssociative, SMTT(30)
<1>3. QED
  BY <1>1, <1>2, PrefixOfConcat

-----------------------------------------------------------------------------
(* Type correctness. *)

LEMMA InitType == Init => TypeOK
BY PipelineAssumption
   DEF Init, TypeOK, Point, Forwarding, BoundedOps, FutureState, TimerState, NoTimers,
       Ticks, Off, Result

LEMMA NextType == TypeOK /\ [Next]_vars => TypeOK'
<1> SUFFICES ASSUME TypeOK, [Next]_vars PROVE TypeOK'
  OBVIOUS
<1> USE PipelineAssumption DEF TypeOK, Point, Forwarding, BoundedOps, RetriedOps, FlushOps,
        FutureState, Answer, TimerState, NoTimers, Ticks, Off, Result,
        settings, buffer, call, source, history, around
<1>1. CASE RejectSettings
  BY <1>1 DEF RejectSettings, Fail, DropLocals
<1>2. CASE StartInitialize
  BY <1>2 DEF StartInitialize
<1>3. CASE InitializeDone
  BY <1>3 DEF InitializeDone
<1>4. CASE FinishRequested
  BY <1>4 DEF FinishRequested, Finish, FlushNow, FlushBuffer, Taken
<1>5. CASE ShutdownRequested
  BY <1>5 DEF ShutdownRequested, PollShutdown
<1>6. CASE LatencyExpired
  BY <1>6 DEF LatencyExpired, FlushNow, FlushBuffer, Taken
<1>7. CASE CallSink
  <2>1. future' \in FutureState
    BY <1>7 DEF CallSink, Called
  <2>2. QED
    BY <1>7, <2>1 DEF CallSink
<1>8. CASE RetryLater
  <2>1. attempt + 1 \in 1 .. MaxWriteRetries
    BY <1>8, SMTT(30) DEF RetryLater, Retries
  <2>2. Backoff[attempt + 1] \in Nat
    BY <2>1
  <2>3. timer' \in TimerState
    BY <1>8, <2>2 DEF RetryLater
  <2>4. QED
    BY <1>8, <2>1, <2>3 DEF RetryLater
<1>9. CASE RetryNow
  <2>1. future' \in FutureState
    BY <1>9 DEF RetryNow, Called
  <2>2. QED
    BY <1>9, <2>1 DEF RetryNow
<1>10. CASE OpFails
  BY <1>10 DEF OpFails, Fail, DropLocals
<1>11. CASE BoundShutdown
  BY <1>11 DEF BoundShutdown, PollShutdown
<1>12. CASE TimesOut
  BY <1>12 DEF TimesOut, Fail, DropLocals
<1>13. CASE FlushDone
  <2>1. acknowledged' \in Seq(Nat)
    BY <1>13, ConcatProperties DEF FlushDone, Acknowledge
  <2>2. timer' \in TimerState
    BY <1>13 DEF FlushDone, Disarmed
  <2>3. records' \in Seq(Nat)
    BY <1>13 DEF FlushDone, Acknowledge
  <2>4. QED
    BY <1>13, <2>1, <2>2, <2>3 DEF FlushDone
<1>14. CASE SourceFlushDone
  <2>1. acknowledged' \in Seq(Nat)
    <3>1. acknowledged \o records \in Seq(Nat)
      BY ConcatProperties
    <3>2. QED
      BY <1>14, <3>1 DEF SourceFlushDone, Acknowledge
  <2>2. QED
    BY <1>14, <2>1 DEF SourceFlushDone, Fail, DropLocals
<1>15. CASE FinalFlushDone
  BY <1>15 DEF FinalFlushDone, Acknowledge
<1>16. CASE Closed
  BY <1>16 DEF Closed
<1>17. CASE CleanupDone
  BY <1>17 DEF CleanupDone
<1>18. CASE BufferRecord
  <2>1. batch' \in Seq(Nat) /\ received' \in Seq(Nat) /\ itemsRead' \in 0 .. MaxItems
    BY <1>18, SMTT(30) DEF BufferRecord, ReadRecord, ReadItem
  <2>2. timer' \in TimerState
    BY <1>18 DEF BufferRecord, ReadRecord, LatencyTimer
  <2>3. QED
    BY <1>18, <2>1, <2>2 DEF BufferRecord
<1>19. CASE FillBatch
  <2>1. itemsRead' \in 0 .. MaxItems /\ received' = Append(received, itemsRead')
    BY <1>19, SMTT(30) DEF FillBatch, ReadRecord, ReadItem
  <2>2. records' = Append(batch, itemsRead') /\ batch' = <<>>
    BY <1>19 DEF FillBatch, FlushBuffer, Taken
  <2>3. /\ batch' \in Seq(Nat) /\ records' \in Seq(Nat) /\ received' \in Seq(Nat)
        /\ itemsRead' \in 0 .. MaxItems
    BY <2>1, <2>2
  <2>4. timer' \in TimerState
    BY <1>19 DEF FillBatch, ReadRecord, LatencyTimer
  <2>5. QED
    BY <1>19, <2>3, <2>4 DEF FillBatch, FlushBuffer
<1>20. CASE SkipParseError
  BY <1>20 DEF SkipParseError, ReadItem
<1>21. CASE SourceEnds
  BY <1>21 DEF SourceEnds, Finish, FlushNow, FlushBuffer, Taken
<1>22. CASE SourceFails
  BY <1>22 DEF SourceFails, FlushNow, FlushBuffer, Taken
<1>23. CASE SinkAnswers
  BY <1>23 DEF SinkAnswers
<1>24. CASE Signal
  BY <1>24 DEF Signal
<1>25. CASE Tick
  <2>1. \A t \in DOMAIN timer : timer[t] > 0 => timer[t] - 1 \in Nat
    OBVIOUS
  <2>2. timer' \in TimerState
    BY <1>25, <2>1 DEF Tick
  <2>3. age' \in Nat /\ elapsed' \in Nat
    BY <1>25 DEF Tick
  <2>4. QED
    BY <1>25, <2>2, <2>3 DEF Tick
<1>26. CASE UNCHANGED vars
  BY <1>26 DEF vars
<1>27. QED
  BY <1>1, <1>2, <1>3, <1>4, <1>5, <1>6, <1>7, <1>8, <1>9, <1>10, <1>11, <1>12,
     <1>13, <1>14, <1>15, <1>16, <1>17, <1>18, <1>19, <1>20, <1>21, <1>22, <1>23,
     <1>24, <1>25, <1>26 DEF Next, TaskStep, TaskAlone, SourceStep, Terminated

\* The state of the task always has its type: attempt stays within the retries
\* that Backoff is defined for, and every timer is off or a number of ticks.
THEOREM TypeCorrect == Spec => []TypeOK
BY InitType, NextType, PTL DEF Spec

-----------------------------------------------------------------------------
(* Delivery.  The inductive invariant adds to the properties where a record *)
(* can be: in batch only in the loop, in records only during a flush.  That *)
(* is what makes mem::take and the next push keep the order.                *)

DeliveryInv ==
    /\ pc # "loop" => batch = <<>>
    /\ pc \notin FlushOps => records = <<>>
    /\ pc # "returned" => result # "Ok"
    /\ NothingForgotten
    /\ AcknowledgedInOrder
    /\ OkMeansDelivered

\* While the task forwards, the order of the three parts gives the prefix.
LEMMA ForwardingDelivery ==
    ASSUME TypeOK', pc' \in Forwarding, result' # "Ok",
           pc' # "loop" => batch' = <<>>,
           pc' \notin FlushOps => records' = <<>>,
           received' = acknowledged' \o records' \o batch'
    PROVE  DeliveryInv'
<1>1. IsPrefix(acknowledged', received')
  BY PrefixOfConcat3 DEF TypeOK
<1>2. QED
  BY <1>1 DEF DeliveryInv, NothingForgotten, AcknowledgedInOrder, OkMeansDelivered

\* An error drops both buffers; what was acknowledged stays a prefix.
LEMMA FailedDelivery ==
    ASSUME TypeOK, DeliveryInv, NEW error \in {"Sink", "Source", "ShutdownTimeout"},
           Fail(error), UNCHANGED acknowledged
    PROVE  DeliveryInv'
BY DEF Fail, DropLocals, DeliveryInv, NothingForgotten, AcknowledgedInOrder,
       OkMeansDelivered, Forwarding, BoundedOps, RetriedOps, FlushOps, source

\* flush takes the whole buffer b, with which nothing else is in flight.
LEMMA FlushDelivery ==
    ASSUME TypeOK, TypeOK', DeliveryInv, pc = "loop", NEW op \in FlushOps,
           NEW b \in Seq(Nat), FlushBuffer(op, b), received' = acknowledged \o b
    PROVE  DeliveryInv'
<1>1. /\ pc' = op /\ records' = b /\ batch' = <<>>
      /\ UNCHANGED <<result, acknowledged>>
  BY DEF FlushBuffer, Taken, history
<1>2. received' = acknowledged' \o records' \o batch'
  <2>1. acknowledged \o b \in Seq(Nat)
    BY ConcatProperties DEF TypeOK
  <2>2. QED
    BY <1>1, <2>1, ConcatEmpty
<1>3. pc' \in Forwarding /\ result' # "Ok" /\ pc' # "loop"
  BY <1>1 DEF Forwarding, BoundedOps, RetriedOps, FlushOps, DeliveryInv
<1>4. QED
  BY <1>1, <1>2, <1>3, ForwardingDelivery

\* In the loop, what is not acknowledged is buffered.
LEMMA LoopDelivery ==
    ASSUME TypeOK, DeliveryInv, pc = "loop"
    PROVE  records = <<>> /\ received = acknowledged \o batch
BY ConcatEmpty DEF TypeOK, DeliveryInv, NothingForgotten, Forwarding, BoundedOps,
       RetriedOps, FlushOps

\* A step that touches no record and stays among the same buffers.
LEMMA IdleDelivery ==
    ASSUME DeliveryInv, UNCHANGED <<batch, records, received, acknowledged, result>>,
           pc' = pc
    PROVE  DeliveryInv'
BY DEF DeliveryInv, NothingForgotten, AcknowledgedInOrder, OkMeansDelivered

\* When the write of a batch returned, everything received is acknowledged.
LEMMA AcknowledgedDelivery ==
    ASSUME TypeOK, DeliveryInv, pc \in FlushOps, Acknowledge, received' = received
    PROVE  /\ batch = <<>> /\ records' = <<>> /\ result # "Ok"
           /\ acknowledged' \in Seq(Nat)
           /\ received' = acknowledged'
<1>1. acknowledged \o records \in Seq(Nat)
  BY ConcatProperties DEF TypeOK
<1>2. batch = <<>> /\ result # "Ok" /\ received = acknowledged \o records \o batch
  BY DEF DeliveryInv, NothingForgotten, Forwarding, BoundedOps, RetriedOps, FlushOps
<1>3. received = acknowledged \o records
  BY <1>1, <1>2, ConcatEmpty
<1>4. QED
  BY <1>1, <1>2, <1>3 DEF Acknowledge

LEMMA InitDelivery == Init => DeliveryInv
<1> SUFFICES ASSUME Init PROVE DeliveryInv
  OBVIOUS
<1>1. <<>> = <<>> \o <<>> \o <<>> /\ IsPrefix(<<>>, <<>>)
  <2>1. <<>> \in Seq(Nat)
    OBVIOUS
  <2>2. QED
    BY <2>1, ConcatEmpty, PrefixOfSelf
<1>2. QED
  BY <1>1 DEF Init, DeliveryInv, NothingForgotten, AcknowledgedInOrder, OkMeansDelivered

LEMMA NextDelivery == TypeOK /\ TypeOK' /\ DeliveryInv /\ [Next]_vars => DeliveryInv'
<1> SUFFICES ASSUME TypeOK, TypeOK', DeliveryInv, [Next]_vars PROVE DeliveryInv'
  OBVIOUS
<1> USE DEF Forwarding, BoundedOps, RetriedOps, FlushOps
<1>1. CASE RejectSettings
  BY <1>1, FailedDelivery DEF RejectSettings
<1>2. CASE StartInitialize
  BY <1>2 DEF StartInitialize, around, buffer, source, history, DeliveryInv,
              NothingForgotten, AcknowledgedInOrder, OkMeansDelivered
<1>3. CASE InitializeDone
  BY <1>3 DEF InitializeDone, around, buffer, source, history, DeliveryInv,
              NothingForgotten, AcknowledgedInOrder, OkMeansDelivered
<1>4. CASE pc = "loop" /\ \E op \in FlushOps : FlushNow(op)
  <2>1. PICK op \in FlushOps : FlushNow(op)
    BY <1>4
  <2>2. batch \in Seq(Nat) /\ received' = acknowledged \o batch
    BY <1>4, <2>1, LoopDelivery DEF FlushNow, source, TypeOK
  <2>3. QED
    BY <1>4, <2>1, <2>2, FlushDelivery DEF FlushNow
<1>5. CASE ShutdownRequested \/ BoundShutdown
  BY <1>5, IdleDelivery DEF ShutdownRequested, BoundShutdown, PollShutdown, around,
                            buffer, source, history, call
<1>6. CASE CallSink
  BY <1>6, IdleDelivery DEF CallSink, around, buffer, source, history
<1>7. CASE RetryLater \/ RetryNow
  BY <1>7, IdleDelivery DEF RetryLater, RetryNow, around, buffer, source, history
<1>8. CASE OpFails
  BY <1>8, FailedDelivery DEF OpFails
<1>9. CASE TimesOut
  BY <1>9, FailedDelivery DEF TimesOut
<1>10. CASE FlushDone
  <2>1. /\ batch' = <<>> /\ records' = <<>> /\ result' # "Ok"
        /\ acknowledged' \in Seq(Nat) /\ received' = acknowledged'
    BY <1>10, AcknowledgedDelivery DEF FlushDone, buffer, source
  <2>2. received' = acknowledged' \o records' \o batch'
    BY <2>1, ConcatEmpty
  <2>3. QED
    BY <1>10, <2>1, <2>2, ForwardingDelivery DEF FlushDone
<1>11. CASE SourceFlushDone
  <2>1. CASE Acknowledge
    <3>1. received' = received
      BY <1>11 DEF SourceFlushDone, Fail, source
    <3>2. acknowledged' \in Seq(Nat) /\ received' = acknowledged'
      BY <1>11, <2>1, <3>1, AcknowledgedDelivery DEF SourceFlushDone
    <3>3. IsPrefix(acknowledged', received')
      BY <3>2, PrefixOfSelf
    <3>4. QED
      BY <1>11, <3>2, <3>3 DEF SourceFlushDone, Fail, DropLocals, DeliveryInv,
            NothingForgotten, AcknowledgedInOrder, OkMeansDelivered
  <2>2. CASE UNCHANGED acknowledged
    BY <1>11, <2>2, FailedDelivery DEF SourceFlushDone
  <2>3. QED
    BY <1>11, <2>1, <2>2 DEF SourceFlushDone
<1>12. CASE FinalFlushDone
  <2>1. /\ batch' = <<>> /\ records' = <<>> /\ result' # "Ok"
        /\ acknowledged' \in Seq(Nat) /\ received' = acknowledged'
    BY <1>12, AcknowledgedDelivery DEF FinalFlushDone, buffer, source
  <2>2. received' = acknowledged' \o records' \o batch'
    BY <2>1, ConcatEmpty
  <2>3. QED
    BY <1>12, <2>1, <2>2, ForwardingDelivery DEF FinalFlushDone
<1>13. CASE Closed
  <2>1. received = acknowledged
    <3>1. received = acknowledged \o <<>> \o <<>>
      BY <1>13 DEF Closed, DeliveryInv, NothingForgotten
    <3>2. QED
      BY <3>1, ConcatEmpty DEF TypeOK
  <2>2. QED
    BY <1>13, <2>1 DEF Closed, buffer, source, history, DeliveryInv, NothingForgotten,
                       AcknowledgedInOrder, OkMeansDelivered
<1>14. CASE CleanupDone
  BY <1>14 DEF CleanupDone, CleanupOver, around, buffer, source, history, DeliveryInv,
               NothingForgotten, AcknowledgedInOrder, OkMeansDelivered
<1>15. CASE BufferRecord
  <2>1. records' = <<>> /\ received = acknowledged \o batch
    BY <1>15, LoopDelivery DEF BufferRecord, ReadRecord, ReadItem, Selecting, call
  <2>2. received' = acknowledged' \o batch'
    <3>1. itemsRead' \in Nat
      BY DEF TypeOK
    <3>2. acknowledged \in Seq(Nat) /\ batch \in Seq(Nat)
      BY DEF TypeOK
    <3>3. Append(acknowledged \o batch, itemsRead') = acknowledged \o Append(batch, itemsRead')
      BY <3>1, <3>2, ConcatAppend
    <3>4. QED
      BY <1>15, <2>1, <3>3 DEF BufferRecord, ReadRecord, history
  <2>3. received' = acknowledged' \o records' \o batch'
    BY <2>1, <2>2, ConcatEmpty DEF TypeOK
  <2>4. pc' = "loop" /\ result' # "Ok"
    BY <1>15 DEF BufferRecord, ReadRecord, ReadItem, Selecting, DeliveryInv
  <2>5. QED
    BY <2>1, <2>3, <2>4, ForwardingDelivery
<1>16. CASE FillBatch
  <2>1. pc = "loop" /\ received = acknowledged \o batch
    BY <1>16, LoopDelivery DEF FillBatch, ReadRecord, ReadItem, Selecting
  <2>2. itemsRead' \in Nat
    BY DEF TypeOK
  <2>3. received' = acknowledged \o Append(batch, itemsRead')
    <3>1. acknowledged \in Seq(Nat) /\ batch \in Seq(Nat)
      BY DEF TypeOK
    <3>2. Append(acknowledged \o batch, itemsRead') = acknowledged \o Append(batch, itemsRead')
      BY <2>2, <3>1, ConcatAppend
    <3>3. QED
      BY <1>16, <2>1, <3>2 DEF FillBatch, ReadRecord
  <2>4. Append(batch, itemsRead') \in Seq(Nat)
    BY <2>2 DEF TypeOK
  <2>5. QED
    BY <1>16, <2>1, <2>3, <2>4, FlushDelivery DEF FillBatch
<1>17. CASE SkipParseError
  BY <1>17, IdleDelivery DEF SkipParseError, buffer, call, history
<1>18. CASE SinkAnswers
  BY <1>18, IdleDelivery DEF SinkAnswers, around, buffer, source, history
<1>19. CASE Signal
  BY <1>19, IdleDelivery DEF Signal, around, buffer, source, history, call
<1>20. CASE Tick
  BY <1>20, IdleDelivery DEF Tick, source, call
<1>21. CASE UNCHANGED vars
  BY <1>21, IdleDelivery DEF vars, buffer, call, source, history
<1>22. FinishRequested \/ LatencyExpired \/ SourceEnds \/ SourceFails =>
            pc = "loop" /\ \E op \in FlushOps : FlushNow(op)
  BY DEF FinishRequested, LatencyExpired, SourceEnds, SourceFails, Finish, Selecting
<1>23. QED
  BY <1>1, <1>2, <1>3, <1>4, <1>5, <1>6, <1>7, <1>8, <1>9, <1>10, <1>11, <1>12,
     <1>13, <1>14, <1>15, <1>16, <1>17, <1>18, <1>19, <1>20, <1>21, <1>22
     DEF Next, TaskStep, TaskAlone, SourceStep, Terminated

LEMMA DeliveryAlways == Spec => []DeliveryInv
<1>1. Init => DeliveryInv
  BY InitDelivery
<1>2. TypeOK /\ TypeOK' /\ DeliveryInv /\ [Next]_vars => DeliveryInv'
  BY NextDelivery
<1>3. QED
  BY <1>1, <1>2, TypeCorrect, PTL DEF Spec

\* Between push, mem::take and the retries no record is lost, duplicated or
\* reordered while the task forwards.
THEOREM NeverForgets == Spec => []NothingForgotten
<1>1. DeliveryInv => NothingForgotten
  BY DEF DeliveryInv
<1>2. QED
  BY <1>1, DeliveryAlways, PTL

\* What the sink acknowledged is an initial part of what was read, after an
\* error and a shutdown too.
THEOREM AcknowledgesInOrder == Spec => []AcknowledgedInOrder
<1>1. DeliveryInv => AcknowledgedInOrder
  BY DEF DeliveryInv
<1>2. QED
  BY <1>1, DeliveryAlways, PTL

\* run_pipeline_until returns Ok only when every record read was acknowledged.
THEOREM OkDelivers == Spec => []OkMeansDelivered
<1>1. DeliveryInv => OkMeansDelivered
  BY DEF DeliveryInv
<1>2. QED
  BY <1>1, DeliveryAlways, PTL

-----------------------------------------------------------------------------
(* Loss.  The buffer is short of a batch in the loop, and a flush carries at *)
(* most one batch: that is all an error can drop.                            *)

SizeInv ==
    /\ pc \in Forwarding \ {"start"} => batchSize > 0
    /\ pc = "loop" => Len(batch) < batchSize
    /\ pc \in FlushOps => Len(records) <= batchSize
    /\ LossBounded

\* The settings and what has been acknowledged do not shrink, and no record is
\* read: the bound on the loss is kept.
LEMMA LossKept ==
    ASSUME TypeOK, TypeOK', LossBounded, UNCHANGED <<batchSize, received>>,
           Len(acknowledged) <= Len(acknowledged')
    PROVE  LossBounded'
<1>1. /\ Len(received) \in Nat /\ Len(acknowledged) \in Nat /\ Len(acknowledged') \in Nat
      /\ batchSize \in Nat
  BY DEF TypeOK
<1>2. QED
  BY <1>1 DEF LossBounded

\* In the loop and after a record was read, what is not acknowledged is batch.
LEMMA LossOfBuffer ==
    ASSUME TypeOK, TypeOK', DeliveryInv, pc = "loop", NEW b \in Seq(Nat),
           received' = acknowledged \o b, UNCHANGED <<batchSize, acknowledged>>,
           Len(b) <= batchSize
    PROVE  LossBounded'
<1>1. Len(received') = Len(acknowledged) + Len(b)
  BY ConcatProperties DEF TypeOK
<1>2. acknowledged \in Seq(Nat) /\ batchSize \in Nat
  BY DEF TypeOK
<1>3. Len(acknowledged) \in Nat /\ Len(b) \in Nat
  BY <1>2
<1>4. QED
  BY ONLY <1>1, <1>2, <1>3, UNCHANGED <<batchSize, acknowledged>>, Len(b) <= batchSize
     DEF LossBounded

LEMMA InitSize == Init => SizeInv
BY PipelineAssumption DEF Init, SizeInv, LossBounded, Forwarding, BoundedOps, RetriedOps, FlushOps

\* The steps that read no record and flush nothing.
LEMMA QuietSize ==
    ASSUME TypeOK, TypeOK', SizeInv, UNCHANGED <<batchSize, received, acknowledged>>,
           \/ pc' = pc /\ UNCHANGED <<batch, records>>
           \/ pc' \notin Forwarding
    PROVE  SizeInv'
<1>1. LossBounded'
  <2>1. Len(acknowledged) <= Len(acknowledged')
    BY DEF TypeOK
  <2>2. QED
    BY <2>1, LossKept DEF SizeInv
<1>2. QED
  BY <1>1 DEF SizeInv, Forwarding, BoundedOps, RetriedOps, FlushOps

LEMMA FailSize ==
    ASSUME TypeOK, TypeOK', SizeInv, NEW error, Fail(error), UNCHANGED acknowledged
    PROVE  SizeInv'
BY QuietSize DEF Fail, source, settings, Forwarding, BoundedOps, RetriedOps, FlushOps

LEMMA NextSize == TypeOK /\ TypeOK' /\ DeliveryInv /\ SizeInv /\ [Next]_vars => SizeInv'
<1> SUFFICES ASSUME TypeOK, TypeOK', DeliveryInv, SizeInv, [Next]_vars PROVE SizeInv'
  OBVIOUS
<1> USE DEF settings, buffer, source, history, around
<1>1. CASE RejectSettings
  BY <1>1, FailSize DEF RejectSettings
<1>2. CASE StartInitialize
  <2>1. LossBounded'
    BY <1>2, LossKept DEF StartInitialize, SizeInv, TypeOK
  <2>2. QED
    BY <1>2, <2>1 DEF StartInitialize, SizeInv, Forwarding, BoundedOps, RetriedOps, FlushOps
<1>3. CASE InitializeDone
  <2>1. LossBounded'
    BY <1>3, LossKept DEF InitializeDone, SizeInv, TypeOK
  <2>2. batch' = <<>> /\ batchSize' > 0
    BY <1>3 DEF InitializeDone, DeliveryInv, SizeInv, Forwarding, BoundedOps, RetriedOps
  <2>3. QED
    BY <1>3, <2>1, <2>2 DEF InitializeDone, SizeInv, FlushOps
<1>4. CASE pc = "loop" /\ \E op \in FlushOps : FlushNow(op)
  <2>1. PICK op \in FlushOps : FlushNow(op)
    BY <1>4
  <2>2. LossBounded'
    BY <2>1, LossKept DEF FlushNow, FlushBuffer, SizeInv, TypeOK
  <2>3. records' = batch /\ pc' = op /\ batchSize' = batchSize
    BY <2>1 DEF FlushNow, FlushBuffer
  <2>4. Len(records') <= batchSize' /\ batchSize' > 0
    BY <1>4, <2>3 DEF SizeInv, TypeOK, Forwarding
  <2>5. QED
    BY <2>2, <2>3, <2>4 DEF SizeInv, FlushOps
<1>5. CASE ShutdownRequested \/ BoundShutdown
  BY <1>5, QuietSize DEF ShutdownRequested, BoundShutdown, PollShutdown, call
<1>6. CASE CallSink \/ RetryLater \/ RetryNow
  BY <1>6, QuietSize DEF CallSink, RetryLater, RetryNow
<1>7. CASE OpFails
  BY <1>7, FailSize DEF OpFails
<1>8. CASE TimesOut
  BY <1>8, FailSize DEF TimesOut
<1>9. CASE (FlushDone \/ FinalFlushDone \/ SourceFlushDone) /\ Acknowledge
  <2>1. LossBounded'
    <3>1. acknowledged' = acknowledged \o records
      BY <1>9 DEF Acknowledge
    <3>2. Len(acknowledged') = Len(acknowledged) + Len(records)
      BY <3>1, ConcatProperties DEF TypeOK
    <3>3. Len(acknowledged) <= Len(acknowledged')
      BY <3>2 DEF TypeOK
    <3>4. UNCHANGED <<batchSize, received>>
      BY <1>9 DEF FlushDone, FinalFlushDone, SourceFlushDone, Fail
    <3>5. QED
      BY <3>3, <3>4, LossKept DEF SizeInv
  <2>2. CASE SourceFlushDone
    BY <2>1, <2>2 DEF SourceFlushDone, Fail, SizeInv, Forwarding, BoundedOps, RetriedOps, FlushOps
  <2>3. CASE FlushDone
    <3>1. batch' = <<>> /\ batchSize' > 0
      BY <2>3 DEF FlushDone, DeliveryInv, SizeInv, Forwarding, BoundedOps, RetriedOps, FlushOps
    <3>2. QED
      BY <2>1, <2>3, <3>1 DEF FlushDone, SizeInv, FlushOps
  <2>4. CASE FinalFlushDone
    <3>1. batchSize' > 0
      BY <2>4 DEF FinalFlushDone, SizeInv, Forwarding, BoundedOps, RetriedOps, FlushOps
    <3>2. QED
      BY <2>1, <2>4, <3>1 DEF FinalFlushDone, SizeInv, FlushOps
  <2>5. QED
    BY <1>9, <2>2, <2>3, <2>4
<1>10. CASE SourceFlushDone /\ UNCHANGED acknowledged
  BY <1>10, FailSize DEF SourceFlushDone
<1>11. CASE Closed \/ CleanupDone
  BY <1>11, QuietSize DEF Closed, CleanupDone, Forwarding, BoundedOps, RetriedOps, FlushOps
<1>12. CASE BufferRecord \/ FillBatch
  <2> DEFINE b == Append(batch, itemsRead')
  <2>1. pc = "loop" /\ received = acknowledged \o batch
    BY <1>12, LoopDelivery DEF BufferRecord, FillBatch, ReadRecord, ReadItem, Selecting
  <2>2. itemsRead' \in Nat /\ acknowledged \in Seq(Nat) /\ batch \in Seq(Nat)
    BY DEF TypeOK
  <2>3. b \in Seq(Nat) /\ Len(b) = Len(batch) + 1 /\ Len(b) <= batchSize
    BY <2>1, <2>2 DEF SizeInv, TypeOK
  <2>4. Append(acknowledged \o batch, itemsRead') = acknowledged \o b
    BY <2>2, ConcatAppend
  <2>5. received' = acknowledged \o b /\ UNCHANGED <<batchSize, acknowledged>>
    BY <1>12, <2>1, <2>4 DEF BufferRecord, FillBatch, ReadRecord, FlushBuffer
  <2>6. LossBounded'
    BY <2>1, <2>3, <2>5, LossOfBuffer
  <2>7. CASE BufferRecord
    <3>1. batch' = b /\ pc' = "loop" /\ Len(b) < batchSize'
      BY <2>1, <2>3, <2>7 DEF BufferRecord, Full, TypeOK
    <3>2. batchSize' > 0
      BY <2>1, <2>5 DEF SizeInv, Forwarding
    <3>3. QED
      BY <2>6, <3>1, <3>2 DEF SizeInv, FlushOps
  <2>8. CASE FillBatch
    <3>1. records' = b /\ pc' = "flush"
      BY <2>8 DEF FillBatch, FlushBuffer
    <3>2. batchSize' > 0
      BY <2>1, <2>5 DEF SizeInv, Forwarding
    <3>3. QED
      BY <2>3, <2>5, <2>6, <3>1, <3>2 DEF SizeInv
  <2>9. QED
    BY <1>12, <2>7, <2>8
<1>13. CASE SkipParseError \/ SinkAnswers \/ Signal
  BY <1>13, QuietSize DEF SkipParseError, SinkAnswers, Signal, call
<1>14. CASE Tick
  BY <1>14, QuietSize DEF Tick, call
<1>15. CASE UNCHANGED vars
  BY <1>15, QuietSize DEF vars, call
<1>16. FinishRequested \/ LatencyExpired \/ SourceEnds \/ SourceFails =>
            pc = "loop" /\ \E op \in FlushOps : FlushNow(op)
  BY DEF FinishRequested, LatencyExpired, SourceEnds, SourceFails, Finish, Selecting, FlushOps
<1>17. /\ FlushDone \/ FinalFlushDone => Acknowledge
       /\ SourceFlushDone => Acknowledge \/ UNCHANGED acknowledged
  BY DEF FlushDone, FinalFlushDone, SourceFlushDone
<1>18. QED
  BY <1>1, <1>2, <1>3, <1>4, <1>5, <1>6, <1>7, <1>8, <1>9, <1>10, <1>11, <1>12,
     <1>13, <1>14, <1>15, <1>16, <1>17 DEF Next, TaskStep, TaskAlone, SourceStep, Terminated

LEMMA SizeAlways == Spec => []SizeInv
<1>1. Init => SizeInv
  BY InitSize
<1>2. TypeOK /\ TypeOK' /\ DeliveryInv /\ SizeInv /\ [Next]_vars => SizeInv'
  BY NextSize
<1>3. QED
  BY <1>1, <1>2, TypeCorrect, DeliveryAlways, PTL DEF Spec

\* An error loses at most one batch of what was read.
THEOREM BoundsLoss == Spec => []LossBounded
<1>1. SizeInv => LossBounded
  BY DEF SizeInv
<1>2. QED
  BY <1>1, SizeAlways, PTL

-----------------------------------------------------------------------------
(* Latency.  While a record waits, the ticks it waited and the ticks left on *)
(* the deadline add up to the latency; outside the loop nothing waits.       *)

LatencyInv ==
    /\ pc \in {"start", "initialize"} => timer.latency = Off
    /\ batch = <<>> => age = 0
    /\ pc = "loop" => IF batch = <<>> THEN timer.latency = Off
                                     ELSE /\ timer.latency \in Nat
                                          /\ age + timer.latency = maxLatency
    /\ LatencyArmed
    /\ LatencyBound

LEMMA InitLatency == Init => LatencyInv
BY PipelineAssumption DEF Init, LatencyInv, LatencyArmed, LatencyBound, Armed, NoTimers, Off

\* Age and remaining latency of the buffer, when they are known, decide the rest.
LEMMA LatencyOfBuffer ==
    ASSUME pc' = "loop", batch' # <<>>, timer'.latency \in Nat, age' \in Nat,
           age' + timer'.latency = maxLatency'
    PROVE  LatencyInv'
<1>1. age' <= maxLatency'
  OBVIOUS
<1>2. timer'.latency # Off
  BY DEF Off
<1>3. QED
  BY <1>1, <1>2 DEF LatencyInv, LatencyArmed, LatencyBound, Armed

\* The first record arms the deadline, a later one leaves it.
LEMMA BufferLatency ==
    ASSUME TypeOK, LatencyInv, BufferRecord PROVE LatencyInv'
<1>1. pc = "loop" /\ UNCHANGED <<pc, maxLatency, age>>
  BY DEF BufferRecord, ReadRecord, ReadItem, Selecting, settings
<1>2. batch' # <<>>
  <2>1. batch' = Append(batch, itemsRead') /\ batch \in Seq(Nat)
    BY DEF BufferRecord, TypeOK
  <2>2. Len(batch') = Len(batch) + 1 /\ Len(batch) \in Nat
    BY <2>1
  <2>3. QED
    BY <2>2
<1>3. timer'.latency = IF batch = <<>> THEN maxLatency ELSE timer.latency
  BY DEF BufferRecord, ReadRecord, LatencyTimer, TypeOK, TimerState
<1>4. maxLatency \in Nat /\ age \in Nat
  BY DEF TypeOK
<1>5. CASE batch = <<>>
  <2>1. age = 0 /\ timer'.latency = maxLatency
    BY <1>3, <1>5 DEF LatencyInv
  <2>2. age' + timer'.latency = maxLatency'
    BY <1>1, <1>4, <2>1
  <2>3. QED
    BY <1>1, <1>2, <1>4, <2>1, <2>2, LatencyOfBuffer
<1>6. CASE batch # <<>>
  <2>1. timer.latency \in Nat /\ age + timer.latency = maxLatency
    BY <1>1, <1>6 DEF LatencyInv
  <2>2. QED
    BY <1>1, <1>2, <1>3, <1>4, <1>6, <2>1, LatencyOfBuffer
<1>7. QED
  BY <1>5, <1>6

\* A tick moves one unit from the remaining latency to the age.
LEMMA TickLatency ==
    ASSUME TypeOK, DeliveryInv, LatencyInv, Tick PROVE LatencyInv'
<1>1. UNCHANGED <<pc, batch, maxLatency>>
  BY DEF Tick, settings
<1>2. timer'.latency = IF timer.latency > 0 THEN timer.latency - 1 ELSE timer.latency
  BY DEF Tick, TypeOK, TimerState
<1>3. CASE batch = <<>>
  <2>1. age' = age /\ age = 0 /\ maxLatency \in Nat
    BY <1>3 DEF Tick, LatencyInv, TypeOK
  <2>2. timer.latency = Off => timer'.latency = Off
    BY <1>2 DEF Off
  <2>3. QED
    BY <1>1, <1>3, <2>1, <2>2 DEF LatencyInv, LatencyArmed, LatencyBound, Armed
<1>4. CASE batch # <<>>
  <2>1. pc = "loop" /\ ~Expired("latency")
    BY <1>4 DEF Tick, Runnable, DeliveryInv
  <2>2. timer.latency \in Nat /\ age + timer.latency = maxLatency /\ age \in Nat
    BY <1>4, <2>1 DEF LatencyInv, TypeOK
  <2>3. timer.latency > 0 /\ timer'.latency = timer.latency - 1 /\ age' = age + 1
    BY <1>2, <1>4, <2>1, <2>2 DEF Expired, Tick
  <2>4. timer'.latency \in Nat /\ age' \in Nat /\ age' + timer'.latency = maxLatency'
    BY <1>1, <2>2, <2>3
  <2>5. QED
    BY <1>1, <1>4, <2>1, <2>4, LatencyOfBuffer
<1>5. QED
  BY <1>3, <1>4

LEMMA NextLatency == TypeOK /\ TypeOK' /\ DeliveryInv /\ LatencyInv /\ [Next]_vars => LatencyInv'
<1> SUFFICES ASSUME TypeOK, TypeOK', DeliveryInv, LatencyInv, [Next]_vars PROVE LatencyInv'
  OBVIOUS
<1> USE DEF LatencyInv, LatencyArmed, LatencyBound, Armed, Expired, TypeOK, DeliveryInv,
        TimerState, NoTimers, Ticks, Off, Forwarding, BoundedOps, RetriedOps, FlushOps,
        settings, buffer, call, source, history, around
<1>1. CASE RejectSettings
  BY <1>1 DEF RejectSettings, Fail, DropLocals
<1>2. CASE StartInitialize
  BY <1>2 DEF StartInitialize
<1>3. CASE InitializeDone
  BY <1>3 DEF InitializeDone
<1>4. CASE FinishRequested
  BY <1>4 DEF FinishRequested, Finish, FlushNow, FlushBuffer, Taken
<1>5. CASE ShutdownRequested
  BY <1>5 DEF ShutdownRequested, Selecting, PollShutdown
<1>6. CASE LatencyExpired
  BY <1>6 DEF LatencyExpired, Selecting, FlushNow, FlushBuffer, Taken
<1>7. CASE CallSink
  BY <1>7 DEF CallSink
<1>8. CASE RetryLater
  BY <1>8 DEF RetryLater
<1>9. CASE RetryNow
  BY <1>9 DEF RetryNow
<1>10. CASE OpFails
  BY <1>10 DEF OpFails, Fail, DropLocals
<1>11. CASE BoundShutdown
  BY <1>11, SMTT(30) DEF BoundShutdown, PollShutdown
<1>12. CASE TimesOut
  BY <1>12 DEF TimesOut, Fail, DropLocals
<1>13. CASE FlushDone
  BY <1>13 DEF FlushDone, Disarmed
<1>14. CASE SourceFlushDone
  BY <1>14 DEF SourceFlushDone, Fail, DropLocals
<1>15. CASE FinalFlushDone
  BY <1>15 DEF FinalFlushDone
<1>16. CASE Closed
  BY <1>16 DEF Closed
<1>17. CASE CleanupDone
  BY <1>17 DEF CleanupDone
<1>18. CASE BufferRecord
  BY <1>18, BufferLatency
<1>19. CASE FillBatch
  BY <1>19 DEF FillBatch, ReadRecord, ReadItem, Selecting, FlushBuffer, Taken
<1>20. CASE SkipParseError
  BY <1>20 DEF SkipParseError, ReadItem, Selecting
<1>21. CASE SourceEnds
  BY <1>21 DEF SourceEnds, Selecting, Finish, FlushNow, FlushBuffer, Taken
<1>22. CASE SourceFails
  BY <1>22 DEF SourceFails, Selecting, FlushNow, FlushBuffer, Taken
<1>23. CASE SinkAnswers
  BY <1>23 DEF SinkAnswers
<1>24. CASE Signal
  BY <1>24 DEF Signal
<1>25. CASE Tick
  BY <1>25, TickLatency
<1>26. CASE UNCHANGED vars
  BY <1>26 DEF vars
<1>27. QED
  BY <1>1, <1>2, <1>3, <1>4, <1>5, <1>6, <1>7, <1>8, <1>9, <1>10, <1>11, <1>12,
     <1>13, <1>14, <1>15, <1>16, <1>17, <1>18, <1>19, <1>20, <1>21, <1>22, <1>23,
     <1>24, <1>25, <1>26 DEF Next, TaskStep, TaskAlone, SourceStep, Terminated

LEMMA LatencyAlways == Spec => []LatencyInv
<1>1. Init => LatencyInv
  BY InitLatency
<1>2. TypeOK /\ TypeOK' /\ DeliveryInv /\ LatencyInv /\ [Next]_vars => LatencyInv'
  BY NextLatency
<1>3. QED
  BY <1>1, <1>2, TypeCorrect, DeliveryAlways, PTL DEF Spec

\* The latency branch of the select! is armed exactly while a record is buffered.
THEOREM ArmedWhileBuffered == Spec => []LatencyArmed
<1>1. LatencyInv => LatencyArmed
  BY DEF LatencyInv
<1>2. QED
  BY <1>1, LatencyAlways, PTL

\* No record stays in the buffer longer than the configured latency.
THEOREM BoundsLatency == Spec => []LatencyBound
<1>1. LatencyInv => LatencyBound
  BY DEF LatencyInv
<1>2. QED
  BY <1>1, LatencyAlways, PTL

-----------------------------------------------------------------------------
(* Shutdown.  Before the request is observed no time passes after the signal; *)
(* from then on the elapsed and the remaining ticks add up to the timeout.    *)

ShutdownInv ==
    /\ shutdown = "pending" => elapsed = 0
    /\ pc \in Forwarding =>
         IF timer.shutdown = Off
         THEN shutdown \in {"pending", "ready"} /\ elapsed = 0
         ELSE shutdown = "taken" /\ elapsed + timer.shutdown = ShutdownTimeout
    /\ pc = "returned" => timer = NoTimers
    /\ pc = "cleanup" => /\ timer.cleanup \in Nat
                         /\ elapsed + timer.cleanup <= 2 * ShutdownTimeout
                         /\ result # "Ok"
    /\ pc \in Forwarding => result = "none"
    /\ ShutdownPolledOnce
    /\ ShutdownBound

LEMMA InitShutdown == Init => ShutdownInv
BY PipelineAssumption
   DEF Init, ShutdownInv, ShutdownPolledOnce, ShutdownBound, NoTimers, Off,
       Forwarding, BoundedOps, RetriedOps, FlushOps

\* A tick only passes while a countdown runs: it moves one unit from what is
\* left to what has elapsed.
LEMMA TickShutdown ==
    ASSUME TypeOK, TypeOK', ShutdownInv, Tick
    PROVE  ShutdownInv'
<1>1. /\ timer'.shutdown = IF timer.shutdown > 0 THEN timer.shutdown - 1 ELSE timer.shutdown
      /\ timer'.cleanup = IF timer.cleanup > 0 THEN timer.cleanup - 1 ELSE timer.cleanup
  BY DEF Tick, TypeOK, TimerState
<1>2. /\ pc' = pc /\ shutdown' = shutdown /\ result' = result
      /\ elapsed' = IF shutdown = "pending" THEN elapsed ELSE elapsed + 1
  BY DEF Tick
<1>3. /\ timer.shutdown \in Int /\ timer.cleanup \in Int /\ elapsed \in Nat
      /\ timer.shutdown >= -1 /\ timer.cleanup >= -1 /\ ShutdownTimeout \in Nat
  <2>1. timer.shutdown \in Ticks /\ timer.cleanup \in Ticks /\ elapsed \in Nat
    BY DEF TypeOK, TimerState
  <2>2. QED
    BY <2>1, PipelineAssumption DEF Ticks, Off
<1>4. CASE pc \in Forwarding
  <2>1. IF timer.shutdown = -1 THEN shutdown = "pending" /\ elapsed = 0
        ELSE /\ timer.shutdown # 0 /\ shutdown = "taken"
             /\ elapsed + timer.shutdown = ShutdownTimeout
    BY <1>4 DEF Tick, Runnable, Armed, Expired, ShutdownInv, Forwarding, Off
  <2>2. IF timer'.shutdown = -1 THEN shutdown' = "pending" /\ elapsed' = 0
        ELSE shutdown' = "taken" /\ elapsed' + timer'.shutdown = ShutdownTimeout
    BY <1>1, <1>2, <1>3, <2>1
  <2>3. elapsed' <= ShutdownTimeout /\ elapsed' <= 2 * ShutdownTimeout
    BY <1>1, <1>2, <1>3, <2>1
  <2>4. pc # "cleanup" /\ pc # "returned" /\ result = "none"
    BY <1>4 DEF ShutdownInv, Forwarding, BoundedOps, RetriedOps, FlushOps
  <2>5. QED
    BY <1>2, <2>2, <2>3, <2>4 DEF ShutdownInv, ShutdownPolledOnce, ShutdownBound, Off
<1>5. CASE pc = "cleanup"
  <2>1. /\ timer.cleanup # 0 /\ timer.cleanup >= 0
        /\ elapsed + timer.cleanup <= 2 * ShutdownTimeout
    BY <1>5 DEF Tick, Runnable, Expired, ShutdownInv
  <2>2. /\ timer'.cleanup \in Nat
        /\ elapsed' + timer'.cleanup <= 2 * ShutdownTimeout
        /\ elapsed' <= 2 * ShutdownTimeout
    BY <1>1, <1>2, <1>3, <2>1
  <2>3. shutdown' = "pending" => elapsed' = 0
    BY <1>2 DEF ShutdownInv
  <2>4. pc \notin Forwarding /\ pc # "returned"
    BY <1>5 DEF Forwarding, BoundedOps, RetriedOps, FlushOps
  <2>5. QED
    BY <1>2, <1>5, <2>2, <2>3, <2>4 DEF ShutdownInv, ShutdownPolledOnce, ShutdownBound
<1>6. CASE pc = "returned"
  BY <1>6 DEF Tick, ShutdownInv, NoTimers, Off
<1>7. QED
  BY <1>4, <1>5, <1>6 DEF TypeOK, Point

\* Returning an error starts the cleanup within the first timeout.
LEMMA FailShutdown ==
    ASSUME TypeOK, ShutdownInv, pc \in Forwarding,
           NEW error \in Result \ {"Ok"}, Fail(error)
    PROVE  ShutdownInv'
<1>1. elapsed \in 0 .. ShutdownTimeout /\ ShutdownTimeout \in Nat
  <2>1. CASE timer.shutdown = Off
    BY <2>1, PipelineAssumption DEF ShutdownInv
  <2>2. CASE timer.shutdown # Off
    <3>1. timer.shutdown \in Nat /\ elapsed \in Nat
      BY <2>2 DEF TypeOK, TimerState, Ticks
    <3>2. elapsed + timer.shutdown = ShutdownTimeout
      BY <2>2 DEF ShutdownInv
    <3>3. QED
      BY <3>1, <3>2, PipelineAssumption
  <2>3. QED
    BY <2>1, <2>2
<1>2. UNCHANGED <<shutdown, elapsed>> /\ pc' = "cleanup" /\ result' # "Ok"
  BY DEF Fail
<1>3. timer'.cleanup = ShutdownTimeout
  BY DEF Fail, NoTimers
<1>4. pc' \notin Forwarding
  BY <1>2 DEF Forwarding, BoundedOps, RetriedOps, FlushOps
<1>5. (shutdown = "pending" => elapsed = 0) /\ shutdown # "panicked"
  BY DEF ShutdownInv, ShutdownPolledOnce
<1>6. QED
  BY <1>1, <1>2, <1>3, <1>4, <1>5 DEF ShutdownInv, ShutdownPolledOnce, ShutdownBound

LEMMA NextShutdown == TypeOK /\ TypeOK' /\ ShutdownInv /\ [Next]_vars => ShutdownInv'
<1> SUFFICES ASSUME TypeOK, TypeOK', ShutdownInv, [Next]_vars PROVE ShutdownInv'
  OBVIOUS
<1> USE PipelineAssumption
    DEF ShutdownInv, ShutdownPolledOnce, ShutdownBound, Armed, Expired, TypeOK,
        TimerState, NoTimers, Ticks, Off, Point, Forwarding, BoundedOps, RetriedOps, FlushOps,
        settings, buffer, call, source, history, around
<1>1. CASE RejectSettings
  <2>1. pc \in Forwarding /\ Fail("Sink")
    BY <1>1 DEF RejectSettings
  <2>2. QED
    BY <2>1, FailShutdown DEF Result
<1>2. CASE StartInitialize
  BY <1>2 DEF StartInitialize
<1>3. CASE InitializeDone
  BY <1>3 DEF InitializeDone
<1>4. CASE FinishRequested
  BY <1>4 DEF FinishRequested, Finish, FlushNow, FlushBuffer, Taken
<1>5. CASE ShutdownRequested
  BY <1>5 DEF ShutdownRequested, Selecting, PollShutdown
<1>6. CASE LatencyExpired
  BY <1>6 DEF LatencyExpired, Selecting, FlushNow, FlushBuffer, Taken
<1>7. CASE CallSink
  BY <1>7 DEF CallSink
<1>8. CASE RetryLater
  BY <1>8 DEF RetryLater
<1>9. CASE RetryNow
  BY <1>9 DEF RetryNow
<1>10. CASE OpFails
  <2>1. pc \in Forwarding /\ Fail("Sink")
    BY <1>10 DEF OpFails
  <2>2. QED
    BY <2>1, FailShutdown DEF Result
<1>11. CASE BoundShutdown
  BY <1>11, SMTT(30) DEF BoundShutdown, PollShutdown
<1>12. CASE TimesOut
  <2>1. pc \in Forwarding /\ (Fail("Source") \/ Fail("ShutdownTimeout"))
    BY <1>12 DEF TimesOut
  <2>2. QED
    BY <2>1, FailShutdown DEF Result
<1>13. CASE FlushDone
  BY <1>13 DEF FlushDone, Disarmed
<1>14. CASE SourceFlushDone
  <2>1. pc \in Forwarding /\ Fail("Source")
    BY <1>14 DEF SourceFlushDone
  <2>2. QED
    BY <2>1, FailShutdown DEF Result
<1>15. CASE FinalFlushDone
  BY <1>15 DEF FinalFlushDone
<1>16. CASE Closed
  BY <1>16 DEF Closed
<1>17. CASE CleanupDone
  BY <1>17 DEF CleanupDone
<1>18. CASE BufferRecord
  BY <1>18 DEF BufferRecord, ReadRecord, ReadItem, Selecting, LatencyTimer
<1>19. CASE FillBatch
  BY <1>19 DEF FillBatch, ReadRecord, ReadItem, Selecting, FlushBuffer, Taken
<1>20. CASE SkipParseError
  BY <1>20 DEF SkipParseError, ReadItem, Selecting
<1>21. CASE SourceEnds
  BY <1>21 DEF SourceEnds, Selecting, Finish, FlushNow, FlushBuffer, Taken
<1>22. CASE SourceFails
  BY <1>22 DEF SourceFails, Selecting, FlushNow, FlushBuffer, Taken
<1>23. CASE SinkAnswers
  BY <1>23 DEF SinkAnswers
<1>24. CASE Signal
  BY <1>24 DEF Signal
<1>25. CASE Tick
  BY <1>25, TickShutdown
<1>26. CASE UNCHANGED vars
  BY <1>26 DEF vars
<1>27. QED
  BY <1>1, <1>2, <1>3, <1>4, <1>5, <1>6, <1>7, <1>8, <1>9, <1>10, <1>11, <1>12,
     <1>13, <1>14, <1>15, <1>16, <1>17, <1>18, <1>19, <1>20, <1>21, <1>22, <1>23,
     <1>24, <1>25, <1>26 DEF Next, TaskStep, TaskAlone, SourceStep, Terminated

LEMMA ShutdownAlways == Spec => []ShutdownInv
<1>1. Init => ShutdownInv
  BY InitShutdown
<1>2. TypeOK /\ TypeOK' /\ ShutdownInv /\ [Next]_vars => ShutdownInv'
  BY NextShutdown
<1>3. QED
  BY <1>1, <1>2, TypeCorrect, PTL DEF Spec

\* Over the loop and all the calls of bounded, the shutdown future is never
\* polled after it completed.
THEOREM PollsShutdownOnce == Spec => []ShutdownPolledOnce
<1>1. ShutdownInv => ShutdownPolledOnce
  BY DEF ShutdownInv
<1>2. QED
  BY <1>1, ShutdownAlways, PTL

\* After a signal the task takes at most the shutdown timeout to return Ok, and
\* at most twice that to return an error.
THEOREM BoundsShutdown == Spec => []ShutdownBound
<1>1. ShutdownInv => ShutdownBound
  BY DEF ShutdownInv
<1>2. QED
  BY <1>1, ShutdownAlways, PTL
-----------------------------------------------------------------------------
(* The abstract specification.  A step of the task maps to a step of        *)
(* Delivery with what was acknowledged for what is stored: a read to Read,   *)
(* the Ok of a flush to Store (which may be the last one before an error),   *)
(* the end to Succeed or Fail, and every other step to a stutter.            *)

\* The steps that read, acknowledge and return nothing.
LEMMA StutterDelivers ==
    ASSUME UNCHANGED <<batchSize, received, acknowledged, result>>
    PROVE  UNCHANGED Promise!vars
BY DEF Promise!vars, Outcome

LEMMA FailDelivers ==
    ASSUME ShutdownInv, pc \in Forwarding, UNCHANGED acknowledged,
           NEW error \in {"Sink", "Source", "ShutdownTimeout"}, Fail(error)
    PROVE  Promise!Fail
BY DEF ShutdownInv, Fail, Promise!Fail, Outcome, settings, source

\* When the write of a batch returned Ok, all that was read is acknowledged.
LEMMA AcknowledgeDelivers ==
    ASSUME TypeOK, DeliveryInv, pc \in FlushOps, Acknowledge,
           UNCHANGED <<batchSize, received>>,
           \/ result' = result
           \/ result' = "Source"
    PROVE  Promise!Store
<1>1. result # "Ok" /\ acknowledged' = received
  BY AcknowledgedDelivery
<1>2. Outcome # "ok" /\ Outcome' \in {Outcome, "failed"}
  BY <1>1 DEF Outcome
<1>3. QED
  BY <1>1, <1>2 DEF Promise!Store

\* A record is read only while the buffer is short of a batch, and everything
\* before the buffer has been acknowledged.
LEMMA ReadDelivers ==
    ASSUME TypeOK, TypeOK', DeliveryInv, SizeInv, ShutdownInv, pc = "loop",
           ReadRecord, UNCHANGED <<batchSize, acknowledged, result>>
    PROVE  Promise!Read
<1>1. received = acknowledged \o batch /\ Len(batch) < batchSize
  BY LoopDelivery DEF SizeInv
<1>2. Len(received) = Len(acknowledged) + Len(batch)
  BY <1>1, ConcatProperties DEF TypeOK
<1>3. Len(received) < Len(acknowledged) + batchSize
  <2>1. Len(acknowledged) \in Nat /\ Len(batch) \in Nat /\ batchSize \in Nat
    BY DEF TypeOK
  <2>2. QED
    BY ONLY <1>1, <1>2, <2>1
<1>4. itemsRead' \in 1 .. MaxItems /\ received' = Append(received, itemsRead')
  BY PipelineAssumption DEF ReadRecord, ReadItem, TypeOK
<1>5. Outcome = "running" /\ Outcome' = Outcome
  BY DEF ShutdownInv, Forwarding, Outcome
<1>6. QED
  BY <1>3, <1>4, <1>5 DEF Promise!Read

LEMMA InitDelivers == Init => Promise!Init
BY PipelineAssumption DEF Init, Promise!Init, Outcome

LEMMA NextDelivers ==
    ASSUME TypeOK, TypeOK', DeliveryInv, SizeInv, ShutdownInv, [Next]_vars
    PROVE  [Promise!Next]_(Promise!vars)
<1> USE DEF settings, buffer, source, history, around
<1>1. CASE RejectSettings \/ OpFails \/ TimesOut
  <2>1. PICK error \in {"Sink", "Source", "ShutdownTimeout"} : Fail(error)
    BY <1>1 DEF RejectSettings, OpFails, TimesOut
  <2>2. pc \in Forwarding /\ UNCHANGED acknowledged
    BY <1>1 DEF RejectSettings, OpFails, TimesOut, Forwarding
  <2>3. QED
    BY <2>1, <2>2, FailDelivers DEF Promise!Next
<1>2. CASE FlushDone \/ FinalFlushDone
  <2>1. /\ pc \in FlushOps /\ Acknowledge
        /\ UNCHANGED <<batchSize, received, result>>
    BY <1>2 DEF FlushDone, FinalFlushDone, FlushOps
  <2>2. QED
    BY <2>1, AcknowledgeDelivers DEF Promise!Next
<1>3. CASE SourceFlushDone
  <2>1. /\ pc \in FlushOps /\ Fail("Source") /\ result' = "Source"
        /\ UNCHANGED <<batchSize, received>>
    BY <1>3 DEF SourceFlushDone, Fail, FlushOps
  <2>2. CASE Acknowledge
    BY <2>1, <2>2, AcknowledgeDelivers DEF Promise!Next
  <2>3. CASE UNCHANGED acknowledged
    BY <2>1, <2>3, FailDelivers DEF Promise!Next, Forwarding, BoundedOps, RetriedOps
  <2>4. QED
    BY <1>3, <2>2, <2>3 DEF SourceFlushDone
<1>4. CASE Closed
  <2>1. result = "none" /\ result' = "Ok" /\ UNCHANGED <<batchSize, received, acknowledged>>
    BY <1>4 DEF Closed, ShutdownInv, Forwarding, BoundedOps
  <2>2. received = acknowledged \o <<>> \o <<>>
    BY <1>4 DEF Closed, DeliveryInv, NothingForgotten, Forwarding, BoundedOps,
                RetriedOps, FlushOps
  <2>3. received = acknowledged
    BY <2>2, ConcatEmpty DEF TypeOK
  <2>4. QED
    BY <2>1, <2>3 DEF Promise!Next, Promise!Succeed, Outcome
<1>5. CASE BufferRecord \/ FillBatch
  <2>1. /\ pc = "loop" /\ ReadRecord
        /\ UNCHANGED <<batchSize, acknowledged, result>>
    BY <1>5 DEF BufferRecord, FillBatch, ReadRecord, ReadItem, Selecting, FlushBuffer
  <2>2. QED
    BY <2>1, ReadDelivers DEF Promise!Next
<1>6. CASE \/ FinishRequested \/ LatencyExpired \/ SourceEnds \/ SourceFails
  BY <1>6, StutterDelivers DEF FinishRequested, LatencyExpired, SourceEnds, SourceFails,
                               Finish, FlushNow, FlushBuffer
<1>7. CASE StartInitialize \/ InitializeDone \/ CleanupDone
  BY <1>7, StutterDelivers DEF StartInitialize, InitializeDone, CleanupDone
<1>8. CASE CallSink \/ RetryLater \/ RetryNow \/ SinkAnswers
  BY <1>8, StutterDelivers DEF CallSink, RetryLater, RetryNow, SinkAnswers
<1>9. CASE ShutdownRequested \/ BoundShutdown \/ Signal
  BY <1>9, StutterDelivers DEF ShutdownRequested, BoundShutdown, PollShutdown, Signal
<1>10. CASE SkipParseError \/ Tick \/ UNCHANGED vars
  BY <1>10, StutterDelivers DEF SkipParseError, Tick, vars
<1>11. QED
  BY <1>1, <1>2, <1>3, <1>4, <1>5, <1>6, <1>7, <1>8, <1>9, <1>10
     DEF Next, TaskStep, TaskAlone, SourceStep, Terminated

\* The forwarding task implements Delivery: for any sink, any retries and any
\* shutdown, each acknowledgement covers everything read so far, in order and
\* once, at most one batch is at risk, and Ok leaves nothing out.
THEOREM TaskDelivers == Spec => ImplementsDelivery
<1>1. Init => Promise!Init
  BY InitDelivers
<1>2. TypeOK /\ TypeOK' /\ DeliveryInv /\ SizeInv /\ ShutdownInv /\ [Next]_vars
          => [Promise!Next]_(Promise!vars)
  BY NextDelivers
<1>3. QED
  BY <1>1, <1>2, TypeCorrect, DeliveryAlways, SizeAlways, ShutdownAlways, PTL
     DEF Spec, Promise!Spec, ImplementsDelivery

-----------------------------------------------------------------------------
(* What the fairness of the task and of the clock is needed for, and no more  *)
(* than that: the task is never stuck, and its steps come to an end.          *)

ClockRuns == \E t \in DOMAIN timer : timer[t] > 0

\* The task, which has not returned, has a step to take or a clock to wait for,
\* but for two cases, and in both no signal has come: the loop waits for the
\* source with nothing buffered, or a call waits for the sink.  So a buffered
\* record, a retry, and whatever goes on after a signal never wait for others.
TaskNeverStuck ==
    pc # "returned" =>
        \/ Runnable \/ ClockRuns
        \/ pc = "loop" /\ batch = <<>> /\ shutdown = "pending"
        \/ pc \in BoundedOps /\ future = "pending" /\ shutdown = "pending"

\* A retry that is planned has a deadline, and an operation that goes on a call.
RetryInv ==
    /\ future = "sleeping" => pc \in RetriedOps /\ timer.retry # Off
    /\ pc \in BoundedOps => future # "none"

LEMMA InitRetry == Init => RetryInv
BY DEF Init, RetryInv, NoTimers, Off, BoundedOps, RetriedOps, FlushOps

LEMMA FailRetry ==
    ASSUME NEW error, Fail(error)
    PROVE  RetryInv'
BY DEF Fail, RetryInv, BoundedOps, RetriedOps, FlushOps

LEMMA NextRetry == TypeOK /\ RetryInv /\ [Next]_vars => RetryInv'
<1> SUFFICES ASSUME TypeOK, RetryInv, [Next]_vars PROVE RetryInv'
  OBVIOUS
<1> USE PipelineAssumption
    DEF RetryInv, Armed, Expired, TypeOK, TimerState, NoTimers, Ticks, Off, Point,
        Forwarding, BoundedOps, RetriedOps, FlushOps, Called, SinkError,
        settings, buffer, call, source, history, around
<1>1. CASE RejectSettings \/ OpFails \/ TimesOut \/ SourceFlushDone
  BY <1>1, FailRetry DEF RejectSettings, OpFails, TimesOut, SourceFlushDone
<1>2. CASE StartInitialize
  BY <1>2 DEF StartInitialize
<1>3. CASE InitializeDone
  BY <1>3 DEF InitializeDone
<1>4. CASE FinishRequested \/ SourceEnds \/ SourceFails \/ LatencyExpired
  BY <1>4 DEF FinishRequested, SourceEnds, SourceFails, LatencyExpired, Selecting,
              Finish, FlushNow, FlushBuffer, Taken
<1>5. CASE ShutdownRequested \/ BoundShutdown
  BY <1>5 DEF ShutdownRequested, BoundShutdown, Selecting, PollShutdown
<1>6. CASE CallSink
  BY <1>6 DEF CallSink
<1>7. CASE RetryLater
  <2>1. attempt + 1 \in 1 .. MaxWriteRetries /\ Backoff[attempt + 1] \in Nat
    BY <1>7 DEF RetryLater, Retries
  <2>2. timer'.retry # Off /\ pc' = pc
    BY <1>7, <2>1 DEF RetryLater
  <2>3. QED
    BY <1>7, <2>2 DEF RetryLater
<1>8. CASE RetryNow
  BY <1>8 DEF RetryNow
<1>9. CASE FlushDone
  BY <1>9 DEF FlushDone, Disarmed
<1>10. CASE FinalFlushDone
  BY <1>10 DEF FinalFlushDone
<1>11. CASE Closed \/ CleanupDone
  BY <1>11 DEF Closed, CleanupDone
<1>12. CASE BufferRecord
  BY <1>12 DEF BufferRecord, ReadRecord, ReadItem, Selecting
<1>13. CASE FillBatch
  BY <1>13 DEF FillBatch, ReadRecord, ReadItem, Selecting, FlushBuffer, Taken
<1>14. CASE SkipParseError
  BY <1>14 DEF SkipParseError, ReadItem, Selecting
<1>15. CASE SinkAnswers
  BY <1>15 DEF SinkAnswers
<1>16. CASE Signal
  BY <1>16 DEF Signal
<1>17. CASE Tick
  <2>1. \A t \in DOMAIN timer : (timer'[t] = Off) <=> (timer[t] = Off)
    BY <1>17 DEF Tick
  <2>2. DOMAIN timer = {"latency", "retry", "shutdown", "cleanup"}
    OBVIOUS
  <2>3. QED
    BY <1>17, <2>1, <2>2 DEF Tick
<1>18. CASE UNCHANGED vars
  BY <1>18 DEF vars
<1>19. QED
  BY <1>1, <1>2, <1>3, <1>4, <1>5, <1>6, <1>7, <1>8, <1>9, <1>10, <1>11, <1>12,
     <1>13, <1>14, <1>15, <1>16, <1>17, <1>18
     DEF Next, TaskStep, TaskAlone, SourceStep, Terminated

LEMMA RetryAlways == Spec => []RetryInv
<1>1. Init => RetryInv
  BY InitRetry
<1>2. TypeOK /\ RetryInv /\ [Next]_vars => RetryInv'
  BY NextRetry
<1>3. QED
  BY <1>1, <1>2, TypeCorrect, PTL DEF Spec

LEMMA StuckNowhere ==
    ASSUME TypeOK, ShutdownInv, LatencyInv, RetryInv
    PROVE  TaskNeverStuck
<1> SUFFICES ASSUME pc # "returned", ~Runnable, ~ClockRuns
             PROVE  \/ pc = "loop" /\ batch = <<>> /\ shutdown = "pending"
                    \/ pc \in BoundedOps /\ future = "pending" /\ shutdown = "pending"
  BY DEF TaskNeverStuck
<1> USE DEF Armed, Expired, Off
<1>1. /\ timer.latency \in {-1, 0} /\ timer.retry \in {-1, 0}
      /\ timer.shutdown \in {-1, 0} /\ timer.cleanup \in {-1, 0}
  BY DEF TypeOK, TimerState, Ticks, ClockRuns
<1>2. CASE pc = "cleanup"
  <2>1. timer.cleanup = 0
    BY <1>1, <1>2 DEF ShutdownInv
  <2>2. QED
    BY <1>2, <2>1 DEF Runnable
<1>3. CASE pc \in Forwarding
  <2>1. timer.shutdown = -1
    BY <1>1, <1>3 DEF Runnable, Forwarding
  <2>2. shutdown = "pending"
    BY <1>3, <2>1 DEF Runnable, Forwarding
  <2>3. CASE pc = "loop"
    BY <1>1, <2>2, <2>3 DEF Runnable, LatencyInv, LatencyArmed
  <2>4. CASE pc \in BoundedOps
    <3>1. StillWaiting
      BY <2>4 DEF Runnable
    <3>2. future # "sleeping"
      BY <1>1, <3>1 DEF StillWaiting, RetryInv
    <3>3. QED
      BY <2>2, <2>4, <3>1, <3>2 DEF StillWaiting
  <2>5. QED
    BY <1>3, <2>3, <2>4 DEF Runnable, Forwarding
<1>4. QED
  BY <1>2, <1>3 DEF TypeOK, Point

\* Only an idle loop waits for the source and only a call of the sink for the
\* sink, and a signal ends either wait: nothing else can hold the task up.
THEOREM TaskNeverGetsStuck == Spec => []TaskNeverStuck
<1>1. TypeOK /\ ShutdownInv /\ LatencyInv /\ RetryInv => TaskNeverStuck
  BY StuckNowhere
<1>2. QED
  BY <1>1, TypeCorrect, ShutdownAlways, LatencyAlways, RetryAlways, PTL

\* What is left for the task to do, the most significant first.  A part may grow
\* again when one before it becomes smaller.
PhasesLeft    == IF pc \in Forwarding THEN 2 ELSE IF pc = "cleanup" THEN 1 ELSE 0
SignalsLeft   == IF shutdown = "pending" THEN 2 ELSE IF shutdown = "ready" THEN 1 ELSE 0
TicksLeft(t)  == IF Armed(t) THEN timer[t] ELSE 0
DeadlinesLeft == TicksLeft("shutdown") + TicksLeft("cleanup")
ItemsLeft     == MaxItems - itemsRead
AwaitsLeft ==
    IF pc = "start" THEN 6 ELSE IF pc = "initialize" THEN 5
    ELSE IF pc = "loop" THEN (IF Armed("latency") THEN 4 ELSE 2)
    ELSE IF pc = "flush" THEN 3
    ELSE IF pc \in {"io_flush", "final_flush"} THEN 1
    ELSE 0
RetriesLeft   == MaxWriteRetries - attempt
AnswersLeft   ==
    IF future \in {"unpolled", "sleeping"} THEN 2 ELSE IF future = "pending" THEN 1 ELSE 0
WaitLeft      == TicksLeft("latency") + TicksLeft("retry")

Left == <<PhasesLeft, SignalsLeft, DeadlinesLeft, ItemsLeft, AwaitsLeft, RetriesLeft,
          AnswersLeft, WaitLeft>>

\* The lexicographic order on what is left: it is well-founded, since each part
\* is a natural number.
Nearer ==
    /\ \A i \in 1 .. 8 : Left[i] \in Nat /\ Left'[i] \in Nat
    /\ \E i \in 1 .. 8 : Left'[i] < Left[i] /\ \A j \in 1 .. i - 1 : Left'[j] = Left[j]

LEMMA LeftIsNat ==
    ASSUME TypeOK
    PROVE  /\ \A i \in 1 .. 8 : Left[i] \in Nat
           /\ \A t \in DOMAIN timer : TicksLeft(t) \in Nat
<1>1. \A t \in DOMAIN timer : TicksLeft(t) \in Nat
  BY DEF TicksLeft, TypeOK, TimerState, Ticks, Armed, Off
<1>2. DOMAIN timer = {"latency", "retry", "shutdown", "cleanup"}
  BY DEF TypeOK, TimerState
<1>3. DeadlinesLeft \in Nat /\ WaitLeft \in Nat
  BY <1>1, <1>2 DEF DeadlinesLeft, WaitLeft
<1>4. ItemsLeft \in Nat /\ RetriesLeft \in Nat
  BY PipelineAssumption DEF TypeOK, ItemsLeft, RetriesLeft
<1>5. PhasesLeft \in Nat /\ SignalsLeft \in Nat /\ AwaitsLeft \in Nat /\ AnswersLeft \in Nat
  BY DEF PhasesLeft, SignalsLeft, AwaitsLeft, AnswersLeft
<1>6. QED
  BY <1>1, <1>3, <1>4, <1>5 DEF Left

\* The order, part by part.
LEMMA LeftOrder ==
    ASSUME TypeOK, TypeOK',
           \/ PhasesLeft' < PhasesLeft
           \/ /\ PhasesLeft' = PhasesLeft
              /\ \/ SignalsLeft' < SignalsLeft
                 \/ /\ SignalsLeft' = SignalsLeft
                    /\ \/ DeadlinesLeft' < DeadlinesLeft
                       \/ /\ DeadlinesLeft' = DeadlinesLeft
                          /\ \/ ItemsLeft' < ItemsLeft
                             \/ /\ ItemsLeft' = ItemsLeft
                                /\ \/ AwaitsLeft' < AwaitsLeft
                                   \/ /\ AwaitsLeft' = AwaitsLeft
                                      /\ \/ RetriesLeft' < RetriesLeft
                                         \/ /\ RetriesLeft' = RetriesLeft
                                            /\ \/ AnswersLeft' < AnswersLeft
                                               \/ /\ AnswersLeft' = AnswersLeft
                                                  /\ WaitLeft' < WaitLeft
    PROVE  Nearer
<1>1. \A i \in 1 .. 8 : Left[i] \in Nat /\ Left'[i] \in Nat
  <2>1. (\A i \in 1 .. 8 : Left[i] \in Nat)'
    BY LeftIsNat, PTL
  <2>2. QED
    BY <2>1, LeftIsNat
<1>2. /\ Left[1] = PhasesLeft /\ Left[2] = SignalsLeft /\ Left[3] = DeadlinesLeft
      /\ Left[4] = ItemsLeft /\ Left[5] = AwaitsLeft /\ Left[6] = RetriesLeft
      /\ Left[7] = AnswersLeft /\ Left[8] = WaitLeft
  BY DEF Left
<1>3. /\ Left'[1] = PhasesLeft' /\ Left'[2] = SignalsLeft' /\ Left'[3] = DeadlinesLeft'
      /\ Left'[4] = ItemsLeft' /\ Left'[5] = AwaitsLeft' /\ Left'[6] = RetriesLeft'
      /\ Left'[7] = AnswersLeft' /\ Left'[8] = WaitLeft'
  BY DEF Left
<1>4. QED
  BY <1>1, <1>2, <1>3 DEF Nearer

\* Giving up leaves only the cleanup.
LEMMA FailNearer ==
    ASSUME TypeOK, TypeOK', pc \in Forwarding, NEW error, Fail(error)
    PROVE  Nearer
<1>1. PhasesLeft = 2 /\ PhasesLeft' = 1
  BY DEF PhasesLeft, Fail, Forwarding, BoundedOps, RetriedOps, FlushOps
<1>2. QED
  BY <1>1, LeftOrder

\* What can be polled has not completed yet.
PollInv == pc \in Forwarding /\ ~Armed("shutdown") => shutdown \in {"pending", "ready"}

\* Observing the signal is possible once.
LEMMA PollNearer ==
    ASSUME TypeOK, TypeOK', PollInv, pc \in Forwarding, ~Armed("shutdown"), PollShutdown
    PROVE  Nearer
<1>1. PhasesLeft' = PhasesLeft /\ PhasesLeft \in Nat
  BY DEF PhasesLeft, PollShutdown
<1>2. shutdown = "ready" /\ shutdown' = "taken"
  BY DEF PollShutdown, PollInv
<1>3. SignalsLeft = 1 /\ SignalsLeft' = 0
  BY <1>2 DEF SignalsLeft
<1>4. QED
  BY <1>1, <1>3, LeftOrder

\* A flush leads to the next await of the task.
LEMMA FlushNearer ==
    ASSUME TypeOK, TypeOK', pc = "loop",
           NEW op \in FlushOps, op = "flush" => Armed("latency"), FlushNow(op)
    PROVE  Nearer
<1>1. pc' = op /\ shutdown' = shutdown /\ timer' = timer /\ itemsRead' = itemsRead
  BY DEF FlushNow, FlushBuffer, source
<1>2. /\ PhasesLeft' = PhasesLeft /\ SignalsLeft' = SignalsLeft
      /\ DeadlinesLeft' = DeadlinesLeft /\ ItemsLeft' = ItemsLeft
  BY <1>1 DEF PhasesLeft, SignalsLeft, DeadlinesLeft, TicksLeft, Armed, ItemsLeft,
              Forwarding, BoundedOps, RetriedOps
<1>3. AwaitsLeft' < AwaitsLeft
  BY <1>1 DEF AwaitsLeft, FlushOps
<1>4. QED
  BY <1>2, <1>3, LeftOrder

\* An item is taken from the source.
LEMMA ReadNearer ==
    ASSUME TypeOK, TypeOK', ReadItem, pc' \in Forwarding, shutdown' = shutdown,
           timer'.shutdown = timer.shutdown, timer'.cleanup = timer.cleanup
    PROVE  Nearer
<1>1. PhasesLeft' = PhasesLeft
  BY DEF PhasesLeft, ReadItem, Selecting, Forwarding, BoundedOps
<1>2. SignalsLeft' = SignalsLeft /\ DeadlinesLeft' = DeadlinesLeft
  BY DEF SignalsLeft, DeadlinesLeft, TicksLeft, Armed
<1>3. ItemsLeft' < ItemsLeft
  BY PipelineAssumption DEF ItemsLeft, ReadItem, TypeOK
<1>4. QED
  BY <1>1, <1>2, <1>3, LeftOrder

\* The future of the call is polled, or its answer comes.
LEMMA CallNearer ==
    ASSUME TypeOK, TypeOK', UNCHANGED <<pc, shutdown, itemsRead, attempt>>,
           timer'.shutdown = timer.shutdown, timer'.cleanup = timer.cleanup,
           timer'.latency = timer.latency, AnswersLeft' < AnswersLeft
    PROVE  Nearer
<1>1. /\ PhasesLeft' = PhasesLeft /\ SignalsLeft' = SignalsLeft
      /\ DeadlinesLeft' = DeadlinesLeft /\ ItemsLeft' = ItemsLeft
  BY DEF PhasesLeft, SignalsLeft, DeadlinesLeft, TicksLeft, Armed, ItemsLeft
<1>2. AwaitsLeft' = AwaitsLeft /\ RetriesLeft' = RetriesLeft
  BY DEF AwaitsLeft, Armed, RetriesLeft
<1>3. QED
  BY <1>1, <1>2, LeftOrder

\* A tick passes on a deadline of the task, or on that of the batch or the retry.
LEMMA TickNearer ==
    ASSUME TypeOK, TypeOK', Tick
    PROVE  Nearer
<1>1. /\ timer \in [{"latency", "retry", "shutdown", "cleanup"} -> Nat \cup {-1}]
      /\ timer' \in [{"latency", "retry", "shutdown", "cleanup"} -> Nat \cup {-1}]
  BY DEF TypeOK, TimerState, Ticks, Off
<1>2. \A t \in {"latency", "retry", "shutdown", "cleanup"} :
         timer'[t] = IF timer[t] > 0 THEN timer[t] - 1 ELSE timer[t]
  BY <1>1 DEF Tick
<1>3. \A t \in {"latency", "retry", "shutdown", "cleanup"} :
         /\ TicksLeft(t) \in Nat /\ TicksLeft(t)' \in Nat
         /\ IF timer[t] > 0 THEN TicksLeft(t)' < TicksLeft(t) ELSE TicksLeft(t)' = TicksLeft(t)
         /\ Armed(t)' = Armed(t)
  BY <1>1, <1>2 DEF TicksLeft, Armed, Off
<1>4. PICK t \in {"latency", "retry", "shutdown", "cleanup"} : timer[t] > 0
  BY <1>1 DEF Tick
<1>5. pc' = pc /\ UNCHANGED <<shutdown, itemsRead, attempt, future>>
  BY DEF Tick, call, source
<1>6. /\ PhasesLeft' = PhasesLeft /\ SignalsLeft' = SignalsLeft /\ ItemsLeft' = ItemsLeft
      /\ AwaitsLeft' = AwaitsLeft /\ RetriesLeft' = RetriesLeft /\ AnswersLeft' = AnswersLeft
  BY <1>3, <1>5 DEF PhasesLeft, SignalsLeft, ItemsLeft, AwaitsLeft, RetriesLeft, AnswersLeft
<1>7. DeadlinesLeft' < DeadlinesLeft
        \/ (DeadlinesLeft' = DeadlinesLeft /\ WaitLeft' < WaitLeft)
  BY <1>3, <1>4 DEF DeadlinesLeft, WaitLeft
<1>8. QED
  BY <1>6, <1>7, LeftOrder

LEMMA NextNearer ==
    ASSUME TypeOK, TypeOK', PollInv, Next, ~UNCHANGED vars
    PROVE  Nearer
<1> USE DEF Forwarding, BoundedOps, RetriedOps, FlushOps,
        settings, buffer, call, source, history, around
<1>1. CASE RejectSettings \/ OpFails \/ TimesOut \/ SourceFlushDone
  BY <1>1, FailNearer DEF RejectSettings, OpFails, TimesOut, SourceFlushDone
<1>2. CASE StartInitialize \/ InitializeDone
  <2>1. /\ PhasesLeft' = PhasesLeft /\ SignalsLeft' = SignalsLeft
        /\ DeadlinesLeft' = DeadlinesLeft /\ ItemsLeft' = ItemsLeft
    BY <1>2 DEF StartInitialize, InitializeDone, PhasesLeft, SignalsLeft, DeadlinesLeft,
                TicksLeft, Armed, ItemsLeft
  <2>2. AwaitsLeft' < AwaitsLeft
    BY <1>2 DEF StartInitialize, InitializeDone, AwaitsLeft
  <2>3. QED
    BY <2>1, <2>2, LeftOrder
<1>3. CASE FinishRequested \/ SourceEnds \/ SourceFails \/ LatencyExpired
  <2>1. pc = "loop"
    BY <1>3 DEF FinishRequested, SourceEnds, SourceFails, LatencyExpired, Selecting
  <2>2. \/ FlushNow("final_flush") \/ FlushNow("io_flush")
        \/ Armed("latency") /\ FlushNow("flush")
    BY <1>3 DEF FinishRequested, SourceEnds, SourceFails, LatencyExpired, Finish,
                Armed, Expired, Off
  <2>3. QED
    BY <2>1, <2>2, FlushNearer
<1>4. CASE ShutdownRequested \/ BoundShutdown
  BY <1>4, PollNearer DEF ShutdownRequested, BoundShutdown, Selecting
<1>5. CASE CallSink \/ SinkAnswers
  <2>1. AnswersLeft' < AnswersLeft
    BY <1>5, PipelineAssumption DEF CallSink, SinkAnswers, Called, AnswersLeft, SinkError
  <2>2. QED
    BY <1>5, <2>1, CallNearer DEF CallSink, SinkAnswers
<1>6. CASE RetryLater
  <2>1. /\ timer'.shutdown = timer.shutdown /\ timer'.cleanup = timer.cleanup
        /\ timer'.latency = timer.latency
    BY <1>6 DEF RetryLater, TypeOK, TimerState
  <2>2. UNCHANGED <<pc, shutdown, itemsRead>>
    BY <1>6 DEF RetryLater
  <2>3. /\ PhasesLeft' = PhasesLeft /\ SignalsLeft' = SignalsLeft
        /\ DeadlinesLeft' = DeadlinesLeft /\ ItemsLeft' = ItemsLeft
        /\ AwaitsLeft' = AwaitsLeft
    BY <2>1, <2>2 DEF PhasesLeft, SignalsLeft, DeadlinesLeft, TicksLeft, Armed, ItemsLeft,
                      AwaitsLeft
  <2>4. RetriesLeft' < RetriesLeft
    BY <1>6, PipelineAssumption DEF RetryLater, RetriesLeft, TypeOK
  <2>5. QED
    BY <2>3, <2>4, LeftOrder
<1>7. CASE RetryNow
  <2>1. AnswersLeft' < AnswersLeft
    BY <1>7, PipelineAssumption DEF RetryNow, Called, AnswersLeft, SinkError
  <2>2. /\ timer'.shutdown = timer.shutdown /\ timer'.cleanup = timer.cleanup
        /\ timer'.latency = timer.latency
    BY <1>7 DEF RetryNow, TypeOK, TimerState
  <2>3. QED
    BY <1>7, <2>1, <2>2, CallNearer DEF RetryNow
<1>8. CASE FlushDone \/ FinalFlushDone
  <2>1. timer'.shutdown = timer.shutdown /\ timer'.cleanup = timer.cleanup
    BY <1>8 DEF FlushDone, FinalFlushDone, Disarmed, TypeOK, TimerState
  <2>2. /\ PhasesLeft' = PhasesLeft /\ SignalsLeft' = SignalsLeft
        /\ DeadlinesLeft' = DeadlinesLeft /\ ItemsLeft' = ItemsLeft
    BY <1>8, <2>1 DEF FlushDone, FinalFlushDone, PhasesLeft, SignalsLeft, DeadlinesLeft,
                      TicksLeft, Armed, ItemsLeft
  <2>3. AwaitsLeft' < AwaitsLeft
    <3>1. CASE FlushDone
      <4>1. timer'.latency = Off
        BY <3>1 DEF FlushDone, Disarmed, TypeOK, TimerState
      <4>2. QED
        BY <3>1, <4>1 DEF FlushDone, AwaitsLeft, Armed
    <3>2. CASE FinalFlushDone
      BY <3>2 DEF FinalFlushDone, AwaitsLeft
    <3>3. QED
      BY <1>8, <3>1, <3>2
  <2>4. QED
    BY <2>2, <2>3, LeftOrder
<1>9. CASE Closed \/ CleanupDone
  <2>1. PhasesLeft' < PhasesLeft
    BY <1>9 DEF Closed, CleanupDone, CleanupOver, PhasesLeft
  <2>2. QED
    BY <2>1, LeftOrder
<1>10. CASE BufferRecord \/ FillBatch \/ SkipParseError
  <2>1. ReadItem /\ pc' \in Forwarding /\ shutdown' = shutdown
    BY <1>10 DEF BufferRecord, FillBatch, SkipParseError, ReadRecord, ReadItem, Selecting,
                 FlushBuffer
  <2>2. timer'.shutdown = timer.shutdown /\ timer'.cleanup = timer.cleanup
    BY <1>10 DEF BufferRecord, FillBatch, SkipParseError, ReadRecord, TypeOK, TimerState
  <2>3. QED
    BY <2>1, <2>2, ReadNearer
<1>11. CASE Signal
  <2>1. PhasesLeft' = PhasesLeft /\ SignalsLeft' < SignalsLeft
    BY <1>11 DEF Signal, PhasesLeft, SignalsLeft
  <2>2. QED
    BY <2>1, LeftOrder
<1>12. CASE Tick
  BY <1>12, TickNearer
<1>13. QED
  BY <1>1, <1>2, <1>3, <1>4, <1>5, <1>6, <1>7, <1>8, <1>9, <1>10, <1>11, <1>12
     DEF Next, TaskStep, TaskAlone, SourceStep, Terminated

\* Every step of the task and of the world around it brings the task nearer to
\* its return: no cycle of retries, flushes, ticks or polls goes on for ever on
\* an input that ends.  A task that takes its steps, on a clock that runs, can
\* thus only come to rest, and TaskNeverStuck says where it does.
THEOREM AlwaysNearer == Spec => [][Nearer]_vars
<1>1. ShutdownInv => PollInv
  BY DEF ShutdownInv, PollInv, Armed
<1>2. TypeOK /\ TypeOK' /\ PollInv /\ [Next]_vars => [Nearer]_vars
  BY NextNearer
<1>3. QED
  BY <1>1, <1>2, TypeCorrect, ShutdownAlways, PTL DEF Spec
=============================================================================
