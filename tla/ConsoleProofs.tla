---------------------------- MODULE ConsoleProofs ----------------------------
(***************************************************************************)
(* The process with the console sink implements Pipeline, and with it the  *)
(* theorems of PipelineProofs hold in it.  What it has put on stdout: each *)
(* acknowledged line, whole and in order, whatever else is there.          *)
(***************************************************************************)
EXTENDS ConsoleSink, PipelineProofs

LEMMA ConsoleNextImplements == [ConsoleNext]_consoleVars => [Next]_vars
<1> SUFFICES ASSUME [ConsoleNext]_consoleVars PROVE [Next]_vars
  OBVIOUS
<1>1. CASE CallsConsole
  BY <1>1 DEF CallsConsole, Next, TaskStep
\* The thread writes, and the task does not see it.
<1>2. CASE TaskWaits /\ UNCHANGED future
  BY <1>2 DEF TaskWaits, vars, around, call
\* The outcome of the write is the answer to the call that awaits it.
<1>3. CASE TaskWaits /\ future = "pending" /\ future' \in {"ok", "IoError", "ClosedPipe"}
  BY <1>3, ConsoleAssumption DEF TaskWaits, Next, SinkAnswers
<1>4. CASE Apart
  BY <1>4 DEF Apart, Next, TaskStep
<1>5. CASE UNCHANGED consoleVars
  BY <1>5 DEF consoleVars
<1>6. ASSUME StdoutStep
      PROVE  /\ TaskWaits
             /\ \/ UNCHANGED future
                \/ future = "pending" /\ future' \in {"ok", "IoError", "ClosedPipe"}
  BY <1>6 DEF StdoutStep, WritePart, WriteReturns, Flushed, WriteFails
<1>7. QED
  BY <1>1, <1>2, <1>3, <1>4, <1>5, <1>6 DEF ConsoleNext

\* Run against a stdout that may fail after any part of a line the task is the
\* task of Pipeline.
THEOREM ConsoleComposes == ConsoleSpec => ConsoleImplementsPipeline
<1>1. ConsoleInit => Init
  BY DEF ConsoleInit
<1>2. QED
  BY <1>1, ConsoleNextImplements, PTL DEF ConsoleSpec, Spec, ConsoleImplementsPipeline

\* What the console has acknowledged is an initial part of what was read, and the
\* task delivers: a retry and a torn line cost no record its acknowledgement.
THEOREM ConsoleDelivers == ConsoleSpec => ImplementsDelivery
BY ConsoleComposes, TaskDelivers, PTL DEF ConsoleImplementsPipeline

-----------------------------------------------------------------------------
(* What the task does to a write, apart from the calls of the sink.        *)

\* It waits, or it plans a retry.
Waits ==
    /\ UNCHANGED <<pc, records, batch, itemsRead, acknowledged>>
    /\ future' = future \/ (future \in SinkError /\ future' = "sleeping")

\* It is elsewhere: no write begins, goes on or ends.
GoesOn ==
    /\ pc \notin FlushOps /\ pc' \notin FlushOps
    /\ pc' \in Forwarding => pc \in Forwarding
    /\ future' # "pending" \/ UNCHANGED future
    /\ UNCHANGED <<records, acknowledged>>
    /\ \/ UNCHANGED <<batch, itemsRead>>
       \/ /\ pc = "loop" /\ itemsRead' = itemsRead + 1
          /\ UNCHANGED batch \/ ~Full(Len(batch) + 1)

\* It begins the write of what was buffered, or has nothing to write.
BeginsFlush ==
    /\ pc = "loop" /\ pc' \in FlushOps
    /\ batch' = <<>> /\ UNCHANGED acknowledged
    /\ future' = IF records' = <<>> THEN "ok" ELSE "unpolled"
    /\ \/ records' = batch /\ UNCHANGED itemsRead
       \/ records' = Append(batch, itemsRead') /\ itemsRead' = itemsRead + 1

\* It takes the answer to its write.
EndsFlush ==
    /\ pc \in FlushOps /\ pc' \in {"loop", "close"}
    /\ Acknowledge /\ future' \in {"none", "unpolled"}
    /\ UNCHANGED <<batch, itemsRead>>

\* It gives up on everything.
GivesUp ==
    /\ pc' = "cleanup" /\ future' = "unpolled"
    /\ records' = <<>> /\ batch' = <<>> /\ UNCHANGED itemsRead
    /\ UNCHANGED acknowledged \/ (pc \in FlushOps /\ Acknowledge)

LEMMA ApartDoes == Apart => Waits \/ GoesOn \/ BeginsFlush \/ EndsFlush \/ GivesUp
<1> SUFFICES ASSUME Apart PROVE Waits \/ GoesOn \/ BeginsFlush \/ EndsFlush \/ GivesUp
  OBVIOUS
<1> USE DEF Forwarding, BoundedOps, RetriedOps, FlushOps, buffer, source, history, around, call
<1>1. CASE RejectSettings \/ OpFails \/ TimesOut \/ SourceFlushDone
  <2>1. PICK error : Fail(error)
    BY <1>1 DEF RejectSettings, OpFails, TimesOut, SourceFlushDone
  <2>2. UNCHANGED acknowledged \/ (pc \in FlushOps /\ Acknowledge)
    <3>1. CASE SourceFlushDone
      <4>1. pc = "io_flush" /\ (Acknowledge \/ UNCHANGED acknowledged)
        BY <3>1 DEF SourceFlushDone
      <4>2. QED
        BY <4>1
    <3>2. QED
      BY <1>1, <3>1 DEF RejectSettings, OpFails, TimesOut
  <2>3. GivesUp
    BY <2>1, <2>2 DEF GivesUp, Fail, DropLocals
  <2>4. QED
    BY <2>3
<1>2. CASE StartInitialize \/ InitializeDone \/ Closed \/ CleanupDone
  <2>1. GoesOn
    BY <1>2 DEF GoesOn, StartInitialize, InitializeDone, Closed, CleanupDone, CleanupOver
  <2>2. QED
    BY <2>1
<1>3. CASE pc = "loop" /\ \E op \in FlushOps : FlushNow(op)
  <2>1. BeginsFlush
    BY <1>3 DEF BeginsFlush, FlushNow, FlushBuffer, Taken
  <2>2. QED
    BY <2>1
<1>4. CASE FinishRequested \/ LatencyExpired \/ SourceEnds \/ SourceFails
  BY <1>3, <1>4 DEF FinishRequested, LatencyExpired, SourceEnds, SourceFails, Selecting, Finish
<1>5. CASE ShutdownRequested \/ BoundShutdown \/ Signal \/ Tick \/ Terminated
  <2>1. Waits
    BY <1>5 DEF Waits, ShutdownRequested, BoundShutdown, PollShutdown, Signal, Tick, Terminated,
                vars
  <2>2. QED
    BY <2>1
<1>6. CASE RetryLater
  <2>1. Waits
    BY <1>6 DEF Waits, RetryLater, Retries
  <2>2. QED
    BY <2>1
<1>7. CASE FlushDone \/ FinalFlushDone
  <2>1. EndsFlush
    BY <1>7 DEF EndsFlush, FlushDone, FinalFlushDone
  <2>2. QED
    BY <2>1
<1>8. CASE BufferRecord \/ SkipParseError
  <2>1. pc = "loop" /\ itemsRead' = itemsRead + 1
    BY <1>8 DEF BufferRecord, SkipParseError, ReadRecord, ReadItem, Selecting
  <2>2. UNCHANGED <<pc, records, future, acknowledged>>
    BY <1>8 DEF BufferRecord, SkipParseError
  <2>3. UNCHANGED batch \/ ~Full(Len(batch) + 1)
    BY <1>8 DEF BufferRecord, SkipParseError
  <2>4. Waits \/ GoesOn
    BY <2>1, <2>2, <2>3 DEF GoesOn
  <2>5. QED
    BY <2>4
<1>9. CASE FillBatch
  <2>1. BeginsFlush
    BY <1>9 DEF BeginsFlush, FillBatch, ReadRecord, ReadItem, Selecting, FlushBuffer, Taken
  <2>2. QED
    BY <2>1
<1>10. QED
  BY <1>1, <1>2, <1>4, <1>5, <1>6, <1>7, <1>8, <1>9 DEF Apart, TaskAlone, SourceStep

-----------------------------------------------------------------------------
(* What is written.                                                        *)

Part == Nat \X {"head", "tail"}

Whole(n) == \E i \in DOMAIN out : Parts(i, n)

\* What the thread has written of the output it was handed.
Written == Len(Output(records)) - Len(left)

\* The last parts on stdout and those left are the output of the batch.
HandedOver ==
    /\ Written \in 0 .. Len(out)
    /\ \A i \in 1 .. Written : out[Len(out) - Written + i] = Output(records)[i]
    /\ \A i \in 1 .. Len(left) : left[i] = Output(records)[Written + i]

\* While the task awaits its write, the thread carries out that write; otherwise
\* it carries out none, unless the task has given up.
WriteInv ==
    /\ out \in Seq(Part) /\ left \in Seq(Part)
    /\ future = "pending" => pc \in FlushOps /\ HandedOver
    /\ pc \in Forwarding /\ future # "pending" => left = <<>>
    /\ pc \in FlushOps /\ future = "ok" => \A n \in Range(records) : Whole(n)
    /\ AcknowledgedWhole

LEMMA InitWrite == ConsoleInit => WriteInv
<1> SUFFICES ASSUME ConsoleInit PROVE WriteInv
  OBVIOUS
<1>1. out = <<>> /\ left = <<>> /\ <<>> \in Seq(Part)
  BY DEF ConsoleInit
<1>2. acknowledged = <<>> /\ pc = "start" /\ future = "none"
  BY DEF ConsoleInit, Init
<1>3. AcknowledgedWhole
  BY <1>2 DEF AcknowledgedWhole, Range
<1>4. QED
  BY <1>1, <1>2, <1>3 DEF WriteInv, FlushOps

LEMMA OutputParts ==
    ASSUME NEW rows \in Seq(Nat)
    PROVE  /\ Output(rows) \in Seq(Part)
           /\ Len(Output(rows)) = 2 * Len(rows)
           /\ \A j \in 1 .. Len(rows) :
                 /\ Output(rows)[2 * j - 1] = <<rows[j], "head">>
                 /\ Output(rows)[2 * j] = <<rows[j], "tail">>
<1> DEFINE o == Output(rows)
           n == Len(rows)
<1>1. n \in Nat /\ \A j \in 1 .. n : rows[j] \in Nat
  OBVIOUS
<1>2. \A i \in 1 .. 2 * n : (i + 1) \div 2 \in 1 .. n
  BY <1>1
<1>3. \A i \in 1 .. 2 * n : o[i] \in Part
  BY <1>1, <1>2 DEF Output, Part
<1>4. DOMAIN o = 1 .. 2 * n /\ 2 * n \in Nat
  BY <1>1 DEF Output
<1>5. o \in Seq(Part) /\ Len(o) = 2 * n
  <2>1. o = [i \in 1 .. 2 * n |-> o[i]]
    BY DEF Output
  <2> HIDE DEF o
  <2>2. o \in [1 .. 2 * n -> Part]
    BY <1>3, <2>1
  <2>3. QED
    BY <1>4, <2>2
<1>6. ASSUME NEW j \in 1 .. n
      PROVE  o[2 * j - 1] = <<rows[j], "head">> /\ o[2 * j] = <<rows[j], "tail">>
  <2>1. 2 * j - 1 \in 1 .. 2 * n /\ 2 * j \in 1 .. 2 * n
    BY <1>1
  <2>2. /\ ((2 * j - 1) + 1) \div 2 = j /\ (2 * j - 1) % 2 = 1
        /\ (2 * j + 1) \div 2 = j /\ (2 * j) % 2 = 0
    BY <1>1
  <2>3. QED
    BY <2>1, <2>2 DEF Output
<1>7. QED
  BY <1>5, <1>6

\* When no part is left the whole output is there.
LEMMA AllWritten ==
    ASSUME TypeOK, WriteInv, future = "pending", left = <<>>
    PROVE  \A n \in Range(records) : Whole(n)
<1> SUFFICES ASSUME NEW n \in Range(records) PROVE Whole(n)
  OBVIOUS
<1>1. records \in Seq(Nat) /\ out \in Seq(Part)
  BY DEF TypeOK, WriteInv
<1>2. PICK j \in 1 .. Len(records) : records[j] = n
  BY <1>1 DEF Range
<1> DEFINE m == 2 * Len(records)
           i == Len(out) - m + 2 * j - 1
<1>3. Written = m
  BY <1>1, OutputParts DEF Written
<1>4. Len(out) \in Nat /\ m \in Nat /\ m <= Len(out) /\ Len(records) \in Nat
  BY <1>1, <1>3 DEF WriteInv, HandedOver
<1>5. \A k \in 1 .. m : out[Len(out) - m + k] = Output(records)[k]
  BY <1>3 DEF WriteInv, HandedOver
<1>6. 2 * j - 1 \in 1 .. m /\ 2 * j \in 1 .. m
  BY <1>4
<1>7. /\ Len(out) - m + (2 * j - 1) = i /\ Len(out) - m + 2 * j = i + 1
      /\ i \in 1 .. Len(out) /\ i < Len(out)
  BY <1>4, <1>6
<1>8. out[i] = <<n, "head">> /\ out[i + 1] = <<n, "tail">>
  BY <1>1, <1>2, <1>5, <1>6, <1>7, OutputParts
<1> HIDE DEF i
<1>9. i \in DOMAIN out /\ Parts(i, n)
  BY <1>1, <1>7, <1>8 DEF Parts
<1>10. QED
  BY <1>9 DEF Whole

\* A line on stdout stays there.
LEMMA WholeKept ==
    ASSUME out \in Seq(Part), NEW p \in Part, out' = out \/ out' = Append(out, p), NEW n, Whole(n)
    PROVE  Whole(n)'
<1>1. PICK i \in DOMAIN out : Parts(i, n)
  BY DEF Whole
<1>2. /\ i \in 1 .. Len(out) /\ i < Len(out)
      /\ out[i] = <<n, "head">> /\ out[i + 1] = <<n, "tail">>
  BY <1>1 DEF Parts
<1>3. /\ i \in DOMAIN out' /\ i < Len(out')
      /\ out'[i] = out[i] /\ out'[i + 1] = out[i + 1]
  <2>1. CASE out' = out
    BY <1>2, <2>1
  <2>2. CASE out' = Append(out, p)
    <3>1. Len(out') = Len(out) + 1 /\ \A k \in 1 .. Len(out) : out'[k] = out[k]
      BY <2>2
    <3>2. out' \in Seq(Part) /\ Len(out) \in Nat /\ i + 1 \in 1 .. Len(out)
      BY <1>2, <2>2
    <3>3. QED
      BY <1>2, <3>1, <3>2
  <2>3. QED
    BY <2>1, <2>2
<1>4. i \in DOMAIN out' /\ Parts(i, n)'
  BY <1>2, <1>3 DEF Parts
<1>5. QED
  BY <1>4 DEF Whole

\* Steps that leave stdout alone: what is said of it stays true.
LEMMA WholeSame ==
    ASSUME UNCHANGED out
    PROVE  \A n : Whole(n)' = Whole(n)
BY DEF Whole, Parts

LEMMA HandedSame ==
    ASSUME UNCHANGED <<records, out, left>>
    PROVE  HandedOver' = HandedOver
BY DEF HandedOver, Written, Output

LEMMA AcknowledgedKept ==
    ASSUME WriteInv, UNCHANGED acknowledged, NEW p \in Part, out' = out \/ out' = Append(out, p)
    PROVE  AcknowledgedWhole'
<1>1. \A n \in Range(acknowledged) : Whole(n)
  BY DEF WriteInv, AcknowledgedWhole, Whole
<1>2. \A n \in Range(acknowledged) : Whole(n)'
  BY <1>1, WholeKept DEF WriteInv
<1>3. QED
  BY <1>2 DEF AcknowledgedWhole, Whole

LEMMA CallWrite ==
    ASSUME TypeOK, WriteInv, CallsConsole
    PROVE  WriteInv'
<1>1. /\ future \in {"unpolled", "sleeping"}
      /\ UNCHANGED <<pc, records, acknowledged, out>>
  BY DEF CallsConsole, CallSink, RetryNow, around, history
<1>2. AcknowledgedWhole'
  BY <1>1 DEF WriteInv, AcknowledgedWhole, Parts
<1>3. CASE DefaultReturns
  BY <1>1, <1>2, <1>3 DEF DefaultReturns, WriteInv
<1>4. CASE WriteBatch
  <2>1. left = <<>> /\ pc \in FlushOps
    BY <1>1, <1>4 DEF WriteBatch, WriteInv, Forwarding, BoundedOps, RetriedOps
  <2>2. CASE future' = "SerializationError" /\ UNCHANGED left
    BY <1>1, <1>2, <2>1, <2>2 DEF WriteInv
  <2>3. CASE future' = "pending" /\ left' = Output(records)
    <3>1. records \in Seq(Nat) /\ left' \in Seq(Part) /\ out' \in Seq(Part)
      BY <1>1, <2>3, OutputParts DEF TypeOK, WriteInv
    <3>2. left' = Output(records)' /\ Len(left') \in Nat
      BY <1>1, <2>3, <3>1 DEF Output
    <3>3. Written' = 0
      BY <3>2 DEF Written
    <3>4. HandedOver'
      BY <3>1, <3>2, <3>3 DEF HandedOver
    <3>5. QED
      BY <1>1, <1>2, <2>1, <2>3, <3>1, <3>4 DEF WriteInv
  <2>4. QED
    BY <1>4, <2>2, <2>3 DEF WriteBatch
<1>5. QED
  BY <1>3, <1>4 DEF CallsConsole

\* One part more is written, and one less left.
LEMMA PartWrite ==
    ASSUME TypeOK, WriteInv, WritePart
    PROVE  WriteInv'
<1>1. /\ left # <<>> /\ out' = Append(out, left[1]) /\ left' = Tail(left)
      /\ UNCHANGED <<pc, records, acknowledged, future>>
  BY DEF WritePart, TaskWaits, around, history
<1>2. out \in Seq(Part) /\ left \in Seq(Part)
  BY DEF WriteInv
<1>3. left[1] \in Part /\ out' \in Seq(Part) /\ left' \in Seq(Part)
  BY <1>1, <1>2
<1>4. AcknowledgedWhole'
  BY <1>1, <1>3, AcknowledgedKept
<1>5. pc \in FlushOps /\ future = "ok" => \A n \in Range(records) : Whole(n)'
  BY <1>1, <1>2, <1>3, WholeKept DEF WriteInv
<1>6. ASSUME future = "pending" PROVE HandedOver'
  <2> DEFINE w == Written
             o == Output(records)
  <2>1. /\ w \in 0 .. Len(out)
        /\ \A i \in 1 .. w : out[Len(out) - w + i] = o[i]
        /\ \A i \in 1 .. Len(left) : left[i] = o[w + i]
    BY <1>6 DEF WriteInv, HandedOver
  <2>2. /\ Len(left) \in Nat \ {0} /\ Len(out) \in Nat /\ Len(o) \in Nat
        /\ Len(left') = Len(left) - 1 /\ Len(out') = Len(out) + 1
        /\ \A i \in 1 .. Len(out) : out'[i] = out[i]
        /\ out'[Len(out) + 1] = left[1]
        /\ \A i \in 1 .. Len(left') : left'[i] = left[i + 1]
    <3>1. Len(o) \in Nat
      BY OutputParts DEF TypeOK
    <3>2. QED
      BY <1>1, <1>2, <3>1
  <2>3. Output(records)' = o
    BY <1>1 DEF Output
  <2>4. Written' = w + 1
    BY <2>2, <2>3 DEF Written
  <2> HIDE DEF w, o
  <2>5. w + 1 \in 0 .. Len(out')
    BY <2>1, <2>2
  <2>6. \A i \in 1 .. w + 1 : out'[Len(out') - (w + 1) + i] = o[i]
    <3>1. SUFFICES ASSUME NEW i \in 1 .. w + 1 PROVE out'[Len(out) - w + i] = o[i]
      BY <2>1, <2>2
    <3>2. CASE i = w + 1
      BY <2>1, <2>2, <3>2
    <3>3. CASE i # w + 1
      <4>1. i \in 1 .. w /\ Len(out) - w + i \in 1 .. Len(out)
        BY <2>1, <2>2, <3>3
      <4>2. QED
        BY <2>1, <2>2, <4>1
    <3>4. QED
      BY <3>2, <3>3
  <2>7. \A i \in 1 .. Len(left') : left'[i] = o[w + 1 + i]
    <3>1. SUFFICES ASSUME NEW i \in 1 .. Len(left') PROVE left'[i] = o[w + 1 + i]
      OBVIOUS
    <3>2. i + 1 \in 1 .. Len(left) /\ w + (i + 1) = w + 1 + i
      BY <2>1, <2>2
    <3>3. QED
      BY <2>1, <2>2, <3>2
  <2>8. QED
    BY <2>3, <2>4, <2>5, <2>6, <2>7 DEF HandedOver
<1>7. QED
  BY <1>1, <1>3, <1>4, <1>5, <1>6 DEF WriteInv

LEMMA StdoutWrite ==
    ASSUME TypeOK, WriteInv, WriteReturns \/ WriteFails
    PROVE  WriteInv'
<1>1. UNCHANGED <<pc, records, acknowledged, out>> /\ left' = <<>>
  BY DEF WriteReturns, Flushed, WriteFails, TaskWaits, stdout, around, history
<1>2. <<>> \in Seq(Part) /\ \A n : Whole(n)' = Whole(n)
  BY <1>1, WholeSame
<1>3. AcknowledgedWhole'
  BY <1>1 DEF WriteInv, AcknowledgedWhole, Parts
<1>4. CASE WriteReturns
  <2>1. future = "pending" /\ left = <<>> /\ future' = "ok"
    BY <1>4 DEF WriteReturns, Flushed
  <2>2. \A n \in Range(records) : Whole(n)
    BY <2>1, AllWritten
  <2>3. QED
    BY <1>1, <1>2, <1>3, <2>1, <2>2 DEF WriteInv
<1>5. CASE WriteFails
  BY <1>1, <1>2, <1>3, <1>5 DEF WriteFails, WriteInv
<1>6. QED
  BY <1>4, <1>5

LEMMA ApartWrite ==
    ASSUME TypeOK, WriteInv, Apart
    PROVE  WriteInv'
<1>1. UNCHANGED <<out, left>>
  BY DEF Apart, stdout
<1>2. \A n : Whole(n)' = Whole(n)
  BY <1>1, WholeSame
<1>3. acknowledged' = acknowledged => AcknowledgedWhole'
  BY <1>1 DEF WriteInv, AcknowledgedWhole, Parts
<1>4. CASE Waits
  <2>1. HandedOver' = HandedOver
    BY <1>1, <1>4, HandedSame DEF Waits
  <2>2. future \in SinkError => future # "pending"
    BY DEF SinkError
  <2>3. QED
    BY <1>1, <1>2, <1>3, <1>4, <2>1, <2>2 DEF Waits, WriteInv
<1>5. CASE GoesOn
  BY <1>1, <1>3, <1>5 DEF GoesOn, WriteInv
<1>6. CASE BeginsFlush
  <2>1. Range(<<>>) = {}
    BY DEF Range
  <2>2. left = <<>>
    BY <1>6 DEF BeginsFlush, WriteInv, Forwarding, FlushOps
  <2>3. QED
    BY <1>1, <1>3, <1>6, <2>1, <2>2 DEF BeginsFlush, WriteInv
<1>7. ASSUME pc \in FlushOps, Acknowledge PROVE AcknowledgedWhole'
  <2>1. acknowledged' = acknowledged \o records /\ future = "ok"
    BY <1>7 DEF Acknowledge
  <2>2. Range(acknowledged') \subseteq Range(acknowledged) \cup Range(records)
    BY <2>1 DEF TypeOK, Range
  <2>3. \A n \in Range(acknowledged) \cup Range(records) : Whole(n)
    BY <1>7, <2>1 DEF WriteInv, AcknowledgedWhole, Whole
  <2>4. \A n \in Range(acknowledged') : Whole(n)'
    BY <1>2, <2>2, <2>3
  <2>5. QED
    BY <2>4 DEF AcknowledgedWhole, Whole
<1>8. CASE EndsFlush
  <2>1. left = <<>>
    BY <1>8 DEF EndsFlush, Acknowledge, WriteInv, Forwarding, BoundedOps, RetriedOps
  <2>2. QED
    BY <1>1, <1>7, <1>8, <2>1 DEF EndsFlush, WriteInv, FlushOps
<1>9. CASE GivesUp
  BY <1>1, <1>3, <1>7, <1>9 DEF GivesUp, WriteInv, Forwarding, BoundedOps, RetriedOps, FlushOps
<1>10. QED
  BY <1>4, <1>5, <1>6, <1>8, <1>9, ApartDoes

LEMMA NextWrite == TypeOK /\ WriteInv /\ [ConsoleNext]_consoleVars => WriteInv'
<1> SUFFICES ASSUME TypeOK, WriteInv, [ConsoleNext]_consoleVars PROVE WriteInv'
  OBVIOUS
<1>1. CASE UNCHANGED consoleVars
  <2>1. UNCHANGED <<pc, records, acknowledged, future, out, left>>
    BY <1>1 DEF consoleVars, stdout, vars, call, history
  <2>2. HandedOver' = HandedOver /\ \A n : Whole(n)' = Whole(n)
    BY <2>1, HandedSame, WholeSame
  <2>3. AcknowledgedWhole'
    BY <2>1 DEF WriteInv, AcknowledgedWhole, Parts
  <2>4. QED
    BY <2>1, <2>2, <2>3 DEF WriteInv
<1>2. QED
  BY <1>1, CallWrite, PartWrite, StdoutWrite, ApartWrite DEF ConsoleNext, StdoutStep

LEMMA ConsoleTypeAlways == ConsoleSpec => []TypeOK
BY ConsoleComposes, TypeCorrect, PTL DEF ConsoleImplementsPipeline

LEMMA WriteAlways == ConsoleSpec => []WriteInv
BY ConsoleTypeAlways, InitWrite, NextWrite, PTL DEF ConsoleSpec

\* What write_batch returned Ok for is on stdout, each line in one piece, for any
\* batch size, any failures of stdout and any retries.
THEOREM AcknowledgesWhole == ConsoleSpec => []AcknowledgedWhole
<1>1. WriteInv => AcknowledgedWhole
  BY DEF WriteInv
<1>2. QED
  BY <1>1, WriteAlways, PTL

-----------------------------------------------------------------------------
(* The order of the output.  The console asks for batches of one record: the *)
(* record being written is the last one read, and nothing else is buffered.  *)

LEMMA SettingsFixed == [Next]_vars => UNCHANGED batchSize
<1> USE DEF settings, around
<1>1. ASSUME NEW error, Fail(error) PROVE UNCHANGED batchSize
  BY <1>1 DEF Fail
<1>2. ASSUME NEW op, NEW b, FlushBuffer(op, b) PROVE UNCHANGED batchSize
  BY <1>2 DEF FlushBuffer
<1>3. TaskAlone => UNCHANGED batchSize
  BY <1>1, <1>2 DEF TaskAlone, RejectSettings, StartInitialize, InitializeDone, FinishRequested,
     ShutdownRequested, LatencyExpired, RetryLater, OpFails, BoundShutdown, FlushDone,
     SourceFlushDone, FinalFlushDone, Closed, PollShutdown, Finish, FlushNow
<1>4. TaskStep => UNCHANGED batchSize
  BY <1>1, <1>3 DEF TaskStep, CallSink, RetryNow, TimesOut, CleanupDone
<1>5. SourceStep => UNCHANGED batchSize
  BY <1>2 DEF SourceStep, BufferRecord, FillBatch, SkipParseError, SourceEnds, SourceFails,
     Finish, FlushNow
<1>6. QED
  BY <1>4, <1>5 DEF Next, SinkAnswers, Signal, Tick, Terminated, vars

\* The output ends inside a line.
Torn == out # <<>> /\ out[Len(out)][2] = "head"

\* No part is of a record beyond the last one read, and those left are of that
\* one.  A torn line is of that one too, and either its write is not over or the
\* task has given up.
OrderInv ==
    /\ batchSize = 1 /\ batch = <<>>
    /\ records # <<>> => pc \in FlushOps /\ records = <<itemsRead>>
    /\ pc \in FlushOps /\ future # "ok" => records # <<>>
    /\ \A i \in 1 .. Len(left) : left[i][1] = itemsRead
    /\ \A i \in 1 .. Len(out) : out[i][1] <= itemsRead
    /\ Torn =>
          /\ out[Len(out)][1] = itemsRead
          /\ pc \in {"cleanup", "returned"} \/ (pc \in FlushOps /\ future # "ok")
    /\ OutputInOrder /\ TearsRetried

LEMMA InitOrder == BatchSizes = {1} /\ ConsoleInit => OrderInv
<1> SUFFICES ASSUME BatchSizes = {1}, ConsoleInit PROVE OrderInv
  OBVIOUS
<1>1. /\ batchSize = 1 /\ batch = <<>> /\ records = <<>> /\ pc = "start"
      /\ out = <<>> /\ left = <<>>
  BY DEF ConsoleInit, Init
<1>2. Len(out) = 0 /\ Len(left) = 0 /\ DOMAIN out = {}
  BY <1>1
<1>3. QED
  BY <1>1, <1>2 DEF OrderInv, Torn, OutputInOrder, TearsRetried, FlushOps

\* What is said of the output alone.
LEMMA OutputSame ==
    ASSUME UNCHANGED out
    PROVE  Torn' = Torn /\ OutputInOrder' = OutputInOrder /\ TearsRetried' = TearsRetried
BY DEF Torn, OutputInOrder, TearsRetried

LEMMA CallOrder ==
    ASSUME TypeOK, WriteInv, OrderInv, CallsConsole, UNCHANGED batchSize
    PROVE  OrderInv'
<1>1. /\ future \in {"unpolled", "sleeping"}
      /\ UNCHANGED <<pc, batch, records, itemsRead, out>>
  BY DEF CallsConsole, CallSink, RetryNow, around, buffer, source
<1>2. Torn' = Torn /\ OutputInOrder' = OutputInOrder /\ TearsRetried' = TearsRetried
  BY <1>1, OutputSame
<1>3. CASE DefaultReturns
  BY <1>1, <1>2, <1>3 DEF DefaultReturns, OrderInv
<1>4. CASE WriteBatch
  <2>1. pc \in FlushOps /\ future' \in {"SerializationError", "pending"}
    BY <1>4 DEF WriteBatch
  <2>2. \A i \in 1 .. Len(left') : left'[i][1] = itemsRead
    <3>1. CASE UNCHANGED left
      BY <3>1 DEF OrderInv
    <3>2. CASE left' = Output(records)
      <4>1. records = <<itemsRead>> /\ records \in Seq(Nat) /\ Len(records) = 1
        BY <1>1, <2>1 DEF OrderInv, TypeOK
      <4>2. /\ Len(Output(records)) = 2 * Len(records)
            /\ \A j \in 1 .. Len(records) :
                  /\ Output(records)[2 * j - 1] = <<records[j], "head">>
                  /\ Output(records)[2 * j] = <<records[j], "tail">>
        BY <4>1, OutputParts
      <4>3. records[1] = itemsRead /\ 2 * 1 - 1 = 1 /\ 2 * 1 = 2
        BY <4>1
      <4>4. Len(left') = 2 /\ left'[1] = <<itemsRead, "head">> /\ left'[2] = <<itemsRead, "tail">>
        BY <3>2, <4>1, <4>2, <4>3
      <4>5. QED
        BY <4>4
    <3>3. QED
      BY <1>4, <3>1, <3>2 DEF WriteBatch
  <2>3. QED
    BY <1>1, <1>2, <2>1, <2>2 DEF OrderInv
<1>5. QED
  BY <1>3, <1>4 DEF CallsConsole

LEMMA PartOrder ==
    ASSUME TypeOK, WriteInv, OrderInv, WritePart, UNCHANGED batchSize
    PROVE  OrderInv'
<1>1. /\ left # <<>> /\ out' = Append(out, left[1]) /\ left' = Tail(left)
      /\ UNCHANGED <<pc, batch, records, itemsRead, future>>
  BY DEF WritePart, TaskWaits, around, buffer, source
<1>2. out \in Seq(Part) /\ left \in Seq(Part) /\ itemsRead \in Nat
  BY DEF WriteInv, TypeOK
<1> DEFINE n == Len(out)
<1>3. /\ n \in Nat /\ Len(out') = n + 1 /\ out'[n + 1] = left[1]
      /\ \A i \in 1 .. n : out'[i] = out[i] /\ out[i][1] \in Nat
      /\ left[1][1] = itemsRead /\ out' \in Seq(Part)
  <2>1. left[1][1] = itemsRead /\ left[1] \in Part
    BY <1>1, <1>2 DEF OrderInv
  <2>2. \A i \in 1 .. n : out[i] \in Part
    BY <1>2
  <2>3. QED
    BY <1>1, <1>2, <2>1, <2>2 DEF Part
<1>4. \A i \in 1 .. Len(left') : left'[i][1] = itemsRead
  BY <1>1, <1>2 DEF OrderInv
<1>5. \A i \in 1 .. n : out[i][1] <= itemsRead
  BY DEF OrderInv
<1> HIDE DEF n
<1>6. \A i \in 1 .. Len(out') : out'[i][1] <= itemsRead
  BY <1>2, <1>3, <1>5
<1>7. DOMAIN out' = 1 .. n + 1 /\ DOMAIN out = 1 .. n
  BY <1>2, <1>3 DEF n
<1>8. OutputInOrder'
  <2>1. SUFFICES ASSUME NEW i \in 1 .. n + 1, NEW j \in 1 .. n + 1, i < j
                 PROVE  out'[i][1] <= out'[j][1]
    BY <1>7 DEF OutputInOrder
  <2>2. i \in 1 .. n
    BY <1>3, <2>1
  <2>3. CASE j = n + 1
    BY <1>3, <1>5, <2>2, <2>3
  <2>4. CASE j \in 1 .. n
    BY <1>3, <1>7, <2>1, <2>2, <2>4 DEF OrderInv, OutputInOrder
  <2>5. QED
    BY <1>3, <2>3, <2>4
<1>9. TearsRetried'
  <2>1. SUFFICES ASSUME NEW i \in 1 .. n, out'[i][2] = "head"
                 PROVE  out'[i + 1][1] = out'[i][1]
    BY <1>3 DEF TearsRetried
  <2>2. CASE i = n
    <3>1. Torn
      BY <1>2, <1>3, <2>1, <2>2 DEF Torn, n
    <3>2. out[n][1] = itemsRead
      BY <3>1 DEF OrderInv, n
    <3>3. QED
      BY <1>3, <2>2, <3>2
  <2>3. CASE i # n
    <3>1. i \in 1 .. n - 1 /\ i + 1 \in 1 .. n
      BY <1>3, <2>3
    <3>2. out[i + 1][1] = out[i][1]
      BY <1>3, <2>1, <3>1 DEF OrderInv, TearsRetried, n
    <3>3. QED
      BY <1>3, <3>1, <3>2
  <2>4. QED
    BY <2>2, <2>3
<1>10. pc \in {"cleanup", "returned"} \/ (pc \in FlushOps /\ future # "ok")
  BY <1>1 DEF WriteInv, TypeOK, Point
<1>11. out'[Len(out')][1] = itemsRead
  BY <1>3
<1>12. QED
  BY <1>1, <1>4, <1>6, <1>8, <1>9, <1>10, <1>11 DEF OrderInv

LEMMA StdoutOrder ==
    ASSUME TypeOK, WriteInv, OrderInv, WriteReturns \/ WriteFails, UNCHANGED batchSize
    PROVE  OrderInv'
<1>1. UNCHANGED <<pc, batch, records, itemsRead, out>> /\ left' = <<>> /\ Len(left') = 0
  BY DEF WriteReturns, Flushed, WriteFails, TaskWaits, stdout, around, buffer, source
<1>2. Torn' = Torn /\ OutputInOrder' = OutputInOrder /\ TearsRetried' = TearsRetried
  BY <1>1, OutputSame
<1>3. CASE WriteReturns
  <2>1. future = "pending" /\ left = <<>> /\ pc \in FlushOps /\ HandedOver /\ future' = "ok"
    BY <1>3 DEF WriteReturns, Flushed, WriteInv
  <2>2. records = <<itemsRead>> /\ records \in Seq(Nat) /\ Len(records) = 1
    BY <2>1 DEF OrderInv, TypeOK
  <2>3. Len(Output(records)) = 2 /\ Output(records)[2] = <<records[1], "tail">>
    <3>1. /\ Len(Output(records)) = 2 * Len(records)
          /\ \A j \in 1 .. Len(records) : Output(records)[2 * j] = <<records[j], "tail">>
      BY <2>2, OutputParts
    <3>2. 2 * 1 = 2
      OBVIOUS
    <3>3. QED
      BY <2>2, <3>1, <3>2
  <2>4. Written = 2
    BY <2>1, <2>3 DEF Written
  <2>5. Len(out) \in Nat /\ out[Len(out) - 2 + 2] = Output(records)[2]
    BY <2>1, <2>4 DEF HandedOver, WriteInv
  <2>6. out[Len(out)][2] = "tail"
    BY <2>3, <2>5
  <2>7. ~Torn
    BY <2>6 DEF Torn
  <2>8. QED
    BY <1>1, <1>2, <2>1, <2>2, <2>7 DEF OrderInv
<1>4. CASE WriteFails
  <2>1. future' # "ok" \/ future' = future
    BY <1>4 DEF WriteFails
  <2>2. future = "ok" => future' = "ok"
    BY <1>4 DEF WriteFails
  <2>3. pc \in FlushOps /\ future # "ok" => records # <<>>
    BY DEF OrderInv
  <2>4. QED
    BY <1>1, <1>2, <2>1, <2>2, <2>3 DEF OrderInv
<1>5. QED
  BY <1>3, <1>4

LEMMA ApartOrder ==
    ASSUME TypeOK, TypeOK', WriteInv, OrderInv, Apart, UNCHANGED batchSize
    PROVE  OrderInv'
<1>1. UNCHANGED <<out, left>>
  BY DEF Apart, stdout
<1>2. Torn' = Torn /\ OutputInOrder' = OutputInOrder /\ TearsRetried' = TearsRetried
  BY <1>1, OutputSame
<1>3. CASE Waits
  <2>1. future \in SinkError => future # "ok"
    BY DEF SinkError
  <2>2. QED
    BY <1>1, <1>2, <1>3, <2>1 DEF Waits, OrderInv
\* Beyond the loop nothing is read, and in it no line is torn and none is left.
<1>4. ASSUME pc = "loop"
      PROVE  left = <<>> /\ Len(left) = 0 /\ ~Torn
  BY <1>4 DEF WriteInv, OrderInv, Forwarding, FlushOps
<1>5. ASSUME itemsRead' = itemsRead + 1
      PROVE  \A i \in 1 .. Len(out) : out[i][1] <= itemsRead'
  <2>1. \A i \in 1 .. Len(out) : out[i][1] \in Nat /\ out[i][1] <= itemsRead
    BY DEF WriteInv, OrderInv, Part
  <2>2. itemsRead \in Nat
    BY PipelineAssumption DEF TypeOK
  <2>3. QED
    BY ONLY <1>1, <1>5, <2>1, <2>2
<1>6. CASE GoesOn
  <2>1. batch' = <<>>
    <3>1. Full(Len(<<>>) + 1)
      BY DEF OrderInv, Full
    <3>2. QED
      BY <1>6, <3>1 DEF GoesOn, OrderInv
  <2>2. pc \notin FlushOps /\ pc' \notin FlushOps
    BY <1>6 DEF GoesOn
  <2>3. Torn => pc \in {"cleanup", "returned"} /\ pc' \in {"cleanup", "returned"}
    BY <1>6, <2>2 DEF GoesOn, OrderInv, TypeOK, Point, Forwarding, BoundedOps, RetriedOps, FlushOps
  <2>4. CASE UNCHANGED itemsRead
    BY <1>1, <1>2, <1>6, <2>1, <2>2, <2>3, <2>4 DEF GoesOn, OrderInv
  <2>5. CASE pc = "loop" /\ itemsRead' = itemsRead + 1
    <3>1. records = <<>>
      BY <2>2 DEF OrderInv
    <3>2. QED
      BY <1>1, <1>2, <1>4, <1>5, <1>6, <2>1, <2>2, <2>5, <3>1 DEF GoesOn, OrderInv
  <2>6. QED
    BY <1>6, <2>4, <2>5 DEF GoesOn
<1>7. CASE BeginsFlush
  <2>1. pc' \in FlushOps /\ batch' = <<>> /\ left = <<>> /\ Len(left) = 0 /\ ~Torn
    BY <1>4, <1>7 DEF BeginsFlush
  <2>2. future' # "ok" => records' # <<>>
    BY <1>7 DEF BeginsFlush
  <2>3. CASE records' = batch /\ UNCHANGED itemsRead
    BY <1>1, <1>2, <2>1, <2>2, <2>3 DEF OrderInv
  <2>4. CASE records' = Append(batch, itemsRead') /\ itemsRead' = itemsRead + 1
    <3>1. records' = <<itemsRead'>>
      BY <2>4 DEF OrderInv
    <3>2. QED
      BY <1>1, <1>2, <1>5, <2>1, <2>2, <2>4, <3>1 DEF OrderInv
  <2>5. QED
    BY <1>7, <2>3, <2>4 DEF BeginsFlush
<1>8. CASE EndsFlush
  BY <1>1, <1>2, <1>8 DEF EndsFlush, Acknowledge, OrderInv, FlushOps
<1>9. CASE GivesUp
  BY <1>1, <1>2, <1>9 DEF GivesUp, OrderInv, FlushOps
<1>10. QED
  BY <1>3, <1>6, <1>7, <1>8, <1>9, ApartDoes

LEMMA NextOrder ==
    TypeOK /\ TypeOK' /\ WriteInv /\ OrderInv /\ [ConsoleNext]_consoleVars => OrderInv'
<1> SUFFICES ASSUME TypeOK, TypeOK', WriteInv, OrderInv, [ConsoleNext]_consoleVars
             PROVE  OrderInv'
  OBVIOUS
<1>1. UNCHANGED batchSize
  BY ConsoleNextImplements, SettingsFixed
<1>2. CASE UNCHANGED consoleVars
  <2>1. UNCHANGED <<pc, batchSize, batch, records, future, itemsRead, out, left>>
    BY <1>2 DEF consoleVars, stdout, vars, call, buffer, source, settings
  <2>2. Torn' = Torn /\ OutputInOrder' = OutputInOrder /\ TearsRetried' = TearsRetried
    BY <2>1, OutputSame
  <2>3. QED
    BY <2>1, <2>2 DEF OrderInv
<1>3. QED
  BY <1>1, <1>2, CallOrder, PartOrder, StdoutOrder, ApartOrder DEF ConsoleNext, StdoutStep

LEMMA OrderAlways == ASSUME BatchSizes = {1} PROVE ConsoleSpec => []OrderInv
BY ConsoleTypeAlways, WriteAlways, InitOrder, NextOrder, PTL DEF ConsoleSpec

\* With the batches of one record that the console asks for the output never goes
\* back to an earlier record, whatever is retried or given up.
THEOREM OutputsInOrder == ASSUME BatchSizes = {1} PROVE ConsoleSpec => []OutputInOrder
<1>1. OrderInv => OutputInOrder
  BY DEF OrderInv
<1>2. QED
  BY <1>1, OrderAlways, PTL

\* With batches of one record a torn line is followed by nothing, or by a retry of
\* its record.
THEOREM RetriesTears == ASSUME BatchSizes = {1} PROVE ConsoleSpec => []TearsRetried
<1>1. OrderInv => TearsRetried
  BY DEF OrderInv
<1>2. QED
  BY <1>1, OrderAlways, PTL

-----------------------------------------------------------------------------
(* The writes come to an end.                                              *)

\* A step brings the task nearer to its return, or writes a part of the output,
\* or ends the output of a write that was given up on.
ConsoleNearer == Nearer \/ (UNCHANGED vars /\ Len(left') < Len(left))

LEMMA PartNearer ==
    ASSUME WriteInv, ConsoleNext, UNCHANGED vars
    PROVE  UNCHANGED stdout \/ Len(left') < Len(left)
<1>1. ~CallsConsole
  BY PipelineAssumption DEF CallsConsole, CallSink, RetryNow, Called, SinkError, vars, call
<1>2. ASSUME left # <<>>, left' = Tail(left) \/ left' = <<>>
      PROVE  Len(left') < Len(left)
  <2>1. left \in Seq(Part)
    BY DEF WriteInv
  <2>2. Len(<<>>) = 0 /\ Len(left) > 0 /\ Len(Tail(left)) = Len(left) - 1
    BY <1>2, <2>1
  <2>3. QED
    BY <1>2, <2>2
<1>3. CASE StdoutStep
  BY <1>2, <1>3 DEF StdoutStep, WritePart, WriteReturns, WriteFails
<1>4. QED
  BY <1>1, <1>3 DEF ConsoleNext, Apart

\* On an input that ends the process takes finitely many steps: a write is retried
\* a bounded number of times, and each attempt has a bounded number of parts.
THEOREM ConsoleAlwaysNearer == ConsoleSpec => [][ConsoleNearer]_consoleVars
<1>1. ConsoleSpec => [][Nearer]_vars
  BY ConsoleComposes, AlwaysNearer, PTL DEF ConsoleImplementsPipeline
<1>2. WriteInv /\ [ConsoleNext]_consoleVars /\ [Nearer]_vars => [ConsoleNearer]_consoleVars
  BY PartNearer DEF ConsoleNearer, consoleVars
<1>3. QED
  BY <1>1, <1>2, WriteAlways, PTL DEF ConsoleSpec
=============================================================================
