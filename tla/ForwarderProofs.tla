-------------------------- MODULE ForwarderProofs --------------------------
(***************************************************************************)
(* Theorems about Forwarder: the task and the worker thread together, for  *)
(* any constants.  The composition implements Pipeline, which brings the   *)
(* theorems of PipelineProofs with it; and for a database that outlives    *)
(* its connection the table holds what Delivery promises.                  *)
(***************************************************************************)
EXTENDS Forwarder, PipelineProofs

-----------------------------------------------------------------------------
(* The composition implements Pipeline: a step of the worker is an answer of *)
(* the sink, or a stutter.                                                   *)

AnswerInv == answer \in {"ok"} \cup SinkFaults

LEMMA InitAnswer == ForwarderInit => AnswerInv
BY DEF ForwarderInit, W!DatabaseInit, AnswerInv

\* What the task sees of the worker.
LEMMA WorkerAnswers ==
    ASSUME AnswerInv, W!WorkerStep
    PROVE  /\ AnswerInv'
           /\ \/ future' = future
              \/ future = "pending" /\ future' \in {"ok"} \cup SinkFaults
<1> USE ForwarderAssumption DEF AnswerInv
<1>1. CASE W!Receive
  BY <1>1 DEF W!Receive, W!Unseen
<1>2. CASE W!Reuse \/ W!Open \/ W!OpenFails
  BY <1>2 DEF W!Reuse, W!Open, W!OpenFails, W!Connected, W!Goes, W!Unseen
<1>3. CASE W!Begin \/ W!Insert \/ W!Rollback
  BY <1>3 DEF W!Begin, W!Insert, W!Rollback, W!Goes, W!Unseen
<1>4. CASE W!Commit
  BY <1>4 DEF W!Commit, W!CommitWith, W!Goes, W!Unseen
<1>5. CASE W!Respond
  BY <1>5 DEF W!Respond, W!Awaited, W!inside
<1>6. CASE W!Close
  BY <1>6 DEF W!Close, W!Unseen, W!inside
<1>7. CASE W!Exit \/ W!Panic
  BY <1>7 DEF W!Exit, W!Panic, W!Ends, W!inside
<1>8. CASE W!Joined
  BY <1>8 DEF W!Joined, W!worker, W!inside
<1>9. QED
  BY <1>1, <1>2, <1>3, <1>4, <1>5, <1>6, <1>7, <1>8 DEF W!WorkerStep

LEMMA NextImplements ==
    AnswerInv /\ [ForwarderNext]_forwarderVars => AnswerInv' /\ [Next]_vars
<1> SUFFICES ASSUME AnswerInv, [ForwarderNext]_forwarderVars
             PROVE  AnswerInv' /\ [Next]_vars
  OBVIOUS
<1>1. CASE CallsWorker
  <2>1. UNCHANGED answer
    BY <1>1 DEF CallsWorker, W!Call, W!Request, W!WriteBatch, W!Shutdown, database,
                W!database, W!worker, W!inside
  <2>2. QED
    BY <1>1, <2>1 DEF CallsWorker, AnswerInv, Next, TaskStep
<1>2. CASE Abandons
  <2>1. UNCHANGED answer
    BY <1>2 DEF Abandons, W!LetGo, database, W!worker, W!inside
  <2>2. QED
    BY <1>2, <2>1 DEF Abandons, AnswerInv, Next, TaskStep
<1>3. CASE WorkerRuns
  <2>1. AnswerInv' /\ (\/ future' = future
                       \/ future = "pending" /\ future' \in {"ok"} \cup SinkFaults)
    BY <1>3, WorkerAnswers DEF WorkerRuns
  <2>2. UNCHANGED <<pc, around, records, attempt, timer, shutdown>>
    BY <1>3 DEF WorkerRuns
  <2>3. CASE future' = future
    BY <2>1, <2>2, <2>3 DEF vars, around, call
  <2>4. CASE future = "pending" /\ future' \in {"ok"} \cup SinkFaults
    BY <2>1, <2>2, <2>4 DEF Next, SinkAnswers
  <2>5. QED
    BY <2>1, <2>3, <2>4
<1>4. CASE Alone
  BY <1>4 DEF Alone, database, AnswerInv, Next, TaskStep
<1>5. CASE UNCHANGED forwarderVars
  BY <1>5 DEF forwarderVars, database, AnswerInv
<1>6. QED
  BY <1>1, <1>2, <1>3, <1>4, <1>5 DEF ForwarderNext

LEMMA AnswerAlways == ForwarderSpec => []AnswerInv
BY InitAnswer, NextImplements, PTL DEF ForwarderSpec

\* Run against the worker the task is the task of Pipeline: what is proved of
\* that one, with any sink, holds in this process.
THEOREM Composes == ForwarderSpec => ImplementsPipeline
<1>1. ForwarderInit => Init
  BY DEF ForwarderInit
<1>2. AnswerInv /\ [ForwarderNext]_forwarderVars => [Next]_vars
  BY NextImplements
<1>3. QED
  BY <1>1, <1>2, AnswerAlways, PTL DEF ForwarderSpec, Spec, ImplementsPipeline

-----------------------------------------------------------------------------
(* Type correctness of the worker's part, for the facts about sequences.    *)

ForwarderTypeOK ==
    /\ AnswerInv
    /\ queue \in Seq(W!Commands) /\ join \in W!JoinState
    /\ thread \in W!ThreadState /\ command \in W!Commands
    /\ connection \in BOOLEAN /\ txn \in Seq(Nat) /\ table \in Seq(Nat)

LEMMA NoCommands ==
    /\ <<>> \in Seq(Nat) /\ <<>> \in Seq(W!Commands)
    /\ [op |-> "Initialize", rows |-> <<>>] \in W!Commands
    /\ [op |-> "Shutdown", rows |-> <<>>] \in W!Commands
BY DEF W!Commands

LEMMA InitForwarderType == ForwarderInit => ForwarderTypeOK
BY NoCommands
   DEF ForwarderInit, W!DatabaseInit, ForwarderTypeOK, AnswerInv, W!JoinState,
       W!ThreadState, W!Executing

\* What a call sends has the type of a command.
LEMMA CallsType ==
    ASSUME ForwarderTypeOK, records \in Seq(Nat), NEW op, W!Call(op, records)
    PROVE  ForwarderTypeOK'
<1> USE NoCommands DEF ForwarderTypeOK, AnswerInv
<1>1. [op |-> "Write", rows |-> records] \in W!Commands
  BY DEF W!Commands
<1>2. \A c \in W!Commands : Append(queue, c) \in Seq(W!Commands)
  OBVIOUS
<1>3. CASE op = "Initialize" /\ W!Request(op, <<>>)
  BY <1>2, <1>3 DEF W!Request, W!worker, W!inside, W!store
<1>4. CASE op = "Write" /\ W!WriteBatch(records)
  BY <1>1, <1>2, <1>4 DEF W!WriteBatch, W!Request, W!database, W!worker, W!inside, W!store
<1>5. CASE op = "Shutdown" /\ W!Shutdown
  BY <1>2, <1>5 DEF W!Shutdown, W!SendShutdown, W!JoinState, W!worker, W!inside, W!store
<1>6. QED
  BY <1>3, <1>4, <1>5 DEF W!Call

\* A step of the thread keeps the types, in any state.
LEMMA WorkerType ==
    ASSUME ForwarderTypeOK, W!WorkerStep PROVE ForwarderTypeOK'
<1>1. AnswerInv'
  BY WorkerAnswers DEF ForwarderTypeOK
<1> USE <1>1, NoCommands
    DEF ForwarderTypeOK, W!JoinState, W!ThreadState, W!Executing, W!worker, W!inside, W!store
<1>2. CASE W!Receive
  <2>1. Head(queue) \in W!Commands /\ Tail(queue) \in Seq(W!Commands)
    BY <1>2 DEF W!Receive
  <2>2. QED
    BY <1>2, <2>1 DEF W!Receive, W!Unseen
<1>3. CASE W!Reuse \/ W!Open \/ W!OpenFails
  BY <1>3 DEF W!Reuse, W!Open, W!OpenFails, W!Connected, W!Goes, W!Unseen
<1>4. CASE W!Begin \/ W!Rollback
  BY <1>4 DEF W!Begin, W!Rollback, W!Goes, W!Unseen
<1>5. CASE W!Insert
  <2>1. PICK n \in 0 .. Len(command.rows) :
          txn' = SubSeq(command.rows, 1, n)
          /\ W!Goes(IF n = Len(command.rows) THEN "commit" ELSE "rollback")
    BY <1>5 DEF W!Insert
  <2>2. command.rows \in Seq(Nat)
    BY DEF W!Commands
  <2>3. txn' \in Seq(Nat)
    <3>1. n \in Int /\ \A i \in 1 .. n : command.rows[i] \in Nat
      BY <2>2
    <3>2. QED
      BY ONLY <2>1, <3>1, SubSeqProperties
  <2>4. QED
    BY <1>5, <2>1, <2>3 DEF W!Insert, W!Goes, W!Unseen
<1>6. CASE W!Commit
  <2>1. table \o txn \in Seq(Nat)
    OBVIOUS
  <2>2. QED
    BY <1>6, <2>1 DEF W!Commit, W!CommitWith, W!Goes, W!Unseen
<1>7. CASE W!Respond
  BY <1>7 DEF W!Respond, W!Dispose, W!Disconnect
<1>8. CASE W!Close
  BY <1>8 DEF W!Close, W!Disconnect, W!Unseen
<1>9. CASE W!Exit \/ W!Panic
  <2>1. PICK t \in {"exited", "panicked"} : W!Ends(t)
    BY <1>9 DEF W!Exit, W!Panic
  <2>2. QED
    BY <2>1 DEF W!Ends, W!Disconnect
<1>10. CASE W!Joined
  BY <1>10 DEF W!Joined
<1>11. QED
  BY <1>2, <1>3, <1>4, <1>5, <1>6, <1>7, <1>8, <1>9, <1>10 DEF W!WorkerStep

LEMMA NextForwarderType ==
    TypeOK /\ ForwarderTypeOK /\ [ForwarderNext]_forwarderVars => ForwarderTypeOK'
<1> SUFFICES ASSUME TypeOK, ForwarderTypeOK, [ForwarderNext]_forwarderVars
             PROVE  ForwarderTypeOK'
  OBVIOUS
<1>1. CASE CallsWorker
  BY <1>1, CallsType DEF CallsWorker, TypeOK
<1>2. CASE WorkerRuns
  BY <1>2, WorkerType DEF WorkerRuns
<1>3. CASE Abandons /\ W!LetGo
  BY <1>3 DEF W!LetGo, W!worker, W!inside, W!store, ForwarderTypeOK, AnswerInv, W!JoinState
<1>4. CASE UNCHANGED database
  BY <1>4 DEF database, ForwarderTypeOK, AnswerInv
<1>5. (Abandons => W!LetGo \/ UNCHANGED database) /\ (Alone => UNCHANGED database)
  BY DEF Abandons, Alone
<1>6. QED
  BY <1>1, <1>2, <1>3, <1>4, <1>5 DEF ForwarderNext, forwarderVars

LEMMA PipelineAlways ==
    ForwarderSpec => [](TypeOK /\ DeliveryInv /\ SizeInv /\ ShutdownInv)
BY Composes, TypeCorrect, DeliveryAlways, SizeAlways, ShutdownAlways, PTL
   DEF ImplementsPipeline

LEMMA ForwarderTypeAlways == ForwarderSpec => []ForwarderTypeOK
BY InitForwarderType, NextForwarderType, PipelineAlways, PTL DEF ForwarderSpec

-----------------------------------------------------------------------------
(* What the thread is doing fits the command it has received, and a thread    *)
(* that has ended holds nothing.                                              *)

CommandInv ==
    /\ thread \in {"begin", "insert", "rollback", "commit"} => command.op = "Write"
    /\ thread \in {"connect", "respond"} => command.op # "Shutdown"
    /\ thread \in {"close", "leave"} => command.op = "Shutdown"
    /\ thread = "commit" => txn = command.rows
    /\ ~W!Alive => ~connection /\ queue = <<>>

LEMMA InitCommand == ForwarderInit => CommandInv
BY DEF ForwarderInit, W!DatabaseInit, CommandInv, W!Alive

LEMMA WorkerCommand ==
    ASSUME ForwarderTypeOK, CommandInv, W!WorkerStep PROVE CommandInv'
<1> USE DEF CommandInv, W!Alive, W!worker, W!inside, W!store
<1>1. CASE W!Receive
  <2>1. command' \in W!Commands
    BY <1>1 DEF W!Receive, ForwarderTypeOK
  <2>2. QED
    BY <1>1, <2>1 DEF W!Receive, W!Unseen
<1>2. CASE W!Reuse \/ W!Open \/ W!OpenFails
  BY <1>2 DEF W!Reuse, W!Open, W!OpenFails, W!Connected, W!Goes, W!Unseen
<1>3. CASE W!Begin \/ W!Rollback
  BY <1>3 DEF W!Begin, W!Rollback, W!Goes, W!Unseen
<1>4. CASE W!Insert
  <2>1. SubSeq(command.rows, 1, Len(command.rows)) = command.rows
    BY DEF ForwarderTypeOK, W!Commands
  <2>2. QED
    BY <1>4, <2>1 DEF W!Insert, W!Goes, W!Unseen
<1>5. CASE W!Commit
  BY <1>5 DEF W!Commit, W!CommitWith, W!Goes, W!Unseen
<1>6. CASE W!Respond
  BY <1>6 DEF W!Respond, W!Dispose, W!Disconnect
<1>7. CASE W!Close
  BY <1>7 DEF W!Close, W!Disconnect, W!Unseen
<1>8. CASE W!Exit \/ W!Panic
  BY <1>8 DEF W!Exit, W!Panic, W!Ends, W!Disconnect, W!Executing
<1>9. CASE W!Joined
  BY <1>9 DEF W!Joined
<1>10. QED
  BY <1>1, <1>2, <1>3, <1>4, <1>5, <1>6, <1>7, <1>8, <1>9 DEF W!WorkerStep

LEMMA NextCommand ==
    ForwarderTypeOK /\ CommandInv /\ [ForwarderNext]_forwarderVars => CommandInv'
<1> SUFFICES ASSUME ForwarderTypeOK, CommandInv, [ForwarderNext]_forwarderVars
             PROVE  CommandInv'
  OBVIOUS
<1> USE DEF CommandInv, W!Alive, database, W!worker, W!inside, W!store
<1>1. CASE CallsWorker
  BY <1>1 DEF CallsWorker, W!Call, W!Request, W!WriteBatch, W!Shutdown, W!SendShutdown,
              W!database
<1>2. CASE WorkerRuns
  BY <1>2, WorkerCommand DEF WorkerRuns
<1>3. CASE Abandons
  BY <1>3 DEF Abandons, W!LetGo
<1>4. CASE Alone \/ UNCHANGED forwarderVars
  BY <1>4 DEF Alone, forwarderVars
<1>5. QED
  BY <1>1, <1>2, <1>3, <1>4 DEF ForwarderNext

LEMMA CommandAlways == ForwarderSpec => []CommandInv
BY InitCommand, NextCommand, ForwarderTypeAlways, PTL DEF ForwarderSpec

-----------------------------------------------------------------------------
(* The call in progress.  While the task forwards, the worker has the command *)
(* the task waits for and no other, and nothing at all when it waits for none; *)
(* only after an error can a command be there that nobody awaits.             *)

Busy == W!Executing \cup {"respond", "leave"}

Asked == [op |-> Operation, rows |-> IF pc \in FlushOps THEN records ELSE <<>>]

\* Where the command that the task waits for is.
Served ==
    \/ queue = <<Asked>> /\ thread = "receive"
    \/ queue = <<>> /\ command = Asked /\ thread \in Busy
    \/ queue = <<>> /\ ~W!Alive /\ pc = "close"

CallInv ==
    /\ pc \in {"start", "loop", "returned"} => future = "none"
    /\ pc \in Forwarding => IF future = "pending" THEN Served
                                                 ELSE queue = <<>> /\ thread \notin Busy
    /\ pc \in Forwarding \ {"close"} => join = "held"
    /\ pc = "close" => \/ future = "unpolled" /\ join = "held"
                       \/ future = "pending" /\ join = "taken"
                       \/ future = "ok" /\ ~W!Alive
                       \/ future \in SinkError
    /\ result = "Ok" => ~W!Alive

LEMMA InitCall == ForwarderInit => CallInv
BY DEF ForwarderInit, Init, W!DatabaseInit, CallInv, W!Alive, Busy, W!Executing, Forwarding

LEMMA OneCommand ==
    \A c \in W!Commands : Append(<<>>, c) = <<c>> /\ Head(<<c>>) = c /\ Tail(<<c>>) = <<>>
OBVIOUS

\* The task calls the worker: the command is sent to an idle thread, or answered
\* at once.
LEMMA CallsCall ==
    ASSUME TypeOK, ForwarderTypeOK, CommandInv, CallInv, CallsWorker
    PROVE  CallInv'
<1>1. /\ UNCHANGED <<pc, records, result>> /\ W!Call(Operation, records)
      /\ future \in {"unpolled", "sleeping"}
  BY DEF CallsWorker, CallSink, RetryNow, around
<1>2. pc \in {"initialize", "close", "cleanup"} \cup FlushOps
  BY <1>1 DEF TypeOK, Point, Forwarding, BoundedOps, RetriedOps, CallInv
<1>3. UNCHANGED thread
  BY <1>1 DEF W!Call, W!Request, W!WriteBatch, W!Shutdown, W!database, W!worker
<1>4. CASE pc \in {"initialize"} \cup FlushOps
  <2>1. queue = <<>> /\ thread \notin Busy /\ join = "held"
    BY <1>1, <1>4 DEF CallInv, Forwarding, BoundedOps, RetriedOps, FlushOps
  <2>2. Asked \in W!Commands /\ Asked' = Asked
    BY <1>1, <1>4 DEF Asked, Operation, FlushOps, W!Commands, TypeOK
  <2>3. \/ W!Request(Asked.op, Asked.rows)
        \/ future' = "ok" /\ UNCHANGED <<queue, join>>
    BY <1>1, <1>4 DEF W!Call, W!WriteBatch, Asked, Operation, FlushOps, W!database
  <2>4. CASE future' = "pending" /\ queue' = <<Asked>> /\ join' = join /\ W!Alive
    <3>1. thread' = "receive"
      BY <1>3, <2>1, <2>4 DEF ForwarderTypeOK, W!ThreadState, Busy, W!Alive
    <3>2. QED
      BY <1>1, <1>4, <2>1, <2>2, <2>4, <3>1
         DEF CallInv, Served, FlushOps, W!Alive
  <2>5. CASE future' # "pending" /\ UNCHANGED <<queue, join>>
    BY <1>1, <1>3, <1>4, <2>1, <2>5 DEF CallInv, FlushOps, W!Alive
  <2>6. W!Request(Asked.op, Asked.rows) =>
            \/ future' = "pending" /\ queue' = <<Asked>> /\ join' = join /\ W!Alive
            \/ future' # "pending" /\ UNCHANGED <<queue, join>>
    <3>1. Asked = [op |-> Asked.op, rows |-> Asked.rows]
      BY DEF Asked
    <3>2. QED
      BY <2>1, <2>2, <3>1, OneCommand DEF W!Request
  <2>7. QED
    BY <2>3, <2>4, <2>5, <2>6
<1>5. CASE pc = "close"
  <2>1. queue = <<>> /\ thread \notin Busy /\ join = "held"
    BY <1>1, <1>5 DEF CallInv, Forwarding, BoundedOps, SinkError
  <2>2. Asked = [op |-> "Shutdown", rows |-> <<>>] /\ Asked' = Asked
    BY <1>1, <1>5 DEF Asked, Operation, FlushOps
  <2>3. /\ future' = "pending" /\ join' = "taken"
        /\ queue' = IF W!Alive THEN <<Asked>> ELSE <<>>
    BY <1>1, <1>5, <2>1, <2>2, NoCommands, OneCommand
       DEF W!Call, Operation, FlushOps, W!Shutdown, W!SendShutdown
  <2>4. W!Alive => thread' = "receive"
    BY <1>3, <2>1 DEF ForwarderTypeOK, W!ThreadState, Busy, W!Alive
  <2>5. Served'
    BY <1>1, <1>3, <1>5, <2>2, <2>3, <2>4 DEF Served, W!Alive
  <2>6. QED
    BY <1>1, <1>3, <1>5, <2>3, <2>5 DEF CallInv, W!Alive
<1>6. CASE pc = "cleanup"
  BY <1>1, <1>3, <1>6 DEF CallInv, W!Alive, Forwarding, BoundedOps, RetriedOps, FlushOps
<1>7. QED
  BY <1>2, <1>4, <1>5, <1>6

\* The thread takes the command, executes it and answers it.
LEMMA WorkerCall ==
    ASSUME TypeOK, ForwarderTypeOK, CommandInv, CallInv, WorkerRuns
    PROVE  CallInv'
<1>1. UNCHANGED <<pc, records, result>> /\ W!WorkerStep
  BY DEF WorkerRuns, around
<1>2. Asked' = Asked
  BY <1>1 DEF Asked, Operation
<1> USE DEF CallInv, CommandInv, W!Alive, Busy, W!Executing
<1>3. CASE W!Receive
  <2>1. pc \in Forwarding => future = "pending" /\ queue = <<Asked>>
    BY <1>3 DEF W!Receive, Served
  <2>2. pc \in Forwarding => queue' = <<>> /\ command' = Asked /\ thread' \in Busy
    <3>1. pc \in Forwarding => Asked \in W!Commands
      BY <1>3, <2>1 DEF W!Receive, ForwarderTypeOK
    <3>2. QED
      BY <1>3, <2>1, <3>1, OneCommand DEF W!Receive
  <2>3. QED
    BY <1>1, <1>2, <1>3, <2>1, <2>2 DEF W!Receive, W!Unseen, Served
<1>4. CASE /\ UNCHANGED <<future, join, queue, command>>
           /\ thread \in Busy /\ thread' \in Busy
  BY <1>1, <1>2, <1>4 DEF Served
<1>5. ASSUME \/ W!Reuse \/ W!Open \/ W!OpenFails \/ W!Begin \/ W!Insert
             \/ W!Rollback \/ W!Commit \/ W!Close
      PROVE  /\ UNCHANGED <<future, join, queue, command>>
             /\ thread \in Busy /\ thread' \in Busy
  BY <1>5 DEF W!Reuse, W!Open, W!OpenFails, W!Connected, W!Begin, W!Insert, W!Rollback,
         W!Commit, W!CommitWith, W!Close, W!Goes, W!Unseen, W!inside
<1>6. CASE W!Respond
  <2>1. pc \in Forwarding => future = "pending" /\ queue = <<>> /\ command = Asked
    BY <1>6 DEF W!Respond, Served
  <2>2. pc # "close"
    BY <1>6, <2>1 DEF W!Respond, Asked, Operation, FlushOps, Forwarding, BoundedOps
  <2>3. pc \in Forwarding => future' = answer /\ queue' = <<>> /\ answer # "pending"
    BY <1>6, <2>1, PipelineAssumption
       DEF W!Respond, W!Awaited, ForwarderTypeOK, AnswerInv, SinkError
  <2>4. pc \notin Forwarding => pc \in {"cleanup", "returned"}
    BY DEF TypeOK, Point
  <2>5. future = "none" => future' = "none"
    BY <1>6 DEF W!Respond, W!Awaited
  <2>6. QED
    BY <1>1, <1>6, <2>1, <2>2, <2>3, <2>4, <2>5 DEF W!Respond
<1>7. CASE W!Exit \/ W!Panic
  <2>1. PICK t \in {"exited", "panicked"} : W!Ends(t)
    BY <1>7 DEF W!Exit, W!Panic
  <2>2. thread \in Busy
    BY <1>7 DEF W!Exit, W!Panic
  <2>3. pc \in Forwarding => future = "pending"
    BY <2>2
  <2>4. pc \in Forwarding \ {"close"} => future' = "WorkerUnavailable"
    BY <2>1, <2>3 DEF W!Ends
  <2>5. pc = "close" => future' = "pending" /\ join' = "taken"
    BY <2>1, <2>3 DEF W!Ends, Forwarding, BoundedOps, SinkError
  <2>6. Served' \/ pc # "close"
    BY <1>1, <2>1 DEF W!Ends, Served
  <2>7. QED
    BY <1>1, <2>1, <2>2, <2>3, <2>4, <2>5, <2>6 DEF W!Ends
<1>8. CASE W!Joined
  <2>1. pc \notin Forwarding \ {"close"}
    BY <1>8 DEF W!Joined
  <2>2. QED
    BY <1>1, <1>8, <2>1 DEF W!Joined, W!worker, SinkError
<1>9. QED
  BY <1>1, <1>3, <1>4, <1>5, <1>6, <1>7, <1>8 DEF W!WorkerStep

\* Steps that neither await something else nor answer the call.
LEMMA QuietCall ==
    ASSUME CallInv, UNCHANGED <<pc, future, records, result, database>> PROVE CallInv'
<1>1. UNCHANGED <<queue, join, thread, command>>
  BY DEF database
<1>2. Served' = Served
  BY <1>1 DEF Served, Asked, Operation, W!Alive
<1>3. QED
  BY <1>1, <1>2 DEF CallInv, W!Alive

\* After an error the worker may have any command.
LEMMA FailCall ==
    ASSUME NEW error \in {"Sink", "Source", "ShutdownTimeout"}, Fail(error)
    PROVE  CallInv'
BY DEF Fail, CallInv, Forwarding, BoundedOps, RetriedOps, FlushOps

\* The steps of the task and of the world around it, with an idle worker or one
\* that is not concerned.
LEMMA AloneCall ==
    ASSUME TypeOK, DeliveryInv, CallInv, Alone PROVE CallInv'
<1> USE DEF around, call
<1>1. UNCHANGED <<queue, join, thread, command, connection>> /\ UNCHANGED database
  BY DEF Alone, database
<1>2. CASE \/ ShutdownRequested \/ BoundShutdown \/ Signal \/ Tick
           \/ BufferRecord \/ SkipParseError \/ Terminated
  BY <1>1, <1>2, QuietCall
     DEF ShutdownRequested, BoundShutdown, PollShutdown, Signal, Tick, BufferRecord,
         SkipParseError, Terminated, vars
<1>3. CASE RejectSettings \/ OpFails \/ SourceFlushDone
  BY <1>3, FailCall DEF RejectSettings, OpFails, SourceFlushDone
<1>4. CASE pc = "loop" /\ \E op \in FlushOps : \E b : FlushBuffer(op, b)
  <2>1. PICK op \in FlushOps : \E b : FlushBuffer(op, b)
    BY <1>4
  <2>2. queue = <<>> /\ thread \notin Busy /\ join = "held"
    BY <1>4 DEF CallInv, Forwarding, BoundedOps
  <2>3. pc' = op /\ future' \in {"ok", "unpolled"} /\ result' # "Ok"
    BY <1>4, <2>1 DEF FlushBuffer, DeliveryInv
  <2>4. QED
    BY <1>1, <2>2, <2>3 DEF CallInv, FlushOps
<1>5. CASE StartInitialize
  BY <1>1, <1>5 DEF StartInitialize, CallInv, DeliveryInv, Forwarding, BoundedOps,
                    RetriedOps, FlushOps
<1>6. CASE InitializeDone \/ FlushDone \/ FinalFlushDone
  <2>1. /\ pc \in Forwarding \ {"close"} /\ future # "pending"
        /\ result' # "Ok"
    BY <1>6 DEF InitializeDone, FlushDone, FinalFlushDone, Acknowledge, DeliveryInv,
                Forwarding, BoundedOps, RetriedOps, FlushOps
  <2>2. queue = <<>> /\ thread \notin Busy /\ join = "held"
    BY <2>1 DEF CallInv
  <2>3. <<pc', future'>> \in {<<"loop", "none">>, <<"close", "unpolled">>}
    BY <1>6 DEF InitializeDone, FlushDone, FinalFlushDone
  <2>4. QED
    BY <1>1, <2>1, <2>2, <2>3 DEF CallInv
<1>7. CASE RetryLater
  <2>1. pc \in RetriedOps /\ future \in SinkError /\ future' = "sleeping"
    BY <1>7 DEF RetryLater, Retries
  <2>2. UNCHANGED <<pc, records, result>>
    BY <1>7 DEF RetryLater
  <2>3. queue = <<>> /\ thread \notin Busy /\ join = "held" /\ pc # "close"
    BY <2>1 DEF CallInv, Forwarding, BoundedOps, RetriedOps, FlushOps, SinkError
  <2>4. QED
    BY <1>1, <2>1, <2>2, <2>3 DEF CallInv, W!Alive, RetriedOps, FlushOps
<1>8. CASE Closed
  <2>1. ~W!Alive
    BY <1>8 DEF Closed, CallInv, Forwarding, BoundedOps, SinkError
  <2>2. QED
    BY <1>1, <1>8, <2>1 DEF Closed, CallInv, W!Alive, Forwarding, BoundedOps, RetriedOps,
                           FlushOps
<1>9. ASSUME FinishRequested \/ LatencyExpired \/ SourceEnds \/ SourceFails \/ FillBatch
      PROVE  pc = "loop" /\ \E op \in FlushOps : \E b : FlushBuffer(op, b)
  BY <1>9 DEF FinishRequested, LatencyExpired, SourceEnds, SourceFails, Finish, FlushNow,
              FillBatch, ReadRecord, ReadItem, Selecting, FlushOps
<1>10. QED
  BY <1>2, <1>3, <1>4, <1>5, <1>6, <1>7, <1>8, <1>9 DEF Alone, TaskAlone, SourceStep

LEMMA NextCall ==
    TypeOK /\ DeliveryInv /\ ForwarderTypeOK /\ CommandInv /\ CallInv
        /\ [ForwarderNext]_forwarderVars => CallInv'
<1> SUFFICES ASSUME TypeOK, DeliveryInv, ForwarderTypeOK, CommandInv, CallInv,
                    [ForwarderNext]_forwarderVars
             PROVE  CallInv'
  OBVIOUS
<1>1. CASE Abandons /\ TimesOut
  BY <1>1, FailCall DEF TimesOut
<1>2. CASE Abandons /\ CleanupDone
  <2>1. pc' = "returned" /\ future' = "none" /\ UNCHANGED <<result, thread>>
    BY <1>2 DEF Abandons, CleanupDone, around, W!LetGo, W!worker, database
  <2>2. QED
    BY <2>1 DEF CallInv, W!Alive, Forwarding, BoundedOps, RetriedOps, FlushOps
<1>3. CASE UNCHANGED forwarderVars
  BY <1>3, QuietCall DEF forwarderVars, vars, call
<1>4. QED
  BY <1>1, <1>2, <1>3, CallsCall, WorkerCall, AloneCall DEF ForwarderNext, Abandons

LEMMA CallAlways == ForwarderSpec => []CallInv
BY InitCall, NextCall, PipelineAlways, ForwarderTypeAlways, CommandAlways, PTL
   DEF ForwarderSpec

-----------------------------------------------------------------------------
(* The table.  It holds what was acknowledged, or that and the one batch whose *)
(* write is in progress; a write that is still to be committed adds exactly    *)
(* what is missing, and there is never a second one.                           *)

Writing == {"connect", "begin", "insert", "rollback", "commit"}

Uncommitted(rows) == table = acknowledged /\ received = acknowledged \o rows

WriteInv ==
    /\ \A i \in 1 .. Len(queue) : queue[i].op = "Write" =>
          i = 1 /\ thread = "receive" /\ Uncommitted(queue[i].rows)
    /\ command.op = "Write" /\ thread \in Writing => Uncommitted(command.rows)
    /\ command.op = "Write" /\ thread = "respond" =>
          /\ answer = "ok" => table = received
          /\ IsRetryable(answer) => table = acknowledged

\* Between two writes nothing is missing from the table; in a flush the answer
\* tells whether the batch is there, unless it is an error of unknown outcome.
TableInv ==
    /\ table \in {acknowledged, received}
    /\ pc \in Forwarding \ FlushOps => table = acknowledged
    /\ pc \in FlushOps =>
          /\ future = "ok" => table = received
          /\ future \in {"unpolled", "sleeping"} \/ IsRetryable(future) => table = acknowledged
    /\ result = "Ok" => table = received

StoreInv == WriteInv /\ TableInv

LEMMA InitStore == ForwarderInit => StoreInv
BY DEF ForwarderInit, Init, W!DatabaseInit, StoreInv, WriteInv, TableInv, Writing,
       Forwarding, BoundedOps, RetriedOps, FlushOps

\* An idle worker has no write.
LEMMA IdleWrites ==
    ASSUME queue' = <<>>, thread' \notin Busy PROVE WriteInv'
BY DEF WriteInv, Writing, Busy, W!Executing

\* Steps of which the writes and the table know nothing.
LEMMA QuietWrites ==
    ASSUME WriteInv, UNCHANGED <<database, acknowledged, received>> PROVE WriteInv'
BY DEF WriteInv, Uncommitted, database

\* The task awaits no answer: no write is anywhere.
LEMMA IdleTask ==
    ASSUME CallInv, pc \in Forwarding, future # "pending", UNCHANGED <<queue, thread>>
    PROVE  WriteInv'
BY IdleWrites DEF CallInv

LEMMA FailStore ==
    ASSUME StoreInv, NEW error \in {"Sink", "Source", "ShutdownTimeout"}, Fail(error),
           WriteInv', table' \in {acknowledged', received'}
    PROVE  StoreInv'
BY DEF Fail, StoreInv, TableInv, Forwarding, BoundedOps, RetriedOps, FlushOps

\* A flush starts with a table that holds all but the batch b.
LEMMA FlushStore ==
    ASSUME TypeOK, DeliveryInv, CallInv, StoreInv, pc = "loop",
           UNCHANGED <<queue, thread, table>>,
           NEW op \in FlushOps, NEW b \in Seq(Nat),
           FlushBuffer(op, b), received' = acknowledged \o b
    PROVE  StoreInv'
<1>1. table = acknowledged /\ result # "Ok"
  BY DEF StoreInv, TableInv, DeliveryInv, Forwarding, BoundedOps, RetriedOps, FlushOps
<1>2. /\ pc' = op /\ UNCHANGED <<result, acknowledged>>
      /\ future' = IF b = <<>> THEN "ok" ELSE "unpolled"
  BY DEF FlushBuffer, history
<1>3. b = <<>> => received' = acknowledged
  BY ConcatEmpty DEF TypeOK
<1>4. WriteInv'
  BY IdleTask DEF CallInv, Forwarding
<1>5. QED
  BY <1>1, <1>2, <1>3, <1>4
     DEF StoreInv, TableInv, IsRetryable, Forwarding, BoundedOps, RetriedOps, FlushOps

\* When the write of a batch returned Ok, the batch is in the table.
LEMMA AcknowledgeStore ==
    ASSUME TypeOK, DeliveryInv, CallInv, StoreInv, pc \in FlushOps, Acknowledge,
           UNCHANGED <<received, queue, thread, table>>
    PROVE  /\ WriteInv'
           /\ table' = acknowledged' /\ table' = received' /\ result # "Ok"
<1>1. acknowledged' = received' /\ result # "Ok"
  BY AcknowledgedDelivery
<1>2. table = received /\ pc \in Forwarding /\ future # "pending"
  BY DEF Acknowledge, StoreInv, TableInv, Forwarding, BoundedOps, RetriedOps
<1>3. QED
  BY <1>1, <1>2, IdleTask

LEMMA AloneStore ==
    ASSUME TypeOK, TypeOK', DeliveryInv, CallInv, StoreInv, Alone
    PROVE  StoreInv'
<1> USE DEF around, call, buffer, source, history
<1>1. UNCHANGED database /\ UNCHANGED <<queue, thread, table>>
  BY DEF Alone, database
<1>2. CASE \/ ShutdownRequested \/ BoundShutdown \/ Signal \/ Tick
           \/ SkipParseError \/ Terminated
  <2>1. UNCHANGED <<pc, future, acknowledged, received, result>>
    BY <1>2 DEF ShutdownRequested, BoundShutdown, PollShutdown, Signal, Tick,
                SkipParseError, Terminated, vars
  <2>2. QED
    BY <1>1, <2>1, QuietWrites DEF StoreInv, TableInv
<1>3. CASE RejectSettings \/ OpFails \/ (SourceFlushDone /\ UNCHANGED acknowledged)
  <2>1. PICK error \in {"Sink", "Source", "ShutdownTimeout"} : Fail(error)
    BY <1>3 DEF RejectSettings, OpFails, SourceFlushDone
  <2>2. UNCHANGED <<acknowledged, received>>
    BY <1>3, <2>1 DEF RejectSettings, OpFails, Fail
  <2>3. QED
    BY <1>1, <2>1, <2>2, QuietWrites, FailStore DEF StoreInv, TableInv
<1>4. CASE SourceFlushDone /\ Acknowledge
  <2>1. pc \in FlushOps /\ Fail("Source") /\ received' = received
    BY <1>4 DEF SourceFlushDone, Fail, FlushOps
  <2>2. QED
    BY <1>1, <1>4, <2>1, AcknowledgeStore, FailStore
<1>5. CASE FlushDone \/ FinalFlushDone
  <2>1. /\ pc \in FlushOps /\ Acknowledge /\ UNCHANGED <<received, result>>
        /\ pc' \in {"loop", "close"}
    BY <1>5 DEF FlushDone, FinalFlushDone, FlushOps
  <2>2. QED
    BY <1>1, <2>1, AcknowledgeStore DEF StoreInv, TableInv, FlushOps
<1>6. CASE pc = "loop" /\ \E op \in FlushOps : FlushNow(op)
  <2>1. PICK op \in FlushOps : FlushNow(op)
    BY <1>6
  <2>2. batch \in Seq(Nat) /\ received' = acknowledged \o batch
    BY <1>6, <2>1, LoopDelivery DEF FlushNow, TypeOK
  <2>3. QED
    BY <1>1, <1>6, <2>1, <2>2, FlushStore DEF FlushNow
<1>7. CASE FillBatch
  <2>1. pc = "loop" /\ received = acknowledged \o batch
    BY <1>7, LoopDelivery DEF FillBatch, ReadRecord, ReadItem, Selecting
  <2>2. itemsRead' \in Nat /\ acknowledged \in Seq(Nat) /\ batch \in Seq(Nat)
    BY DEF TypeOK
  <2>3. received' = acknowledged \o Append(batch, itemsRead')
    BY <1>7, <2>1, <2>2, ConcatAppend DEF FillBatch, ReadRecord
  <2>4. Append(batch, itemsRead') \in Seq(Nat) /\ "flush" \in FlushOps
    BY <2>2 DEF FlushOps
  <2>5. QED
    BY <1>1, <1>7, <2>1, <2>3, <2>4, FlushStore DEF FillBatch
<1>8. CASE BufferRecord
  <2>1. pc = "loop" /\ UNCHANGED <<pc, future, acknowledged, result>>
    BY <1>8 DEF BufferRecord, ReadRecord, ReadItem, Selecting
  <2>2. WriteInv'
    BY <1>1, <2>1, IdleTask DEF CallInv, Forwarding
  <2>3. QED
    BY <1>1, <2>1, <2>2 DEF StoreInv, TableInv, DeliveryInv, Forwarding, BoundedOps,
                            RetriedOps, FlushOps
<1>9. CASE StartInitialize \/ InitializeDone
  <2>1. /\ pc \in {"start", "initialize"} /\ pc' \in {"initialize", "loop"}
        /\ UNCHANGED <<acknowledged, received, result>>
    BY <1>9 DEF StartInitialize, InitializeDone
  <2>2. QED
    BY <1>1, <2>1, QuietWrites DEF StoreInv, TableInv, Forwarding, BoundedOps,
                                   RetriedOps, FlushOps
<1>10. CASE RetryLater
  <2>1. /\ pc \in RetriedOps /\ IsRetryable(future) /\ future' = "sleeping"
        /\ UNCHANGED <<pc, acknowledged, received, result>>
    BY <1>10 DEF RetryLater, Retries
  <2>2. QED
    BY <1>1, <2>1, QuietWrites DEF StoreInv, TableInv, Forwarding, BoundedOps,
                                   RetriedOps, FlushOps
<1>11. CASE Closed
  <2>1. /\ pc = "close" /\ pc' = "returned"
        /\ UNCHANGED <<acknowledged, received>>
    BY <1>11 DEF Closed
  <2>2. received = acknowledged \o <<>> \o <<>> /\ table = acknowledged
    BY <2>1 DEF DeliveryInv, NothingForgotten, StoreInv, TableInv, Forwarding, BoundedOps,
                RetriedOps, FlushOps
  <2>3. table = received
    BY <2>2, ConcatEmpty DEF TypeOK
  <2>4. QED
    BY <1>1, <2>1, <2>3, QuietWrites DEF StoreInv, TableInv, Forwarding, BoundedOps,
                                         RetriedOps, FlushOps
<1>12. ASSUME FinishRequested \/ LatencyExpired \/ SourceEnds \/ SourceFails
       PROVE  pc = "loop" /\ \E op \in FlushOps : FlushNow(op)
  BY <1>12 DEF FinishRequested, LatencyExpired, SourceEnds, SourceFails, Finish, Selecting,
               FlushOps
<1>13. SourceFlushDone => Acknowledge \/ UNCHANGED acknowledged
  BY DEF SourceFlushDone
<1>14. QED
  BY <1>2, <1>3, <1>4, <1>5, <1>6, <1>7, <1>8, <1>9, <1>10, <1>11, <1>12, <1>13
     DEF Alone, TaskAlone, SourceStep

\* A write is sent with all that the table is short of, to an idle worker.
LEMMA CallsStore ==
    ASSUME TypeOK, DeliveryInv, ForwarderTypeOK, CommandInv, CallInv, StoreInv, CallsWorker
    PROVE  StoreInv'
<1>1. /\ UNCHANGED <<pc, records, acknowledged, received, result>>
      /\ future \in {"unpolled", "sleeping"} /\ W!Call(Operation, records)
  BY DEF CallsWorker, CallSink, RetryNow, around, source, history
<1>2. UNCHANGED <<thread, command, answer, table>>
  BY <1>1 DEF W!Call, W!Request, W!WriteBatch, W!Shutdown, W!database, W!worker, W!inside,
              W!store
<1>3. CASE pc \in FlushOps
  <2>1. pc \in Forwarding /\ batch = <<>> /\ result # "Ok" /\ table = acknowledged
    BY <1>1, <1>3 DEF DeliveryInv, StoreInv, TableInv, Forwarding, BoundedOps, RetriedOps,
                      FlushOps
  <2>2. received = acknowledged \o records
    <3>1. received = acknowledged \o records \o <<>> /\ acknowledged \o records \in Seq(Nat)
      BY <2>1, ConcatProperties DEF DeliveryInv, NothingForgotten, TypeOK
    <3>2. QED
      BY <3>1, ConcatEmpty
  <2>3. queue = <<>> /\ thread \notin Busy
    BY <1>1, <2>1 DEF CallInv
  <2>4. W!WriteBatch(records)
    BY <1>1, <1>3 DEF Operation, W!Call, FlushOps
  <2>5. CASE records = <<>>
    <3>1. future' = "ok" /\ queue' = <<>>
      BY <2>3, <2>4, <2>5 DEF W!WriteBatch, W!database
    <3>2. table = received
      BY <2>1, <2>2, <2>5, ConcatEmpty DEF TypeOK
    <3>3. WriteInv'
      BY <1>2, <2>3, <3>1, IdleWrites
    <3>4. QED
      BY <1>1, <1>2, <2>1, <3>1, <3>2, <3>3 DEF StoreInv, TableInv, IsRetryable
  <2>6. CASE records # <<>>
    <3> DEFINE write == [op |-> "Write", rows |-> records]
    <3>1. write \in W!Commands
      BY DEF W!Commands, TypeOK
    <3>2. \/ W!Alive /\ queue' = <<write>> /\ future' = "pending"
          \/ queue' = <<>> /\ future' = "WorkerUnavailable"
      BY <2>3, <2>4, <2>6, <3>1, OneCommand DEF W!WriteBatch, W!Request
    <3>3. W!Alive => thread = "receive"
      BY <2>3 DEF ForwarderTypeOK, W!ThreadState, Busy, W!Alive
    <3>4. WriteInv'
      <4>1. CASE queue' = <<>>
        BY <1>2, <2>3, <4>1, IdleWrites
      <4>2. CASE W!Alive /\ queue' = <<write>>
        <5>1. thread' = "receive" /\ Uncommitted(records)'
          BY <1>1, <1>2, <2>1, <2>2, <3>3, <4>2 DEF Uncommitted
        <5>2. \A i \in 1 .. Len(queue') : i = 1 /\ queue'[i].rows = records'
          BY <1>1, <4>2
        <5>3. QED
          BY <5>1, <5>2 DEF WriteInv, Writing, Uncommitted
      <4>3. QED
        BY <3>2, <4>1, <4>2
    <3>5. QED
      BY <1>1, <1>2, <2>1, <3>2, <3>4 DEF StoreInv, TableInv, IsRetryable
  <2>7. QED
    BY <2>5, <2>6
<1>4. CASE pc \notin FlushOps
  <2>1. pc \in {"initialize", "close", "cleanup"}
    BY <1>1, <1>4 DEF TypeOK, Point, Forwarding, BoundedOps, RetriedOps, CallInv
  <2>2. \/ queue' = queue
        \/ queue' = Append(queue, [op |-> "Initialize", rows |-> <<>>])
        \/ queue' = Append(queue, [op |-> "Shutdown", rows |-> <<>>])
    BY <1>1, <2>1 DEF Operation, FlushOps, W!Call, W!Request, W!Shutdown, W!SendShutdown
  <2>3. \A i \in 1 .. Len(queue') :
          queue'[i].op = "Write" => i \in 1 .. Len(queue) /\ queue'[i] = queue[i]
    <3>1. \A c \in W!Commands : \A i \in 1 .. Len(Append(queue, c)) :
            Append(queue, c)[i] = IF i \in 1 .. Len(queue) THEN queue[i] ELSE c
      BY DEF ForwarderTypeOK
    <3>2. CASE queue' = queue
      BY <3>2
    <3>3. ASSUME NEW c \in W!Commands, c.op # "Write", queue' = Append(queue, c)
          PROVE  \A i \in 1 .. Len(queue') :
                   queue'[i].op = "Write" => i \in 1 .. Len(queue) /\ queue'[i] = queue[i]
      BY <3>1, <3>3, Zenon
    <3>4. QED
      BY <2>2, <3>2, <3>3, NoCommands
  <2>4. WriteInv'
    BY <1>1, <1>2, <2>3 DEF StoreInv, WriteInv, Uncommitted
  <2>5. QED
    BY <1>1, <1>2, <1>4, <2>4 DEF StoreInv, TableInv
<1>5. QED
  BY <1>3, <1>4

\* Inside the execution of a command, what is in the table changes only with the
\* COMMIT of a write, which adds what is missing.
LEMMA WorkerStore ==
    ASSUME ~InMemory, TypeOK, ForwarderTypeOK, CommandInv, CallInv, StoreInv, WorkerRuns
    PROVE  StoreInv'
<1>1. UNCHANGED <<pc, records, acknowledged, received, result>> /\ W!WorkerStep
  BY DEF WorkerRuns, around, source, history
<1> USE DEF CommandInv, W!Alive, Busy, W!Executing, Writing, W!worker, W!inside, W!store
<1>2. CASE W!Receive
  <2>1. \A i \in 1 .. Len(queue') : i + 1 \in 1 .. Len(queue) /\ queue'[i] = queue[i + 1]
    BY <1>2 DEF W!Receive, ForwarderTypeOK
  <2>2. \A i \in 1 .. Len(queue') : queue'[i].op # "Write"
    BY <2>1 DEF StoreInv, WriteInv
  <2>3. 1 \in 1 .. Len(queue) /\ command' = queue[1]
    BY <1>2 DEF W!Receive, ForwarderTypeOK
  <2>4. command'.op = "Write" => Uncommitted(command'.rows)
    BY <2>3 DEF StoreInv, WriteInv
  <2>5. UNCHANGED <<table, future>> /\ thread' \in {"close", "connect"}
    BY <1>2 DEF W!Receive, W!Unseen
  <2>6. WriteInv'
    BY <1>1, <2>2, <2>4, <2>5 DEF WriteInv, Uncommitted
  <2>7. QED
    BY <1>1, <2>5, <2>6 DEF StoreInv, TableInv
<1>3. CASE W!Reuse \/ W!Open \/ W!OpenFails \/ W!Begin \/ W!Insert \/ W!Rollback
  <2>1. /\ UNCHANGED <<queue, command, future, table>>
        /\ thread \in Writing /\ thread' \in Writing \cup {"respond"}
    BY <1>3 DEF W!Reuse, W!Open, W!OpenFails, W!Connected, W!Begin, W!Insert, W!Rollback,
                W!Goes, W!Unseen
  <2>2. command.op = "Write" /\ thread' = "respond" => answer' # "ok"
    BY <1>3, ForwarderAssumption, PipelineAssumption
       DEF W!Reuse, W!Open, W!OpenFails, W!Connected, W!Begin, W!Insert, W!Rollback,
           W!Goes, SinkError
  <2>3. WriteInv'
    BY <1>1, <2>1, <2>2 DEF StoreInv, WriteInv, Uncommitted
  <2>4. QED
    BY <1>1, <2>1, <2>3 DEF StoreInv, TableInv
<1>4. CASE W!Commit
  <2>1. command.op = "Write" /\ txn = command.rows /\ thread = "commit"
    BY <1>4 DEF W!Commit, W!CommitWith
  <2>2. table = acknowledged /\ table \o txn = received
    BY <2>1 DEF StoreInv, WriteInv, Uncommitted
  <2>3. /\ UNCHANGED <<queue, command, future>> /\ thread' = "respond"
        /\ table' \in {acknowledged, received}
        /\ \/ answer' = "ok" /\ table' = received
           \/ answer' = "TransactionOutcomeUnknown"
    BY <1>4, <2>2 DEF W!Commit, W!CommitWith, W!Goes, W!Unseen
  <2>4. WriteInv'
    BY <1>1, <2>1, <2>3 DEF StoreInv, WriteInv, IsRetryable
  <2>5. result # "Ok"
    BY <2>1 DEF CallInv
  <2>6. pc \in Forwarding => pc \in FlushOps /\ future = "pending"
    BY <2>1 DEF CallInv, Served, Asked, Operation, Forwarding, BoundedOps, RetriedOps, FlushOps
  <2>7. QED
    BY <1>1, <2>3, <2>4, <2>5, <2>6
       DEF StoreInv, TableInv, IsRetryable, Forwarding, BoundedOps, RetriedOps, FlushOps
<1>5. CASE W!Respond
  <2>1. /\ UNCHANGED <<queue, command, answer, table>> /\ thread' = "receive"
        /\ future' \in {future, answer}
    BY <1>5 DEF W!Respond, W!Dispose, W!Disconnect
  <2>2. WriteInv'
    BY <1>1, <1>5, <2>1 DEF StoreInv, WriteInv, Uncommitted, W!Respond
  <2>3. CASE future' = future
    BY <1>1, <2>1, <2>2, <2>3 DEF StoreInv, TableInv
  <2>4. CASE pc \notin FlushOps
    BY <1>1, <2>1, <2>2, <2>4 DEF StoreInv, TableInv
  <2>5. CASE pc \in FlushOps /\ future' # future
    <3>1. future = "pending" /\ queue = <<>> /\ future' = answer /\ pc \in Forwarding
      BY <1>5, <2>5 DEF W!Respond, W!Awaited, Forwarding, BoundedOps, RetriedOps
    <3>2. command.op = "Write"
      BY <1>5, <2>5, <3>1 DEF W!Respond, CallInv, Served, Asked, Operation, FlushOps
    <3>3. /\ answer = "ok" => table = received
          /\ IsRetryable(answer) => table = acknowledged
      BY <1>5, <3>2 DEF W!Respond, StoreInv, WriteInv
    <3>4. answer \notin {"unpolled", "sleeping"}
      BY PipelineAssumption DEF ForwarderTypeOK, AnswerInv, SinkError
    <3>5. QED
      BY <1>1, <2>1, <2>2, <2>5, <3>1, <3>3, <3>4 DEF StoreInv, TableInv
  <2>6. QED
    BY <2>3, <2>4, <2>5
<1>6. CASE W!Close
  <2>1. UNCHANGED <<queue, command, future, table>> /\ thread' = "leave" /\ thread = "close"
    BY <1>6 DEF W!Close, W!Disconnect, W!Unseen
  <2>2. WriteInv'
    BY <1>1, <2>1 DEF StoreInv, WriteInv
  <2>3. QED
    BY <1>1, <2>1, <2>2 DEF StoreInv, TableInv
<1>7. CASE W!Exit \/ W!Panic
  <2>1. PICK t \in {"exited", "panicked"} : W!Ends(t)
    BY <1>7 DEF W!Exit, W!Panic
  <2>2. /\ queue' = <<>> /\ thread' = t /\ table' = table
        /\ future' \in {future, "WorkerUnavailable"}
    BY <2>1 DEF W!Ends, W!Disconnect
  <2>3. WriteInv'
    BY <2>2, IdleWrites
  <2>4. QED
    BY <1>1, <2>2, <2>3 DEF StoreInv, TableInv, IsRetryable
<1>8. CASE W!Joined
  <2>1. UNCHANGED <<queue, thread, command, answer, table>>
    BY <1>8 DEF W!Joined
  <2>2. WriteInv'
    BY <1>1, <2>1 DEF StoreInv, WriteInv, Uncommitted
  <2>3. pc \notin FlushOps
    BY <1>8 DEF W!Joined, CallInv, Forwarding, BoundedOps, RetriedOps, FlushOps
  <2>4. QED
    BY <1>1, <2>1, <2>2, <2>3 DEF StoreInv, TableInv
<1>9. QED
  BY <1>1, <1>2, <1>3, <1>4, <1>5, <1>6, <1>7, <1>8 DEF W!WorkerStep

LEMMA NextStore ==
    ASSUME ~InMemory, TypeOK, TypeOK', DeliveryInv, ForwarderTypeOK, CommandInv, CallInv,
           StoreInv, [ForwarderNext]_forwarderVars
    PROVE  StoreInv'
<1>1. CASE Abandons
  <2>1. UNCHANGED <<queue, thread, command, answer, table, acknowledged, received>>
    BY <1>1 DEF Abandons, TimesOut, Fail, CleanupDone, around, source, history, W!LetGo,
                W!worker, W!inside, W!store, database
  <2>2. WriteInv'
    BY <2>1 DEF StoreInv, WriteInv, Uncommitted
  <2>3. pc' \in {"cleanup", "returned"} /\ (result' = "Ok" => result = "Ok")
    BY <1>1 DEF Abandons, TimesOut, Fail, CleanupDone, around
  <2>4. QED
    BY <2>1, <2>2, <2>3 DEF StoreInv, TableInv, Forwarding, BoundedOps, RetriedOps, FlushOps
<1>2. CASE UNCHANGED forwarderVars
  <2>1. UNCHANGED <<database, table, acknowledged, received, pc, future, result>>
    BY <1>2 DEF forwarderVars, database, vars, call, source, history
  <2>2. QED
    BY <2>1, QuietWrites DEF StoreInv, TableInv
<1>3. QED
  BY <1>1, <1>2, CallsStore, WorkerStore, AloneStore DEF ForwarderNext

LEMMA StoreAlways ==
    ASSUME ~InMemory PROVE ForwarderSpec => []StoreInv
<1>1. ForwarderInit => StoreInv
  BY InitStore
<1>2. TypeOK /\ TypeOK' /\ DeliveryInv /\ ForwarderTypeOK /\ CommandInv /\ CallInv
          /\ StoreInv /\ [ForwarderNext]_forwarderVars => StoreInv'
  BY NextStore
<1>3. QED
  BY <1>1, <1>2, PipelineAlways, ForwarderTypeAlways, CommandAlways, CallAlways, PTL
     DEF ForwarderSpec

\* With a database in a file the table holds an initial part of what was read, in
\* every state: over failed connections, rollbacks, a COMMIT of unknown outcome,
\* retries, abandoned writes and a panicking thread.
THEOREM StoresInOrder ==
    ASSUME ~InMemory PROVE ForwarderSpec => []TableInOrder
<1>1. TypeOK /\ DeliveryInv /\ StoreInv => TableInOrder
  BY PrefixOfSelf DEF TypeOK, DeliveryInv, AcknowledgedInOrder, StoreInv, TableInv, TableInOrder
<1>2. QED
  BY <1>1, PipelineAlways, StoreAlways, PTL

\* What the sink acknowledged to the task is in the table, at any moment at which
\* the process may be stopped.
THEOREM StoresAcknowledged ==
    ASSUME ~InMemory PROVE ForwarderSpec => []AcknowledgedStored
<1>1. TypeOK /\ DeliveryInv /\ StoreInv => AcknowledgedStored
  BY PrefixOfSelf DEF TypeOK, DeliveryInv, AcknowledgedInOrder, StoreInv, TableInv,
                      AcknowledgedStored
<1>2. QED
  BY <1>1, PipelineAlways, StoreAlways, PTL

\* Exit code 0: the table holds all that was read, and the connection is closed.
THEOREM OkStores ==
    ASSUME ~InMemory PROVE ForwarderSpec => []OkMeansStored
<1>1. CommandInv /\ CallInv /\ StoreInv => OkMeansStored
  BY DEF CommandInv, CallInv, StoreInv, TableInv, OkMeansStored
<1>2. QED
  BY <1>1, CommandAlways, CallAlways, StoreAlways, PTL

-----------------------------------------------------------------------------
(* The abstract specification, with the rows of the table for what is stored. *)
(* A read maps to Read, a COMMIT that takes effect to Store, the end of the   *)
(* task to Succeed or Fail, and an acknowledgement to a stutter: the rows     *)
(* have been in the table since the COMMIT.                                   *)

LEMMA InitTable == ForwarderInit => ForwarderPromise!Init
BY PipelineAssumption
   DEF ForwarderInit, Init, W!DatabaseInit, ForwarderPromise!Init, Outcome

\* A step of the task leaves the table alone; the task reads only when nothing
\* is missing from the table.
LEMMA TaskDeliversTable ==
    ASSUME TypeOK, TypeOK', DeliveryInv, SizeInv, ShutdownInv, StoreInv,
           [Next]_vars, UNCHANGED table
    PROVE  [ForwarderPromise!Next]_(ForwarderPromise!vars)
<1> USE DEF settings, buffer, source, history, around
<1>1. CASE RejectSettings \/ OpFails \/ TimesOut \/ SourceFlushDone
  <2>1. /\ pc \in Forwarding /\ result' \in {"Sink", "Source", "ShutdownTimeout"}
        /\ UNCHANGED <<batchSize, received>>
    BY <1>1 DEF RejectSettings, OpFails, TimesOut, SourceFlushDone, Fail, Forwarding,
                BoundedOps, RetriedOps, FlushOps
  <2>2. Outcome = "running" /\ Outcome' = "failed"
    BY <2>1 DEF Outcome, ShutdownInv
  <2>3. QED
    BY <2>1, <2>2 DEF ForwarderPromise!Next, ForwarderPromise!Fail
<1>2. CASE Closed
  <2>1. result = "none" /\ result' = "Ok" /\ UNCHANGED <<batchSize, received>>
    BY <1>2 DEF Closed, ShutdownInv, Forwarding, BoundedOps
  <2>2. received = acknowledged \o <<>> \o <<>> /\ table = acknowledged
    BY <1>2 DEF Closed, DeliveryInv, NothingForgotten, StoreInv, TableInv, Forwarding,
                BoundedOps, RetriedOps, FlushOps
  <2>3. table = received
    BY <2>2, ConcatEmpty DEF TypeOK
  <2>4. QED
    BY <2>1, <2>3 DEF ForwarderPromise!Next, ForwarderPromise!Succeed, Outcome
<1>3. CASE BufferRecord \/ FillBatch
  <2>1. pc = "loop" /\ ReadRecord /\ UNCHANGED <<batchSize, acknowledged, result>>
    BY <1>3 DEF BufferRecord, FillBatch, ReadRecord, ReadItem, Selecting, FlushBuffer
  <2>2. Promise!Read
    BY <2>1, ReadDelivers
  <2>3. table = acknowledged
    BY <2>1 DEF StoreInv, TableInv, Forwarding, FlushOps
  <2>4. QED
    BY <2>2, <2>3 DEF Promise!Read, ForwarderPromise!Next, ForwarderPromise!Read
<1>4. CASE UNCHANGED <<batchSize, received, result>>
  BY <1>4 DEF ForwarderPromise!vars, Outcome
<1>5. ASSUME \/ StartInitialize \/ InitializeDone \/ FinishRequested \/ ShutdownRequested
             \/ LatencyExpired \/ RetryLater \/ BoundShutdown \/ FlushDone
             \/ FinalFlushDone \/ CallSink \/ RetryNow \/ CleanupDone
             \/ SkipParseError \/ SourceEnds \/ SourceFails
             \/ SinkAnswers \/ Signal \/ Tick \/ Terminated \/ UNCHANGED vars
      PROVE  UNCHANGED <<batchSize, received, result>>
  BY <1>5 DEF StartInitialize, InitializeDone, FinishRequested, ShutdownRequested,
              LatencyExpired, RetryLater, BoundShutdown, FlushDone, FinalFlushDone,
              CallSink, RetryNow, CleanupDone, SkipParseError, SourceEnds, SourceFails,
              SinkAnswers, Signal, Tick, Terminated, vars, PollShutdown, Finish,
              FlushNow, FlushBuffer
<1>6. QED
  BY <1>1, <1>2, <1>3, <1>4, <1>5 DEF Next, TaskStep, TaskAlone, SourceStep

\* The worker stores what is missing with one COMMIT, before a success only.
LEMMA WorkerDeliversTable ==
    ASSUME ~InMemory, CommandInv, CallInv, StoreInv, WorkerRuns
    PROVE  [ForwarderPromise!Next]_(ForwarderPromise!vars)
<1>1. UNCHANGED <<batchSize, received, result>> /\ W!WorkerStep
  BY DEF WorkerRuns, around, settings, source
<1>2. CASE UNCHANGED table
  BY <1>1, <1>2 DEF ForwarderPromise!vars, Outcome
<1>3. CASE W!Commit
  <2>1. command.op = "Write" /\ txn = command.rows /\ thread = "commit" /\ result # "Ok"
    BY <1>3 DEF W!Commit, W!CommitWith, CommandInv, CallInv, W!Alive
  <2>2. table' \in {table, received}
    BY <1>3, <2>1 DEF W!Commit, W!CommitWith, StoreInv, WriteInv, Writing, Uncommitted
  <2>3. CASE table' = received
    BY <1>1, <2>1, <2>3 DEF ForwarderPromise!Next, ForwarderPromise!Store, Outcome
  <2>4. QED
    BY <1>2, <2>2, <2>3
<1>4. ~W!Commit => UNCHANGED table
  BY <1>1 DEF W!WorkerStep, W!Receive, W!Reuse, W!Open, W!OpenFails, W!Begin, W!Insert,
              W!Rollback, W!Respond, W!Close, W!Exit, W!Panic, W!Joined, W!Dispose,
              W!Disconnect, W!Ends, W!worker, W!store
<1>5. QED
  BY <1>2, <1>3, <1>4

\* The process with a database in a file implements Delivery with its table: each
\* COMMIT stores everything read so far, in order and once, at most one batch is at
\* risk, and code 0 leaves nothing out.
THEOREM ProcessDelivers ==
    ASSUME ~InMemory PROVE ForwarderSpec => TableDelivers
<1>1. ForwarderInit => ForwarderPromise!Init
  BY InitTable
<1>2. TypeOK /\ TypeOK' /\ DeliveryInv /\ SizeInv /\ ShutdownInv /\ AnswerInv
          /\ CommandInv /\ CallInv /\ StoreInv /\ [ForwarderNext]_forwarderVars
              => [ForwarderPromise!Next]_(ForwarderPromise!vars)
  <2> SUFFICES ASSUME TypeOK, TypeOK', DeliveryInv, SizeInv, ShutdownInv, AnswerInv,
                      CommandInv, CallInv, StoreInv, [ForwarderNext]_forwarderVars
               PROVE  [ForwarderPromise!Next]_(ForwarderPromise!vars)
    OBVIOUS
  <2>1. [Next]_vars
    BY NextImplements
  <2>2. CASE WorkerRuns
    BY <2>2, WorkerDeliversTable
  <2>3. CASE ~WorkerRuns
    <3>1. UNCHANGED table
      BY <2>3 DEF ForwarderNext, CallsWorker, Abandons, Alone, forwarderVars, database,
                  W!Call, W!Request, W!WriteBatch, W!Shutdown, W!LetGo, W!database,
                  W!worker, W!store
    <3>2. QED
      BY <2>1, <3>1, TaskDeliversTable
  <2>4. QED
    BY <2>2, <2>3
<1>3. QED
  BY <1>1, <1>2, PipelineAlways, AnswerAlways, CommandAlways, CallAlways, StoreAlways, PTL
     DEF ForwarderSpec, TableDelivers, ForwarderPromise!Spec

-----------------------------------------------------------------------------
(* The task and the thread hold each other up for ever nowhere.            *)

\* What the thread, or the join that waits for its end, can do by itself.
WorkerRunnable ==
    \/ thread = "receive" /\ queue # <<>>
    \/ thread \in Busy
    \/ future = "pending" /\ join = "taken" /\ ~W!Alive

\* The process has a step to take or a clock to wait for, unless its task has
\* returned or waits for the source with nothing buffered.  No lock-step of the
\* channel, the response and the join leaves both sides waiting.
ForwarderNeverStuck ==
    pc # "returned" =>
        \/ Runnable \/ ClockRuns \/ WorkerRunnable
        \/ pc = "loop" /\ batch = <<>> /\ shutdown = "pending"

LEMMA ServedRuns ==
    ASSUME CallInv, pc \in BoundedOps, future = "pending"
    PROVE  WorkerRunnable
<1>1. Served
  BY DEF CallInv, Forwarding
<1>2. CASE queue = <<Asked>> /\ thread = "receive"
  BY <1>2 DEF WorkerRunnable
<1>3. CASE thread \in Busy
  BY <1>3 DEF WorkerRunnable
<1>4. CASE ~W!Alive /\ pc = "close"
  BY <1>4 DEF WorkerRunnable, CallInv, SinkError
<1>5. QED
  BY <1>1, <1>2, <1>3, <1>4 DEF Served

\* Whatever the worker does, panics and late shutdowns included, a call that is
\* awaited is one that the thread will still come to.
THEOREM ForwarderNeverGetsStuck == ForwarderSpec => []ForwarderNeverStuck
<1>1. TaskNeverStuck /\ CallInv => ForwarderNeverStuck
  BY ServedRuns DEF TaskNeverStuck, ForwarderNeverStuck
<1>2. ForwarderSpec => []TaskNeverStuck
  BY Composes, TaskNeverGetsStuck, PTL DEF ImplementsPipeline
<1>3. QED
  BY <1>1, <1>2, CallAlways, PTL

\* What is left for the thread, the commands in the queue included: receiving
\* one leads to at most five steps.
WorkLeft ==
    6 * Len(queue)
      + (IF thread = "connect" THEN 5
         ELSE IF thread = "begin" THEN 4
         ELSE IF thread = "insert" THEN 3
         ELSE IF thread \in {"commit", "rollback", "close"} THEN 2
         ELSE IF thread \in {"respond", "leave"} THEN 1
         ELSE 0)

\* A step brings the task nearer to its return, or is one of the thread that the
\* task does not see and that leaves the thread less to do.
ForwarderNearer ==
    \/ Nearer
    \/ UNCHANGED vars /\ WorkLeft \in Nat /\ WorkLeft' \in Nat /\ WorkLeft' < WorkLeft

LEMMA WorkerNearer ==
    ASSUME ForwarderTypeOK, ForwarderTypeOK', W!WorkerStep, UNCHANGED future
    PROVE  WorkLeft \in Nat /\ WorkLeft' \in Nat /\ WorkLeft' < WorkLeft
<1> DEFINE steps == WorkLeft - 6 * Len(queue)
<1>1. /\ queue \in Seq(W!Commands) /\ queue' \in Seq(W!Commands)
      /\ Len(queue) \in Nat /\ Len(queue') \in Nat
  BY DEF ForwarderTypeOK
<1>2. /\ steps \in 0 .. 5 /\ steps' \in 0 .. 5
      /\ WorkLeft = 6 * Len(queue) + steps /\ WorkLeft' = 6 * Len(queue') + steps'
  BY <1>1 DEF WorkLeft
<1>3. \/ Len(queue') < Len(queue)
      \/ Len(queue') <= Len(queue) /\ steps' < steps
  <2>1. CASE W!Receive
    BY <1>1, <2>1 DEF W!Receive
  <2>2. CASE W!Reuse \/ W!Open \/ W!OpenFails \/ W!Begin \/ W!Insert \/ W!Rollback
    BY <1>1, <2>2 DEF W!Reuse, W!Open, W!OpenFails, W!Begin, W!Insert, W!Rollback,
                      W!Connected, W!Goes, WorkLeft
  <2>3. CASE W!Commit \/ W!Respond \/ W!Close
    BY <1>1, <2>3 DEF W!Commit, W!CommitWith, W!Respond, W!Close, W!Goes, WorkLeft
  <2>4. CASE W!Exit \/ W!Panic
    <3>1. /\ thread' \in {"exited", "panicked"} /\ queue' = <<>>
          /\ thread \in W!Executing \cup {"respond", "leave"}
      BY <2>4 DEF W!Exit, W!Panic, W!Ends
    <3>2. Len(queue') = 0 /\ steps' = 0 /\ steps > 0
      BY <1>1, <3>1 DEF WorkLeft, W!Executing
    <3>3. QED
      BY <1>1, <3>2
  <2>5. ~W!Joined
    BY DEF W!Joined
  <2>6. QED
    BY <2>1, <2>2, <2>3, <2>4, <2>5 DEF W!WorkerStep
<1>4. QED
  <2> HIDE DEF steps
  <2>1. QED
    BY <1>1, <1>2, <1>3

LEMMA UnseenStep ==
    ASSUME ForwarderNext, UNCHANGED vars
    PROVE  UNCHANGED database \/ (W!WorkerStep /\ UNCHANGED future)
<1> USE DEF vars, call
<1>1. ~CallsWorker
  BY PipelineAssumption DEF CallsWorker, CallSink, RetryNow, Called, SinkError
<1>2. ~Abandons
  BY DEF Abandons, TimesOut, Fail, CleanupDone, CleanupOver, BoundedOps, RetriedOps, FlushOps
<1>3. QED
  BY <1>1, <1>2 DEF ForwarderNext, WorkerRuns, Alone

\* The process takes finitely many steps on an input that ends: neither the
\* retries of the task over new connections nor the commands queued behind calls
\* that were given up can go on for ever.
THEOREM ForwarderAlwaysNearer == ForwarderSpec => [][ForwarderNearer]_forwarderVars
<1>1. ForwarderSpec => [][Nearer]_vars
  BY Composes, AlwaysNearer, PTL DEF ImplementsPipeline
<1>2. /\ ForwarderTypeOK /\ ForwarderTypeOK' /\ [ForwarderNext]_forwarderVars
      /\ [Nearer]_vars
      => [ForwarderNearer]_forwarderVars
  BY UnseenStep, WorkerNearer DEF ForwarderNearer, forwarderVars
<1>3. QED
  BY <1>1, <1>2, ForwarderTypeAlways, PTL DEF ForwarderSpec
=============================================================================
