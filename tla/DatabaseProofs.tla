--------------------------- MODULE DatabaseProofs ---------------------------
(***************************************************************************)
(* Theorems about DatabaseSink, for any number of calls and rows, any      *)
(* errors of the connection factory, and both kinds of database.           *)
(***************************************************************************)
EXTENDS DatabaseSink, SequenceTheorems, TLAPS

-----------------------------------------------------------------------------
(* Type correctness. *)

LEMMA NoRows == <<>> \in Seq(Nat) /\ <<>> \in Seq(Commands) /\ <<>> \in Seq(Seq(Nat))
OBVIOUS

LEMMA InitType == SinkInit => SinkTypeOK
<1> SUFFICES ASSUME SinkInit PROVE SinkTypeOK
  OBVIOUS
<1> USE SinkAssumption DEF SinkInit, DatabaseInit, Commands
<1>1. DatabaseTypeOK
  BY NoRows DEF DatabaseTypeOK, CallState, JoinState, ThreadState, Executing
<1>2. QED
  BY <1>1 DEF SinkTypeOK

\* What a call of the sink does to the state of the worker.
LEMMA CallType ==
    ASSUME SinkTypeOK,
           NEW op \in {"Initialize", "Write", "Shutdown"}, NEW rows \in Seq(Nat),
           Asks(op, rows)
    PROVE  DatabaseTypeOK' /\ asked' \in Commands /\ calls' \in 0 .. MaxCalls
<1> USE SinkAssumption DEF SinkTypeOK, DatabaseTypeOK, Asks, Commands
<1>1. asked' \in Commands /\ calls' \in 0 .. MaxCalls
  OBVIOUS
<1>2. Append(queue, [op |-> op, rows |-> rows]) \in Seq(Commands)
  OBVIOUS
<1>3. Append(queue, [op |-> "Shutdown", rows |-> <<>>]) \in Seq(Commands)
  OBVIOUS
<1>4. CASE op = "Initialize"
  <2>1. Append(queue, [op |-> op, rows |-> <<>>]) \in Seq(Commands)
    OBVIOUS
  <2>2. QED
    BY <1>1, <1>4, <2>1
       DEF Call, Request, CallState, SinkError, worker, inside, store
<1>5. CASE op = "Write"
  BY <1>1, <1>2, <1>5
     DEF Call, WriteBatch, Request, CallState, SinkError, database, worker, inside, store
<1>6. CASE op = "Shutdown"
  BY <1>1, <1>3, <1>6
     DEF Call, Shutdown, SendShutdown, CallState, JoinState, worker, inside, store
<1>7. QED
  BY <1>4, <1>5, <1>6

\* What a step of the thread does to the state of the worker.
LEMMA WorkerType ==
    ASSUME DatabaseTypeOK, WorkerStep PROVE DatabaseTypeOK'
<1> USE DatabaseAssumption, NoRows
    DEF DatabaseTypeOK, CallState, JoinState, ThreadState, Executing, worker, inside, store
<1>1. CASE Receive
  <2>1. Head(queue) \in Commands /\ Tail(queue) \in Seq(Commands)
    BY <1>1 DEF Receive
  <2>2. QED
    BY <1>1, <2>1 DEF Receive, Unseen
<1>2. CASE Reuse \/ Open
  BY <1>2 DEF Reuse, Open, Connected, Goes, Unseen
<1>3. CASE OpenFails
  BY <1>3 DEF OpenFails, Goes, Unseen
<1>4. CASE Begin
  BY <1>4 DEF Begin, Goes, Unseen, SinkError
<1>5. CASE Insert
  <2>1. PICK n \in 0 .. Len(command.rows) :
          txn' = SubSeq(command.rows, 1, n)
          /\ Goes(IF n = Len(command.rows) THEN "commit" ELSE "rollback")
    BY <1>5 DEF Insert
  <2>2. command.rows \in Seq(Nat)
    BY DEF Commands
  <2>3. txn' \in Seq(Nat)
    <3>1. n \in Int /\ \A i \in 1 .. n : command.rows[i] \in Nat
      BY <2>2
    <3>2. QED
      BY ONLY <2>1, <3>1, SubSeqProperties
  <2>4. QED
    BY <1>5, <2>1, <2>3 DEF Insert, Goes, Unseen
<1>6. CASE Rollback
  BY <1>6 DEF Rollback, Goes, Unseen, SinkError
<1>7. CASE Commit
  <2>1. table \o txn \in Seq(Nat)
    OBVIOUS
  <2>2. QED
    BY <1>7, <2>1 DEF Commit, CommitWith, Goes, Unseen, SinkError
<1>8. CASE Respond
  BY <1>8 DEF Respond, Dispose, Disconnect
<1>9. CASE Close
  BY <1>9 DEF Close, Disconnect, Unseen
<1>10. CASE Exit \/ Panic
  <2>1. PICK t \in {"exited", "panicked"} : Ends(t)
    BY <1>10 DEF Exit, Panic
  <2>2. table' \in Seq(Nat) /\ txn' \in Seq(Nat) /\ connection' \in BOOLEAN
    BY <2>1 DEF Ends, Disconnect
  <2>3. future' \in CallState
    BY <2>1 DEF Ends, SinkError
  <2>4. QED
    BY <2>1, <2>2, <2>3 DEF Ends
<1>11. CASE Joined
  BY <1>11 DEF Joined, SinkError
<1>12. QED
  BY <1>1, <1>2, <1>3, <1>4, <1>5, <1>6, <1>7, <1>8, <1>9, <1>10, <1>11 DEF WorkerStep

LEMMA NextType == SinkTypeOK /\ [SinkNext]_sinkVars => SinkTypeOK'
<1> SUFFICES ASSUME SinkTypeOK, [SinkNext]_sinkVars PROVE SinkTypeOK'
  OBVIOUS
<1> USE SinkAssumption DEF SinkTypeOK, ledger
<1>1. CASE CallInitialize
  <2>1. Asks("Initialize", <<>>) /\ <<>> \in Seq(Nat)
    BY <1>1 DEF CallInitialize
  <2>2. QED
    BY <1>1, <2>1, CallType DEF CallInitialize
<1>2. CASE CallWrite
  <2>1. PICK n \in 0 .. MaxBatch : /\ written' = written + n /\ written' <= MaxRows
                                  /\ sent' = Append(sent, NewRows(n))
                                  /\ Asks("Write", NewRows(n))
    BY <1>2 DEF CallWrite
  <2>2. NewRows(n) \in Seq(Nat)
    <3>1. NewRows(n) \in [1 .. n -> Nat]
      BY DEF NewRows
    <3>2. QED
      BY <3>1
  <2>3. DatabaseTypeOK' /\ asked' \in Commands /\ calls' \in 0 .. MaxCalls
    BY <2>1, <2>2, CallType
  <2>4. sent' \in Seq(Seq(Nat)) /\ written' \in 0 .. MaxRows
    BY <2>1, <2>2
  <2>5. QED
    BY <1>2, <2>3, <2>4 DEF CallWrite
<1>3. CASE CallShutdown
  <2>1. Asks("Shutdown", <<>>) /\ <<>> \in Seq(Nat)
    BY <1>3 DEF CallShutdown
  <2>2. QED
    BY <1>3, <2>1, CallType DEF CallShutdown
<1>4. CASE RetryWrite
  <2>1. Asks("Write", asked.rows) /\ asked.rows \in Seq(Nat)
    BY <1>4 DEF RetryWrite, Commands
  <2>2. QED
    BY <1>4, <2>1, CallType DEF RetryWrite
<1>5. CASE TakeAnswer \/ GiveUp
  <2>1. asked.rows \in Seq(Nat)
    BY DEF Commands
  <2>2. Doubted \subseteq Nat
    BY <2>1, RangeOfSeq DEF Doubted
  <2>3. acked \o asked.rows \in Seq(Nat)
    BY <2>1
  <2>4. DatabaseTypeOK'
    BY <1>5 DEF TakeAnswer, GiveUp, LetGo, DatabaseTypeOK, CallState, JoinState,
                database, worker, inside, store
  <2>5. QED
    BY <1>5, <2>2, <2>3, <2>4 DEF TakeAnswer, GiveUp
<1>6. CASE Dropping
  <2>1. CASE DropSink
    <3>1. Append(queue, [op |-> "Shutdown", rows |-> <<>>]) \in Seq(Commands)
      BY DEF Commands, DatabaseTypeOK
    <3>2. QED
      BY <1>6, <2>1, <3>1 DEF Dropping, DropSink, SendShutdown, DatabaseTypeOK, JoinState,
                              worker, inside, store
  <2>2. CASE DropReturns
    BY <1>6, <2>2 DEF Dropping, DropReturns, DatabaseTypeOK, JoinState, worker, inside, store
  <2>3. QED
    BY <1>6, <2>1, <2>2 DEF Dropping
<1>7. CASE ThreadStep
  BY <1>7, WorkerType DEF ThreadStep
<1>8. CASE UNCHANGED sinkVars
  BY <1>8 DEF sinkVars, database, worker, inside, store, DatabaseTypeOK
<1>9. QED
  BY <1>1, <1>2, <1>3, <1>4, <1>5, <1>6, <1>7, <1>8 DEF SinkNext, SinkIdle

\* Every variable of the worker and of its caller keeps its type.
THEOREM SinkTypeCorrect == SinkSpec => []SinkTypeOK
BY InitType, NextType, PTL DEF SinkSpec

-----------------------------------------------------------------------------
(* What is left of the thread when it has been joined. *)

\* A thread that has ended holds nothing: neither a connection nor a command.
EndedInv ==
    /\ ~Alive => ~connection /\ queue = <<>>
    /\ JoinedIsQuiet

LEMMA InitEnded == SinkInit => EndedInv
BY DEF SinkInit, DatabaseInit, EndedInv, JoinedIsQuiet, Alive

LEMMA NextEnded == EndedInv /\ [SinkNext]_sinkVars => EndedInv'
<1> SUFFICES ASSUME EndedInv, [SinkNext]_sinkVars PROVE EndedInv'
  OBVIOUS
<1> USE DEF EndedInv, JoinedIsQuiet, Alive
\* A call sends nothing to a thread that has ended, and does not undo a join.
<1>1. CASE \E op, rows : Asks(op, rows)
  BY <1>1 DEF Asks, Call, Request, WriteBatch, Shutdown, SendShutdown,
              database, worker, inside, store
<1>2. CASE CallInitialize \/ CallWrite \/ CallShutdown \/ RetryWrite
  BY <1>1, <1>2 DEF CallInitialize, CallWrite, CallShutdown, RetryWrite
<1>3. CASE TakeAnswer
  BY <1>3 DEF TakeAnswer, database, worker, store
<1>4. CASE GiveUp
  BY <1>4 DEF GiveUp, LetGo, worker, store
<1>5. CASE Dropping
  BY <1>5 DEF Dropping, DropSink, DropReturns, SendShutdown, worker, store
<1>6. CASE ThreadStep
  <2>1. CASE Receive
    BY <2>1 DEF Receive, Unseen, store
  <2>2. CASE Reuse \/ Open \/ OpenFails \/ Begin \/ Insert \/ Rollback
    BY <2>2 DEF Reuse, Open, OpenFails, Begin, Insert, Rollback, Connected, Goes, Unseen, store
  <2>3. CASE Commit
    BY <2>3 DEF Commit, CommitWith, Goes, Unseen
  <2>4. CASE Respond
    BY <2>4 DEF Respond, Dispose, Disconnect, store
  <2>5. CASE Close
    BY <2>5 DEF Close, Disconnect, Unseen
  <2>6. CASE Exit \/ Panic
    BY <2>6 DEF Exit, Panic, Ends, Disconnect, Executing
  <2>7. CASE Joined
    BY <2>7 DEF Joined, worker, store
  <2>8. QED
    BY <1>6, <2>1, <2>2, <2>3, <2>4, <2>5, <2>6, <2>7 DEF ThreadStep, WorkerStep
<1>7. CASE UNCHANGED sinkVars
  BY <1>7 DEF sinkVars, database, worker, store
<1>8. QED
  BY <1>2, <1>3, <1>4, <1>5, <1>6, <1>7 DEF SinkNext, SinkIdle

\* Whatever calls were made, dropped or left unanswered: when shutdown() or Drop
\* has joined the thread, no connection and no command of it is left.
THEOREM JoinsQuietly == SinkSpec => []JoinedIsQuiet
<1>1. EndedInv => JoinedIsQuiet
  BY DEF EndedInv
<1>2. QED
  BY <1>1, InitEnded, NextEnded, PTL DEF SinkSpec

-----------------------------------------------------------------------------
(* Batches are stored as a whole. *)

\* The batches written share no row, so that storing one cannot store a part of
\* another; each Write command, wherever it is, carries one of them; and what is
\* committed is all of the command's.
Batches == Range(sent)

DisjointInv ==
    /\ \A b \in Batches : Range(b) \subseteq 1 .. written
    /\ \A b, c \in Batches : b = c \/ Range(b) \cap Range(c) = {}

IsBatch(c) == c.op = "Write" => c.rows \in Batches

CommandsInv ==
    /\ \A i \in 1 .. Len(queue) : IsBatch(queue[i])
    /\ IsBatch(command) /\ IsBatch(asked)
    /\ thread \in {"begin", "insert", "rollback", "commit"} => command.op = "Write"
    /\ thread = "commit" => txn = command.rows

StoreInv == Range(table) \subseteq 1 .. written /\ BatchesWhole

BatchInv == DisjointInv /\ CommandsInv /\ StoreInv

LEMMA RangeOfAppend ==
    ASSUME NEW S, NEW seq \in Seq(S), NEW x \in S
    PROVE  Range(Append(seq, x)) = Range(seq) \cup {x}
<1>1. Append(seq, x) = seq \o <<x>> /\ <<x>> \in Seq(S)
  BY AppendIsConcat
<1>2. Range(<<x>>) = {x}
  BY DEF Range
<1>3. Range(seq \o <<x>>) = Range(seq) \cup Range(<<x>>)
  BY ONLY <1>1, seq \in Seq(S), RangeConcatenation, ZenonT(40)
<1>4. QED
  BY <1>1, <1>2, <1>3

LEMMA RangeOfNone == Range(<<>>) = {}
BY DEF Range

LEMMA InitBatch == SinkInit => BatchInv
BY RangeOfNone
   DEF SinkInit, DatabaseInit, BatchInv, DisjointInv, CommandsInv, StoreInv, Batches,
       IsBatch, BatchesWhole

\* A call sends at most one command, of a batch that was written.
LEMMA CallCommands ==
    ASSUME SinkTypeOK, CommandsInv, NEW op, NEW rows, Asks(op, rows),
           Batches \subseteq Batches', op = "Write" => rows \in Batches'
    PROVE  CommandsInv' /\ table' = table
<1> USE DEF CommandsInv, IsBatch
<1>1. queue \in Seq(Commands)
  BY DEF SinkTypeOK, DatabaseTypeOK
<1>2. UNCHANGED worker /\ asked' = [op |-> op, rows |-> rows]
  BY DEF Asks, Call, Request, WriteBatch, Shutdown, database
<1>3. IsBatch(command)' /\ IsBatch(asked)'
  BY <1>2 DEF worker, inside
<1>4. ASSUME NEW c, c.op = "Write" => c.rows \in Batches', queue' = Append(queue, c)
      PROVE  \A i \in 1 .. Len(queue') :
               queue'[i].op = "Write" => queue'[i].rows \in Batches'
  <2>1. \A i \in 1 .. Len(queue') :
          queue'[i] = c \/ (i \in 1 .. Len(queue) /\ queue'[i] = queue[i])
    BY <1>1, <1>4
  <2>2. QED
    BY <2>1, <1>4
<1>5. \/ UNCHANGED queue
      \/ queue' = Append(queue, [op |-> op, rows |-> <<>>]) /\ op = "Initialize"
      \/ queue' = Append(queue, [op |-> op, rows |-> rows])
      \/ queue' = Append(queue, [op |-> "Shutdown", rows |-> <<>>])
  BY DEF Asks, Call, Request, WriteBatch, Shutdown, SendShutdown, database
<1>6. \A i \in 1 .. Len(queue') :
         queue'[i].op = "Write" => queue'[i].rows \in Batches'
  <2>1. CASE UNCHANGED queue
    BY <2>1
  <2>2. CASE queue' = Append(queue, [op |-> op, rows |-> rows])
    BY <2>2, <1>4
  <2>3. CASE queue' = Append(queue, [op |-> op, rows |-> <<>>]) /\ op = "Initialize"
    BY <2>3, <1>4
  <2>4. CASE queue' = Append(queue, [op |-> "Shutdown", rows |-> <<>>])
    BY <2>4, <1>4
  <2>5. QED
    BY <1>5, <2>1, <2>2, <2>3, <2>4
<1>7. QED
  BY <1>2, <1>3, <1>6 DEF worker, inside, store

\* Storing one batch leaves each of the batches whole.
LEMMA CommitStores ==
    ASSUME SinkTypeOK, DisjointInv, StoreInv, NEW b \in Batches,
           table' \in {table, table \o b}, UNCHANGED <<sent, written>>
    PROVE  StoreInv'
<1>1. table \in Seq(Nat) /\ b \in Seq(Nat)
  BY RangeOfSeq DEF SinkTypeOK, DatabaseTypeOK, Batches
<1>2. Range(table') \in {Range(table), Range(table) \cup Range(b)}
  <2>1. Range(table \o b) = Range(table) \cup Range(b)
    BY ONLY <1>1, RangeConcatenation, ZenonT(40)
  <2>2. table' = table \/ table' = table \o b
    OBVIOUS
  <2>3. QED
    BY ONLY <2>1, <2>2
<1>3. Range(b) \subseteq 1 .. written /\ \A c \in Batches : b = c \/ Range(b) \cap Range(c) = {}
  BY DEF DisjointInv
<1>4. QED
  BY <1>2, <1>3 DEF StoreInv, BatchesWhole, Batches

\* A step that writes no batch and commits none keeps what is stored whole.
LEMMA StoreKept ==
    ASSUME DisjointInv, StoreInv, table' \in {<<>>, table}, UNCHANGED <<sent, written>>
    PROVE  DisjointInv' /\ StoreInv'
<1>1. Range(table') \in {{}, Range(table)}
  BY RangeOfNone
<1>2. QED
  BY <1>1 DEF DisjointInv, StoreInv, BatchesWhole, Batches

\* A new batch shares no row with those written before.
LEMMA NewBatch ==
    ASSUME SinkTypeOK, DisjointInv, StoreInv, NEW n \in Nat,
           sent' = Append(sent, NewRows(n)), written' = written + n, table' = table
    PROVE  DisjointInv' /\ StoreInv' /\ Batches' = Batches \cup {NewRows(n)}
<1>1. NewRows(n) \in Seq(Nat) /\ written \in Nat
  <2>1. written \in Nat
    BY SinkAssumption DEF SinkTypeOK
  <2>2. NewRows(n) \in [1 .. n -> Nat]
    BY <2>1 DEF NewRows
  <2>3. QED
    BY <2>1, <2>2
<1>2. Batches' = Batches \cup {NewRows(n)}
  BY <1>1, RangeOfAppend DEF Batches, SinkTypeOK
<1>3. Range(NewRows(n)) \subseteq written + 1 .. written'
  BY <1>1 DEF NewRows, Range
<1>4. 1 .. written \subseteq 1 .. written' /\ written + 1 .. written' \subseteq 1 .. written'
      /\ (1 .. written) \cap (written + 1 .. written') = {}
  BY <1>1
<1>5. \A b \in Batches : Range(b) \subseteq 1 .. written
                          /\ Range(b) \cap Range(NewRows(n)) = {}
  BY <1>3, <1>4 DEF DisjointInv
<1>6. DisjointInv'
  <2>1. \A b \in Batches' : Range(b) \subseteq 1 .. written'
    BY <1>2, <1>3, <1>4, <1>5
  <2>2. \A b, c \in Batches' : b = c \/ Range(b) \cap Range(c) = {}
    BY <1>2, <1>5 DEF DisjointInv
  <2>3. QED
    BY <2>1, <2>2 DEF DisjointInv
<1>7. StoreInv'
  <2>1. Range(table) \subseteq 1 .. written /\ Range(table) \cap Range(NewRows(n)) = {}
    BY <1>3, <1>4 DEF StoreInv
  <2>2. \A b \in Batches' : Range(b) \subseteq Range(table) \/ Range(b) \cap Range(table) = {}
    BY <1>2, <2>1 DEF StoreInv, BatchesWhole, Batches
  <2>3. QED
    BY <1>4, <2>1, <2>2 DEF StoreInv, BatchesWhole, Batches
<1>8. QED
  BY <1>2, <1>6, <1>7

\* A step of the thread keeps the commands, and stores what it stores as a whole.
LEMMA ThreadBatch ==
    ASSUME SinkTypeOK, BatchInv, ThreadStep PROVE BatchInv'
<1> USE DEF BatchInv, CommandsInv, IsBatch
<1>1. UNCHANGED <<asked, sent, written>> /\ Batches' = Batches
  BY DEF ThreadStep, ledger, Batches
<1>2. WorkerStep
  BY DEF ThreadStep
<1>3. CASE Commit
  <2>1. command.rows \in Batches /\ table' \in {table, table \o command.rows}
    BY <1>3 DEF Commit, CommitWith
  <2>2. StoreInv'
    BY <1>1, <2>1, CommitStores
  <2>3. CommandsInv'
    BY <1>1, <1>3 DEF Commit, CommitWith, Goes
  <2>4. DisjointInv'
    BY <1>1 DEF DisjointInv
  <2>5. QED
    BY <2>2, <2>3, <2>4
<1>4. CASE Receive
  <2>1. queue \in Seq(Commands) /\ queue # <<>>
    BY <1>4 DEF SinkTypeOK, DatabaseTypeOK, Receive
  <2>2. \A i \in 1 .. Len(queue') : i + 1 \in 1 .. Len(queue) /\ queue'[i] = queue[i + 1]
    BY <1>4, <2>1 DEF Receive
  <2>3. command' = queue[1] /\ 1 \in 1 .. Len(queue)
    BY <1>4, <2>1 DEF Receive
  <2>4. CommandsInv'
    BY <1>1, <1>4, <2>2, <2>3 DEF Receive
  <2>5. table' = table
    BY <1>4 DEF Receive, store
  <2>6. QED
    BY <1>1, <2>4, <2>5, StoreKept
<1>5. CASE Insert
  <2>1. PICK n \in 0 .. Len(command.rows) :
          txn' = SubSeq(command.rows, 1, n)
          /\ Goes(IF n = Len(command.rows) THEN "commit" ELSE "rollback")
    BY <1>5 DEF Insert
  <2>2. command.rows \in Seq(Nat)
    BY DEF SinkTypeOK, DatabaseTypeOK, Commands
  <2>3. n = Len(command.rows) => txn' = command.rows
    BY <2>1, <2>2
  <2>4. CommandsInv'
    BY <1>1, <1>5, <2>1, <2>3 DEF Insert, Goes
  <2>5. QED
    BY <1>1, <1>5, <2>4, StoreKept DEF Insert
<1>6. CASE Reuse \/ Open \/ OpenFails \/ Begin \/ Rollback
  <2>1. CommandsInv'
    BY <1>1, <1>6 DEF Reuse, Open, OpenFails, Begin, Rollback, Connected, Goes
  <2>2. table' = table
    BY <1>6 DEF Reuse, Open, OpenFails, Begin, Rollback, store
  <2>3. QED
    BY <1>1, <2>1, <2>2, StoreKept
<1>7. CASE Respond \/ Close
  <2>1. CommandsInv'
    BY <1>1, <1>7 DEF Respond, Close, inside
  <2>2. table' \in {<<>>, table}
    BY <1>7 DEF Respond, Close, Dispose, Disconnect, store
  <2>3. QED
    BY <1>1, <2>1, <2>2, StoreKept
<1>8. CASE Exit \/ Panic
  <2>1. PICK t \in {"exited", "panicked"} : Ends(t)
    BY <1>8 DEF Exit, Panic
  <2>2. CommandsInv'
    BY <1>1, <2>1 DEF Ends, inside
  <2>3. table' \in {<<>>, table}
    BY <2>1 DEF Ends, Disconnect
  <2>4. QED
    BY <1>1, <2>2, <2>3, StoreKept
<1>9. CASE Joined
  <2>1. CommandsInv' /\ table' = table
    BY <1>1, <1>9 DEF Joined, worker, inside, store
  <2>2. QED
    BY <1>1, <2>1, StoreKept
<1>10. QED
  BY <1>2, <1>3, <1>4, <1>5, <1>6, <1>7, <1>8, <1>9 DEF WorkerStep

LEMMA NextBatch == SinkTypeOK /\ BatchInv /\ [SinkNext]_sinkVars => BatchInv'
<1> SUFFICES ASSUME SinkTypeOK, BatchInv, [SinkNext]_sinkVars PROVE BatchInv'
  OBVIOUS
<1>1. CASE CallWrite
  <2>1. PICK n \in 0 .. MaxBatch : /\ written' = written + n
                                  /\ sent' = Append(sent, NewRows(n))
                                  /\ Asks("Write", NewRows(n))
    BY <1>1 DEF CallWrite
  <2>2. n \in Nat /\ table' = table
    BY <2>1, SinkAssumption
       DEF Asks, Call, WriteBatch, Request, database, worker, store
  <2>3. DisjointInv' /\ StoreInv' /\ Batches' = Batches \cup {NewRows(n)}
    BY <2>1, <2>2, NewBatch DEF BatchInv
  <2>4. CommandsInv'
    BY <2>1, <2>3, CallCommands DEF BatchInv
  <2>5. QED
    BY <2>3, <2>4 DEF BatchInv
<1>2. CASE CallInitialize \/ CallShutdown \/ RetryWrite
  <2>1. UNCHANGED <<sent, written>> /\ Batches' = Batches
    BY <1>2 DEF CallInitialize, CallShutdown, RetryWrite, ledger, Batches
  <2>2. asked.op = "Write" => asked.rows \in Batches
    BY DEF BatchInv, CommandsInv, IsBatch
  <2>3. PICK op, rows : Asks(op, rows) /\ (op = "Write" => rows \in Batches)
    BY <1>2, <2>2 DEF CallInitialize, CallShutdown, RetryWrite
  <2>4. CommandsInv' /\ table' = table
    BY <2>1, <2>3, CallCommands DEF BatchInv
  <2>5. QED
    BY <2>1, <2>4, StoreKept DEF BatchInv
<1>3. CASE TakeAnswer \/ GiveUp \/ UNCHANGED sinkVars
  <2>1. UNCHANGED <<queue, command, asked, thread, txn, table, sent, written>>
    BY <1>3 DEF TakeAnswer, GiveUp, LetGo, sinkVars, ledger, database, worker, inside, store
  <2>2. CommandsInv'
    BY <2>1 DEF BatchInv, CommandsInv, IsBatch, Batches
  <2>3. QED
    BY <2>1, <2>2, StoreKept DEF BatchInv
<1>4. CASE Dropping
  <2>1. UNCHANGED <<command, asked, thread, txn, table, sent, written>>
    BY <1>4 DEF Dropping, DropSink, DropReturns, ledger, worker, inside, store
  <2>2. queue' \in {queue, Append(queue, [op |-> "Shutdown", rows |-> <<>>])}
    BY <1>4 DEF Dropping, DropSink, DropReturns, SendShutdown
  <2>3. queue \in Seq(Commands)
    BY DEF SinkTypeOK, DatabaseTypeOK
  <2>4. \A i \in 1 .. Len(queue') :
          queue'[i].op = "Shutdown" \/ (i \in 1 .. Len(queue) /\ queue'[i] = queue[i])
    BY <2>2, <2>3
  <2>5. CommandsInv'
    BY <2>1, <2>4 DEF BatchInv, CommandsInv, IsBatch, Batches
  <2>6. QED
    BY <2>1, <2>5, StoreKept DEF BatchInv
<1>5. CASE ThreadStep
  BY <1>5, ThreadBatch
<1>6. QED
  BY <1>1, <1>2, <1>3, <1>4, <1>5 DEF SinkNext, SinkIdle

\* In every state, and so wherever the process dies, the table holds each batch
\* as a whole or not at all, for any sequence of calls, failures and retries.
THEOREM StoresWholeBatches == SinkSpec => []BatchesWhole
<1>1. BatchInv => BatchesWhole
  BY DEF BatchInv, StoreInv
<1>2. QED
  BY <1>1, InitBatch, NextBatch, SinkTypeCorrect, PTL DEF SinkSpec

-----------------------------------------------------------------------------
(* What a caller may conclude from the answers, and the order of what is   *)
(* stored: for any calls, any of them given up while they are pending, any *)
(* failures and any retries.                                               *)

Busy == Executing \cup {"respond"}

\* Only a Write carries rows; the thread never responds to a Shutdown.
PlainInv ==
    /\ \A i \in 1 .. Len(queue) : queue[i].op # "Write" => queue[i].rows = <<>>
    /\ command.op # "Write" => command.rows = <<>>
    /\ asked.op # "Write" => asked.rows = <<>>
    /\ thread \in Busy \ {"close"} => command.op # "Shutdown"

\* The command that the caller awaits is the last one sent.  A call that
\* failed for certain has left no rows behind, stored or on their way.
AwaitedInv ==
    /\ join = "taken" => future = "pending" /\ asked.op = "Shutdown"
    /\ future = "pending" /\ queue # <<>> => queue[Len(queue)] = asked
    /\ future = "pending" /\ queue = <<>> /\ thread \in Busy => command = asked

Increasing(rows) == \A i, j \in 1 .. Len(rows) : i < j => rows[i] < rows[j]

Below(low, rows) == \A x \in low, y \in Range(rows) : x < y

\* The rows on their way to the table, in the command and in the queue, are
\* beyond those in the table, in the order in which they will be stored.
OrderInv ==
    /\ \A b \in Batches : Increasing(b)
    /\ StoredInOrder
    /\ \A i \in 1 .. Len(queue) : Below(Range(table), queue[i].rows)
    /\ \A i, j \in 1 .. Len(queue) : i < j => Below(Range(queue[i].rows), queue[j].rows)
    /\ thread \in Busy =>
          \A i \in 1 .. Len(queue) : Below(Range(command.rows), queue[i].rows)
    /\ thread \in Executing => Below(Range(table), command.rows)

\* The errors that tell the caller that nothing was stored.
Certain == SinkError \ OutcomeUnknown

\* They tell the truth: nothing was stored, and nothing is left to be stored.
CertainInv ==
    /\ thread = "respond" /\ answer \in Certain => Below(Range(table), command.rows)
    /\ future \in Certain =>
          \/ asked.rows = <<>>
          \/ /\ Below(Range(table), asked.rows)
             /\ \A i \in 1 .. Len(queue) : queue[i].rows = <<>>
             /\ thread \in Busy => command.rows = <<>>

\* The rows that may be on their way to the table.
Expected == IF future = "pending" THEN Doubted ELSE doubtful

TruthInv ==
    /\ Range(table) \subseteq Range(acked) \cup InDoubt
    /\ \A i \in 1 .. Len(queue) : Range(queue[i].rows) \subseteq Expected
    /\ thread \in Executing => Range(command.rows) \subseteq Expected

\* An in-memory database forgets, and what follows does not hold of it.
KeptInv ==
    ~InMemory =>
        /\ Range(acked) \subseteq Range(table)
        /\ thread = "respond" /\ answer = "ok" => Range(command.rows) \subseteq Range(table)
        /\ future = "ok" => Range(asked.rows) \subseteq Range(table)

AnswerInv == PlainInv /\ AwaitedInv /\ OrderInv /\ CertainInv /\ TruthInv /\ KeptInv

\* What the earlier proofs give.
Known == SinkTypeOK /\ EndedInv /\ BatchInv

LEMMA KnownAlways == SinkSpec => []Known
<1>1. SinkInit => EndedInv /\ BatchInv
  BY InitEnded, InitBatch
<1>2. SinkTypeOK /\ EndedInv /\ BatchInv /\ [SinkNext]_sinkVars => EndedInv' /\ BatchInv'
  BY NextEnded, NextBatch
<1>3. QED
  BY <1>1, <1>2, SinkTypeCorrect, PTL DEF SinkSpec, Known

LEMMA InitAnswer == SinkInit => AnswerInv
BY RangeOfNone
   DEF SinkInit, DatabaseInit, AnswerInv, PlainInv, AwaitedInv, OrderInv, CertainInv, TruthInv,
       KeptInv, Busy, Executing, Certain, SinkError, StoredInOrder, InDoubt, Batches, Expected

-----------------------------------------------------------------------------
(* What the steps do.  The invariants are proved from these summaries.       *)

LEMMA AppendedRows ==
    ASSUME NEW S, NEW s \in Seq(S), NEW x \in S, NEW t, t = Append(s, x)
    PROVE  /\ t # <<>> /\ t[Len(t)] = x /\ Len(t) = Len(s) + 1
           /\ \A i \in 1 .. Len(s) : t[i] = s[i]
           /\ \A i \in 1 .. Len(t) : i \in 1 .. Len(s) \/ (i = Len(t) /\ t[i] = x)
OBVIOUS

\* What the rows of a new command must be beyond.
Fresh(rows) ==
    /\ Below(Range(table), rows)
    /\ \A i \in 1 .. Len(queue) : Below(Range(queue[i].rows), rows)
    /\ thread \in Busy => Below(Range(command.rows), rows)

\* A call sends its command at the end of the queue, or nothing.
Sends ==
    \/ queue' = Append(queue, asked') /\ asked' \in Commands /\ future' = "pending"
    \/ queue' = queue /\ queue = <<>> /\ ~Alive /\ future' \in {"pending", "WorkerUnavailable"}
    \/ queue' = queue /\ future' = "ok" /\ asked'.rows = <<>>

Asking ==
    /\ future \in {"none"} \cup Certain
    /\ UNCHANGED <<worker, acked, doubtful>>
    /\ asked' \in Commands /\ (asked'.op # "Write" => asked'.rows = <<>>)
    /\ Fresh(asked'.rows)
    /\ join # "taken" /\ (join' = "taken" => asked'.op = "Shutdown" /\ future' = "pending")
    /\ Sends
    /\ \A b \in Batches' : Increasing(b)

LEMMA NoRowsBelow ==
    ASSUME NEW low PROVE Below(low, <<>>) /\ Increasing(<<>>) /\ (\A rows : Below({}, rows))
BY RangeOfNone DEF Below, Increasing

LEMMA AsksSends ==
    ASSUME Known, AnswerInv, NEW op \in {"Initialize", "Write", "Shutdown"}, NEW rows \in Seq(Nat),
           op # "Write" => rows = <<>>, Asks(op, rows), future # "pending"
    PROVE  /\ UNCHANGED worker /\ asked' = [op |-> op, rows |-> rows] /\ asked' \in Commands
           /\ join # "taken"
           /\ join' = "taken" => asked'.op = "Shutdown" /\ future' = "pending"
           /\ Sends
<1>1. asked' = [op |-> op, rows |-> rows] /\ asked' \in Commands /\ join # "taken"
  BY DEF Asks, Commands, AnswerInv, AwaitedInv
<1>2. ~Alive => queue = <<>>
  BY DEF Known, EndedInv
<1>3. CASE op \in {"Initialize", "Write"}
  <2>1. \/ Request(op, rows)
        \/ rows = <<>> /\ future' = "ok" /\ UNCHANGED database
    BY <1>3 DEF Asks, Call, WriteBatch
  <2>2. QED
    BY <1>1, <1>2, <2>1 DEF Request, Sends, database
<1>4. CASE op = "Shutdown"
  <2>1. Shutdown /\ rows = <<>>
    BY <1>4 DEF Asks, Call
  <2>2. QED
    BY <1>1, <1>2, <1>4, <2>1 DEF Shutdown, SendShutdown, Sends
<1>5. QED
  BY <1>3, <1>4

\* Every row in the table or on its way has been written before.
LEMMA RowsWritten ==
    ASSUME Known, PlainInv
    PROVE  /\ Range(table) \subseteq 1 .. written
           /\ Range(command.rows) \subseteq 1 .. written
           /\ \A i \in 1 .. Len(queue) : Range(queue[i].rows) \subseteq 1 .. written
<1>1. \A b \in Batches : Range(b) \subseteq 1 .. written
  BY DEF Known, BatchInv, DisjointInv
<1>2. QED
  BY <1>1, RangeOfNone DEF Known, BatchInv, CommandsInv, IsBatch, StoreInv, PlainInv

LEMMA CallsAsk ==
    ASSUME Known, AnswerInv, CallInitialize \/ CallWrite \/ CallShutdown \/ RetryWrite
    PROVE  Asking
<1>1. CASE CallInitialize \/ CallShutdown
  <2>1. PICK op \in {"Initialize", "Shutdown"} : Asks(op, <<>>)
    BY <1>1 DEF CallInitialize, CallShutdown
  <2>2. future = "none" /\ UNCHANGED <<acked, doubtful, sent>>
    BY <1>1 DEF CallInitialize, CallShutdown, ledger
  <2>3. Fresh(<<>>)
    BY NoRowsBelow DEF Fresh
  <2>4. \A b \in Batches' : Increasing(b)
    BY <2>2 DEF AnswerInv, OrderInv, Batches
  <2>5. /\ UNCHANGED worker /\ asked' = [op |-> op, rows |-> <<>>] /\ asked' \in Commands
        /\ join # "taken" /\ (join' = "taken" => asked'.op = "Shutdown" /\ future' = "pending")
        /\ Sends
    BY <2>1, <2>2, NoRows, AsksSends
  <2>6. QED
    BY <2>2, <2>3, <2>4, <2>5 DEF Asking
<1>2. CASE CallWrite
  <2>1. PICK n \in 0 .. MaxBatch : /\ sent' = Append(sent, NewRows(n))
                                  /\ written' = written + n
                                  /\ Asks("Write", NewRows(n))
    BY <1>2 DEF CallWrite
  <2>2. future = "none" /\ UNCHANGED <<acked, doubtful>>
    BY <1>2 DEF CallWrite
  <2>3. n \in Nat /\ written \in Nat
    BY SinkAssumption DEF Known, SinkTypeOK
  <2>4. NewRows(n) \in Seq(Nat) /\ Increasing(NewRows(n))
        /\ \A y \in Range(NewRows(n)) : y > written
    <3>1. NewRows(n) \in [1 .. n -> Nat] /\ Len(NewRows(n)) = n
      BY <2>3 DEF NewRows
    <3>2. NewRows(n) \in Seq(Nat)
      BY <2>3, <3>1
    <3>3. \A i \in 1 .. n : NewRows(n)[i] = written + i
      BY DEF NewRows
    <3>4. QED
      BY <2>3, <3>1, <3>2, <3>3 DEF Increasing, Range
  <2>5. Fresh(NewRows(n))
    <3>1. ASSUME NEW low, low \subseteq 1 .. written PROVE Below(low, NewRows(n))
      <4>1. \A y \in Range(NewRows(n)) : y \in Nat /\ y > written
        BY <2>4, RangeOfSeq
      <4>2. QED
        BY <2>3, <3>1, <4>1 DEF Below
    <3>2. QED
      BY <3>1, RowsWritten DEF Fresh, AnswerInv
  <2>6. \A b \in Batches' : Increasing(b)
    <3>1. Batches' = Batches \cup {NewRows(n)}
      BY <2>1, <2>4, RangeOfAppend DEF Batches, Known, SinkTypeOK
    <3>2. QED
      BY <2>4, <3>1 DEF AnswerInv, OrderInv
  <2>7. /\ UNCHANGED worker /\ asked' = [op |-> "Write", rows |-> NewRows(n)]
        /\ asked' \in Commands
        /\ join # "taken" /\ (join' = "taken" => asked'.op = "Shutdown" /\ future' = "pending")
        /\ Sends
    BY <2>1, <2>2, <2>4, AsksSends
  <2>8. QED
    BY <2>2, <2>5, <2>6, <2>7 DEF Asking
<1>3. CASE RetryWrite
  <2>1. future \in Certain /\ asked.op = "Write" /\ Asks("Write", asked.rows)
        /\ UNCHANGED <<acked, doubtful, sent>>
    BY <1>3 DEF RetryWrite, IsRetryable, Certain, OutcomeUnknown, ledger
  <2>2. asked.rows \in Seq(Nat)
    BY DEF Known, SinkTypeOK, Commands
  <2>3. Fresh(asked.rows)
    BY <2>1, NoRowsBelow, RangeOfNone DEF AnswerInv, CertainInv, Fresh
  <2>4. \A b \in Batches' : Increasing(b)
    BY <2>1 DEF AnswerInv, OrderInv, Batches
  <2>5. /\ UNCHANGED worker /\ asked' = [op |-> "Write", rows |-> asked.rows]
        /\ asked' \in Commands
        /\ join # "taken" /\ (join' = "taken" => asked'.op = "Shutdown" /\ future' = "pending")
        /\ Sends
    BY <2>1, <2>2, AsksSends DEF Certain, SinkError
  <2>6. QED
    BY <2>1, <2>3, <2>4, <2>5 DEF Asking
<1>4. QED
  BY <1>1, <1>2, <1>3

\* What a call that is not pending leaves in doubt.
LEMMA DoubtSettled ==
    /\ future \in {"none"} \cup Certain => InDoubt = doubtful /\ Expected = doubtful
    /\ future \in {"pending", "ok"} \cup OutcomeUnknown => InDoubt = Doubted
    /\ "ok" \notin Certain /\ "pending" \notin Certain /\ "none" \notin Certain
    /\ "WorkerUnavailable" \notin Certain /\ "WorkerUnavailable" \in OutcomeUnknown
BY DEF InDoubt, Expected, Certain, OutcomeUnknown, SinkError

\* A thread that has ended is not in a command.
LEMMA EndedIdle == ~Alive => thread \notin Busy /\ thread \notin Executing
BY DEF Alive, Busy, Executing

-----------------------------------------------------------------------------
(* The calls. *)

LEMMA AskingKeeps == ASSUME Known, AnswerInv, Asking PROVE AnswerInv'
<1> USE DEF AnswerInv, Asking
<1>1. UNCHANGED <<thread, command, answer, table, acked, doubtful>>
  BY DEF worker, inside, store
<1>2. queue \in Seq(Commands)
  BY DEF Known, SinkTypeOK, DatabaseTypeOK
<1>3. \/ queue' = queue
      \/ /\ queue' # <<>> /\ queue'[Len(queue')] = asked' /\ Len(queue') = Len(queue) + 1
         /\ \A i \in 1 .. Len(queue) : queue'[i] = queue[i]
         /\ \A i \in 1 .. Len(queue') :
               i \in 1 .. Len(queue) \/ (i = Len(queue') /\ queue'[i] = asked')
  BY <1>2, AppendedRows DEF Sends
<1>4. PlainInv'
  BY <1>1, <1>3 DEF PlainInv
<1>5. AwaitedInv'
  BY <1>1, <1>3, EndedIdle DEF AwaitedInv, Sends
<1>6. OrderInv'
  <2>1. \A i \in 1 .. Len(queue') : Below(Range(table), queue'[i].rows)
    BY <1>3 DEF OrderInv, Fresh
  <2>2. \A i, j \in 1 .. Len(queue') :
           i < j => Below(Range(queue'[i].rows), queue'[j].rows)
    <3>1. Len(queue) \in Nat
      BY <1>2
    <3>2. QED
      BY <1>3, <3>1 DEF OrderInv, Fresh
  <2>3. thread \in Busy =>
           \A i \in 1 .. Len(queue') : Below(Range(command.rows), queue'[i].rows)
    BY <1>3 DEF OrderInv, Fresh
  <2>4. QED
    BY <1>1, <2>1, <2>2, <2>3 DEF OrderInv, StoredInOrder
<1>7. CertainInv'
  BY <1>1, DoubtSettled DEF CertainInv, Sends
<1>8. TruthInv'
  <2>1. Range(table) \subseteq Range(acked) \cup doubtful
    BY DoubtSettled DEF TruthInv
  <2>2. Range(table)' \subseteq Range(acked)' \cup InDoubt'
    <3>1. future' \in {"pending", "ok"} \cup OutcomeUnknown
      BY DoubtSettled DEF Sends
    <3>2. InDoubt' = doubtful \cup Range(asked'.rows)
      BY <1>1, <3>1 DEF InDoubt, Doubted
    <3>3. QED
      BY <1>1, <2>1, <3>2
  <2>3. /\ \A i \in 1 .. Len(queue) : Range(queue[i].rows) \subseteq doubtful
        /\ thread \in Executing => Range(command.rows) \subseteq doubtful
    BY DoubtSettled DEF TruthInv
  <2>4. doubtful \subseteq Expected' /\ (queue' # queue => Range(asked'.rows) \subseteq Expected')
    BY <1>1 DEF Expected, Doubted, Sends
  <2>5. \A i \in 1 .. Len(queue') : Range(queue'[i].rows) \subseteq Expected'
    BY <1>3, <2>3, <2>4
  <2>6. QED
    BY <1>1, <2>2, <2>3, <2>4, <2>5 DEF TruthInv
<1>9. KeptInv'
  BY <1>1, RangeOfNone DEF KeptInv, Sends, OutcomeUnknown
<1>10. QED
  BY <1>4, <1>5, <1>6, <1>7, <1>8, <1>9

\* The caller takes the answer: what was acknowledged is stored.
LEMMA TakingKeeps == ASSUME Known, AnswerInv, TakeAnswer PROVE AnswerInv'
<1> USE DEF AnswerInv
<1>1. /\ UNCHANGED <<queue, join, thread, command, answer, table, asked, sent>>
      /\ future # "pending" /\ future' = "none" /\ join # "taken"
  BY DEF TakeAnswer, database, worker, inside, store, AwaitedInv, SinkError
<1>2. PlainInv' /\ AwaitedInv' /\ OrderInv' /\ CertainInv'
  BY <1>1, DoubtSettled DEF PlainInv, AwaitedInv, OrderInv, CertainInv, StoredInOrder, Batches
<1>3. Range(acked') = IF future = "ok" THEN Range(acked) \cup Range(asked.rows) ELSE Range(acked)
  <2>1. acked \in Seq(Nat) /\ asked.rows \in Seq(Nat)
    BY DEF Known, SinkTypeOK, Commands
  <2>2. Range(acked \o asked.rows) = Range(acked) \cup Range(asked.rows)
    BY ONLY <2>1, RangeConcatenation, ZenonT(40)
  <2>3. QED
    BY <2>2 DEF TakeAnswer
<1>4. doubtful' = IF future \in OutcomeUnknown THEN Doubted ELSE doubtful
  BY DEF TakeAnswer
<1>5. TruthInv'
  <2>1. InDoubt' = doubtful' /\ Expected' = doubtful' /\ Expected = doubtful
        /\ doubtful \subseteq doubtful'
    BY <1>1, <1>4 DEF InDoubt, Expected, Doubted, OutcomeUnknown
  <2>2. Range(table) \subseteq Range(acked') \cup doubtful'
    <3>1. CASE future = "ok"
      BY <1>3, <1>4, <3>1 DEF TruthInv, InDoubt, Doubted, OutcomeUnknown
    <3>2. CASE future \in OutcomeUnknown
      BY <1>3, <1>4, <3>2 DEF TruthInv, InDoubt, OutcomeUnknown
    <3>3. CASE future \notin {"pending", "ok"} \cup OutcomeUnknown
      BY <1>3, <1>4, <3>3 DEF TruthInv, InDoubt
    <3>4. QED
      BY <1>1, <3>1, <3>2, <3>3
  <2>3. QED
    BY <1>1, <2>1, <2>2 DEF TruthInv
<1>6. KeptInv'
  BY <1>1, <1>3 DEF KeptInv
<1>7. QED
  BY <1>2, <1>5, <1>6

\* The caller gives up on a call: its command, if it is still on its way,
\* remains so.
LEMMA GivingUpKeeps == ASSUME Known, AnswerInv, GiveUp PROVE AnswerInv'
<1> USE DEF AnswerInv
<1>1. /\ UNCHANGED <<queue, thread, command, answer, table, asked, sent, acked>>
      /\ future = "pending" /\ future' = "none" /\ join' # "taken" /\ doubtful' = Doubted
  BY DEF GiveUp, LetGo, worker, inside, store
<1>2. PlainInv' /\ AwaitedInv' /\ OrderInv' /\ CertainInv'
  BY <1>1, DoubtSettled DEF PlainInv, AwaitedInv, OrderInv, CertainInv, StoredInOrder, Batches
<1>3. InDoubt = Doubted /\ Expected = Doubted /\ InDoubt' = Doubted /\ Expected' = Doubted
  BY <1>1 DEF InDoubt, Expected, OutcomeUnknown
<1>4. TruthInv' /\ KeptInv'
  BY <1>1, <1>3 DEF TruthInv, KeptInv
<1>5. QED
  BY <1>2, <1>4

\* The sink is dropped: a Shutdown, which has no rows, ends the queue.
LEMMA DroppingKeeps == ASSUME Known, AnswerInv, Dropping PROVE AnswerInv'
<1> USE DEF AnswerInv
<1>1. /\ UNCHANGED <<future, thread, command, answer, table, asked, sent, acked, doubtful>>
      /\ join' # "taken"
  BY DEF Dropping, DropSink, DropReturns, worker, inside, store, ledger
<1>2. UNCHANGED Expected /\ UNCHANGED InDoubt
  BY <1>1 DEF Expected, InDoubt, Doubted
<1>3. CASE queue' = queue
  <2>1. QED
    BY <1>1, <1>2, <1>3 DEF PlainInv, AwaitedInv, OrderInv, CertainInv, StoredInOrder, Batches,
                            TruthInv, KeptInv
<1>4. CASE future # "pending" /\ queue' = Append(queue, [op |-> "Shutdown", rows |-> <<>>])
  <2>1. queue \in Seq(Commands) /\ [op |-> "Shutdown", rows |-> <<>>] \in Commands
    BY NoRows DEF Known, SinkTypeOK, DatabaseTypeOK, Commands
  <2>2. \A i \in 1 .. Len(queue') :
           (i \in 1 .. Len(queue) /\ queue'[i] = queue[i])
           \/ (i = Len(queue') /\ queue'[i].op = "Shutdown" /\ queue'[i].rows = <<>>)
    BY <1>4, <2>1
  <2>3. Len(queue') = Len(queue) + 1 /\ Len(queue) \in Nat
    BY <1>4, <2>1
  <2>4. PlainInv' /\ AwaitedInv' /\ CertainInv'
    BY <1>1, <1>4, <2>2 DEF PlainInv, AwaitedInv, CertainInv
  <2>5. OrderInv'
    BY <1>1, <2>2, <2>3, NoRowsBelow DEF OrderInv, StoredInOrder, Batches
  <2>6. TruthInv' /\ KeptInv'
    BY <1>1, <1>2, <2>2, RangeOfNone DEF TruthInv, KeptInv
  <2>7. QED
    BY <2>4, <2>5, <2>6
<1>5. QED
  BY <1>3, <1>4 DEF Dropping, DropSink, DropReturns, SendShutdown

-----------------------------------------------------------------------------
(* The thread. *)

\* A command goes on and stores nothing; what it responds is not yet an answer.
LEMMA WorkingKeeps ==
    ASSUME Known, AnswerInv, ThreadStep,
           Reuse \/ Open \/ OpenFails \/ Begin \/ Insert \/ Rollback
    PROVE  AnswerInv'
<1> USE DEF AnswerInv
<1>1. /\ UNCHANGED <<future, queue, join, command, table, asked, sent, acked, doubtful>>
      /\ thread \in Executing \ {"close"} /\ thread' \in Busy \ {"close"}
  BY DEF Reuse, Open, OpenFails, Begin, Insert, Rollback, Connected, Goes, Unseen, store,
         ThreadStep, ledger, Executing, Busy
<1>2. thread' = "respond" /\ answer' = "ok" => command.op # "Write"
  BY DatabaseAssumption
     DEF Reuse, Open, OpenFails, Begin, Insert, Rollback, Connected, Goes, SinkError
<1>3. thread \in Busy \ {"close"} /\ UNCHANGED Expected /\ UNCHANGED InDoubt
  BY <1>1 DEF Busy, Expected, InDoubt, Doubted
<1>4. PlainInv' /\ AwaitedInv' /\ OrderInv' /\ CertainInv'
  BY <1>1, <1>3 DEF PlainInv, AwaitedInv, OrderInv, CertainInv, StoredInOrder, Batches
<1>5. TruthInv'
  BY <1>1, <1>3 DEF TruthInv
<1>6. KeptInv'
  BY <1>1, <1>2, RangeOfNone DEF KeptInv, PlainInv
<1>7. QED
  BY <1>4, <1>5, <1>6

\* Rows beyond those stored are stored after them.
LEMMA IncreasingConcat ==
    ASSUME NEW s \in Seq(Nat), NEW t \in Seq(Nat), Increasing(s), Increasing(t),
           Below(Range(s), t)
    PROVE  Increasing(s \o t)
<1>1. \A i \in 1 .. Len(s \o t) :
        \/ i \in 1 .. Len(s) /\ (s \o t)[i] = s[i]
        \/ /\ i > Len(s) /\ i - Len(s) \in 1 .. Len(t)
           /\ (s \o t)[i] = t[i - Len(s)]
  OBVIOUS
<1>2. \A i \in 1 .. Len(s), j \in 1 .. Len(t) : s[i] < t[j]
  BY DEF Below, Range
<1>3. SUFFICES ASSUME NEW i \in 1 .. Len(s \o t), NEW j \in 1 .. Len(s \o t), i < j
               PROVE  (s \o t)[i] < (s \o t)[j]
  BY DEF Increasing
<1>4. CASE j \in 1 .. Len(s) /\ (s \o t)[j] = s[j]
  <2>1. i \in 1 .. Len(s) /\ (s \o t)[i] = s[i]
    BY <1>1, <1>3, <1>4
  <2>2. QED
    BY <1>3, <1>4, <2>1 DEF Increasing
<1>5. CASE /\ j > Len(s) /\ j - Len(s) \in 1 .. Len(t)
           /\ (s \o t)[j] = t[j - Len(s)]
  <2>1. CASE i \in 1 .. Len(s) /\ (s \o t)[i] = s[i]
    BY <1>2, <1>5, <2>1
  <2>2. CASE /\ i > Len(s) /\ i - Len(s) \in 1 .. Len(t)
             /\ (s \o t)[i] = t[i - Len(s)]
    <3>1. i - Len(s) < j - Len(s)
      BY <1>3
    <3>2. QED
      BY <1>5, <2>2, <3>1 DEF Increasing
  <2>3. QED
    BY <1>1, <2>1, <2>2
<1>6. QED
  BY <1>1, <1>4, <1>5

LEMMA CommitKeeps == ASSUME Known, AnswerInv, ThreadStep, Commit PROVE AnswerInv'
<1> USE DEF AnswerInv
<1>1. /\ UNCHANGED <<future, queue, join, command, asked, sent, acked, doubtful>>
      /\ thread = "commit" /\ thread' = "respond"
      /\ answer' \in {"ok", "TransactionOutcomeUnknown"}
      /\ table' \in {table, table \o txn} /\ (answer' = "ok" => table' = table \o txn)
  BY DEF Commit, CommitWith, Goes, Unseen, ThreadStep, ledger
<1>2. txn = command.rows /\ command.op = "Write" /\ command.rows \in Batches
      /\ table \in Seq(Nat) /\ command.rows \in Seq(Nat)
  BY <1>1 DEF Known, BatchInv, CommandsInv, IsBatch, SinkTypeOK, DatabaseTypeOK, Commands
<1>3. Range(table \o txn) = Range(table) \cup Range(command.rows)
  <2>1. table \in Seq(Nat) /\ command.rows \in Seq(Nat)
    BY <1>2
  <2>2. Range(table \o command.rows) = Range(table) \cup Range(command.rows)
    BY ONLY <2>1, RangeConcatenation, ZenonT(40)
  <2>3. QED
    BY <1>2, <2>2
<1>4. Range(table) \subseteq Range(table') /\ Range(table') \subseteq Range(table) \cup Range(command.rows)
      /\ (answer' = "ok" => Range(command.rows) \subseteq Range(table'))
  BY <1>1, <1>3
<1>5. thread \in Executing /\ thread \in Busy \ {"close"} /\ thread' \in Busy \ {"close"}
      /\ thread' \notin Executing
  BY <1>1 DEF Executing, Busy
<1>6. Below(Range(table), command.rows)
  BY <1>5 DEF OrderInv
<1>7. UNCHANGED Expected /\ UNCHANGED InDoubt
  BY <1>1 DEF Expected, InDoubt, Doubted
<1>8. PlainInv' /\ AwaitedInv'
  BY <1>1, <1>5 DEF PlainInv, AwaitedInv
<1>9. OrderInv'
  <2>1. StoredInOrder'
    <3>1. Increasing(table) /\ Increasing(command.rows)
      BY <1>2 DEF OrderInv, StoredInOrder, Increasing
    <3>2. Increasing(table \o txn)
      BY <1>2, <1>6, <3>1, IncreasingConcat
    <3>3. QED
      BY <1>1, <3>1, <3>2 DEF StoredInOrder, Increasing
  <2>2. \A i \in 1 .. Len(queue) : Below(Range(table'), queue[i].rows)
    BY <1>4, <1>5 DEF OrderInv, Below
  <2>3. QED
    BY <1>1, <1>5, <2>1, <2>2 DEF OrderInv, Batches
<1>10. CertainInv'
  <2>1. answer' \notin Certain
    BY <1>1 DEF Certain, SinkError, OutcomeUnknown
  <2>2. future \in Certain /\ asked.rows # <<>> => Below(Range(table'), asked.rows)
    <3>1. ASSUME future \in Certain, asked.rows # <<>>
          PROVE  Below(Range(table), asked.rows) /\ command.rows = <<>>
      BY <1>5, <3>1 DEF CertainInv
    <3>2. QED
      BY <1>4, <3>1, RangeOfNone DEF Below
  <2>3. QED
    BY <1>1, <1>5, <2>1, <2>2 DEF CertainInv
<1>11. TruthInv'
  <2>1. Range(command.rows) \subseteq Expected
    BY <1>5 DEF TruthInv
  <2>2. Expected \subseteq InDoubt
    BY DEF Expected, InDoubt, Doubted, OutcomeUnknown
  <2>3. Range(table') \subseteq Range(acked) \cup InDoubt
    BY <1>4, <2>1, <2>2 DEF TruthInv
  <2>4. QED
    BY <1>1, <1>5, <1>7, <2>3 DEF TruthInv
<1>12. KeptInv'
  BY <1>1, <1>4 DEF KeptInv
<1>13. QED
  BY <1>8, <1>9, <1>10, <1>11, <1>12

LEMMA ReceiveKeeps == ASSUME Known, AnswerInv, ThreadStep, Receive PROVE AnswerInv'
<1> USE DEF AnswerInv
<1>1. /\ UNCHANGED <<future, join, answer, table, asked, sent, acked, doubtful>>
      /\ thread = "receive" /\ queue # <<>> /\ queue' = Tail(queue) /\ command' = Head(queue)
      /\ thread' = IF command'.op = "Shutdown" THEN "close" ELSE "connect"
  BY DEF Receive, Unseen, store, ThreadStep, ledger
<1>2. queue \in Seq(Commands)
  BY DEF Known, SinkTypeOK, DatabaseTypeOK
<1>3. /\ Len(queue) \in Nat /\ Len(queue') = Len(queue) - 1
      /\ 1 \in 1 .. Len(queue) /\ command' = queue[1]
      /\ \A i \in 1 .. Len(queue') : i + 1 \in 1 .. Len(queue) /\ queue'[i] = queue[i + 1]
  BY <1>1, <1>2
<1>4. thread' \in Executing /\ thread' \in Busy /\ thread \notin Busy /\ thread' # "respond"
      /\ (thread' # "close" => command'.op # "Shutdown")
  BY <1>1 DEF Executing, Busy
<1>5. UNCHANGED Expected /\ UNCHANGED InDoubt
  BY <1>1 DEF Expected, InDoubt, Doubted
<1>6. PlainInv'
  BY <1>1, <1>3, <1>4 DEF PlainInv
<1>7. AwaitedInv'
  <2>1. queue' # <<>> => Len(queue') \in 1 .. Len(queue') /\ queue'[Len(queue')] = queue[Len(queue)]
    BY <1>1, <1>2, <1>3
  <2>2. queue' = <<>> => command' = queue[Len(queue)]
    BY <1>1, <1>2, <1>3
  <2>3. QED
    BY <1>1, <2>1, <2>2 DEF AwaitedInv
<1>8. OrderInv'
  <2>1. \A i \in 1 .. Len(queue') : Below(Range(command'.rows), queue'[i].rows)
    <3>1. \A i \in 1 .. Len(queue') : 1 < i + 1
      OBVIOUS
    <3>2. QED
      BY <1>3, <3>1 DEF OrderInv
  <2>2. \A i, j \in 1 .. Len(queue') :
           i < j => Below(Range(queue'[i].rows), queue'[j].rows)
    <3>1. \A i, j \in 1 .. Len(queue') : i < j => i + 1 < j + 1
      OBVIOUS
    <3>2. QED
      BY <1>3, <3>1 DEF OrderInv
  <2>3. QED
    BY <1>1, <1>3, <2>1, <2>2 DEF OrderInv, StoredInOrder, Batches
<1>9. CertainInv'
  BY <1>1, <1>3, <1>4 DEF CertainInv
<1>10. TruthInv'
  BY <1>1, <1>3, <1>5 DEF TruthInv
<1>11. KeptInv'
  BY <1>1, <1>4 DEF KeptInv
<1>12. QED
  BY <1>6, <1>7, <1>8, <1>9, <1>10, <1>11

\* The connection is dropped or kept, and with it an in-memory table.
LEMMA DisposedTable ==
    ASSUME OrderInv, UNCHANGED sent, table' \in {<<>>, table}
    PROVE  /\ Range(table') \subseteq Range(table)
           /\ StoredInOrder' /\ \A b \in Batches' : Increasing(b)
           /\ \A rows : Below(Range(table), rows) => Below(Range(table'), rows)
<1>1. Range(table') \in {{}, Range(table)}
  BY RangeOfNone
<1>2. StoredInOrder'
  BY DEF OrderInv, StoredInOrder
<1>3. QED
  BY <1>1, <1>2 DEF OrderInv, Batches, Below

\* The answer reaches the caller, or nobody: it is that of the command the
\* caller awaits, and tells what became of its rows.
LEMMA RespondKeeps == ASSUME Known, AnswerInv, ThreadStep, Respond PROVE AnswerInv'
<1> USE DEF AnswerInv
<1>1. /\ UNCHANGED <<queue, join, command, answer, asked, sent, acked, doubtful>>
      /\ thread = "respond" /\ thread' = "receive"
      /\ table' \in {<<>>, table} /\ (~InMemory => table' = table)
      /\ future' = IF Awaited THEN answer ELSE future
  BY DEF Respond, Dispose, Disconnect, inside, store, ThreadStep, ledger
<1>2. thread \in Busy \ {"close"} /\ thread' \notin Busy /\ thread' \notin Executing
      /\ answer \in {"ok"} \cup SinkError
  BY <1>1 DEF Executing, Busy, Known, SinkTypeOK, DatabaseTypeOK
<1>3. /\ Range(table') \subseteq Range(table)
      /\ StoredInOrder' /\ \A b \in Batches' : Increasing(b)
      /\ \A rows : Below(Range(table), rows) => Below(Range(table'), rows)
  BY <1>1, DisposedTable
<1>4. Awaited => /\ command = asked /\ join # "taken" /\ queue = <<>> /\ future = "pending"
                 /\ future' = answer
  BY <1>1, <1>2 DEF Awaited, AwaitedInv, PlainInv
<1>5. PlainInv' /\ AwaitedInv'
  BY <1>1, <1>2, <1>4 DEF PlainInv, AwaitedInv
<1>6. OrderInv'
  BY <1>1, <1>2, <1>3 DEF OrderInv
<1>7. CertainInv'
  <2>1. CASE Awaited
    <3>1. answer \in Certain => Below(Range(table'), asked.rows)
      BY <1>1, <1>3, <1>4, <2>1 DEF CertainInv
    <3>2. QED
      BY <1>1, <1>2, <1>4, <2>1, <3>1 DEF CertainInv
  <2>2. CASE ~Awaited
    BY <1>1, <1>2, <1>3, <2>2 DEF CertainInv
  <2>3. QED
    BY <2>1, <2>2
<1>8. TruthInv'
  <2>1. CASE Awaited
    <3>1. InDoubt = Doubted
      BY <1>4, <2>1 DEF InDoubt
    <3>2. CASE answer \in {"ok"} \cup OutcomeUnknown
      <4>1. InDoubt' = Doubted
        BY <1>1, <1>4, <2>1, <3>2 DEF InDoubt, Doubted
      <4>2. QED
        BY <1>1, <1>2, <1>3, <1>4, <2>1, <3>1, <4>1 DEF TruthInv
    <3>3. CASE answer \in Certain
      <4>1. InDoubt' = doubtful
        BY <1>1, <1>4, <2>1, <3>3, DoubtSettled DEF InDoubt, Certain, OutcomeUnknown
      <4>2. Range(table) \cap Range(asked.rows) = {}
        <5>1. Below(Range(table), asked.rows)
          BY <1>1, <1>4, <2>1, <3>3 DEF CertainInv
        <5>2. Range(table) \subseteq Nat
          BY RangeOfSeq DEF Known, SinkTypeOK, DatabaseTypeOK
        <5>3. QED
          BY <5>1, <5>2 DEF Below
      <4>3. Range(table) \subseteq Range(acked) \cup doubtful
        BY <3>1, <4>2 DEF TruthInv, Doubted
      <4>4. QED
        BY <1>1, <1>2, <1>3, <1>4, <2>1, <4>1, <4>3 DEF TruthInv
    <3>4. QED
      BY <1>2, <3>2, <3>3 DEF Certain
  <2>2. CASE ~Awaited
    <3>1. UNCHANGED Expected /\ UNCHANGED InDoubt
      BY <1>1, <2>2 DEF Expected, InDoubt, Doubted
    <3>2. QED
      BY <1>1, <1>2, <1>3, <3>1 DEF TruthInv
  <2>3. QED
    BY <2>1, <2>2
<1>9. KeptInv'
  BY <1>1, <1>2, <1>4 DEF KeptInv
<1>10. QED
  BY <1>5, <1>6, <1>7, <1>8, <1>9

\* The thread closes the connection or ends; a command that it has received or
\* that is still queued will not be executed.
LEMMA EndingKeeps ==
    ASSUME Known, AnswerInv, ThreadStep, Close \/ Exit \/ Panic PROVE AnswerInv'
<1> USE DEF AnswerInv
<1>1. /\ UNCHANGED <<join, command, answer, asked, sent, acked, doubtful>>
      /\ thread' \in {"leave", "exited", "panicked"}
      /\ table' \in {<<>>, table} /\ (~InMemory => table' = table)
      /\ queue' = queue \/ queue' = <<>>
      /\ \/ future' = future
         \/ future = "pending" /\ join # "taken" /\ future' = "WorkerUnavailable"
      /\ future' # future => queue' = <<>>
  BY DEF Close, Exit, Panic, Ends, Disconnect, Unseen, inside, ThreadStep, ledger
<1>2. thread' \notin Busy /\ thread' \notin Executing
  BY <1>1 DEF Executing, Busy
<1>3. /\ Range(table') \subseteq Range(table)
      /\ StoredInOrder' /\ \A b \in Batches' : Increasing(b)
      /\ \A rows : Below(Range(table), rows) => Below(Range(table'), rows)
  BY <1>1, DisposedTable
<1>4. PlainInv' /\ AwaitedInv'
  BY <1>1, <1>2 DEF PlainInv, AwaitedInv
<1>5. OrderInv'
  BY <1>1, <1>2, <1>3 DEF OrderInv
<1>6. CertainInv'
  BY <1>1, <1>2, <1>3, DoubtSettled DEF CertainInv
<1>7. TruthInv'
  <2>1. UNCHANGED InDoubt
    BY <1>1 DEF InDoubt, Doubted, OutcomeUnknown
  <2>2. future' = future => UNCHANGED Expected
    BY <1>1 DEF Expected, Doubted
  <2>3. QED
    BY <1>1, <1>2, <1>3, <2>1, <2>2 DEF TruthInv
<1>8. KeptInv'
  BY <1>1, <1>2 DEF KeptInv
<1>9. QED
  BY <1>4, <1>5, <1>6, <1>7, <1>8

\* shutdown() returns, to a caller that awaits no rows.
LEMMA JoinedKeeps == ASSUME Known, AnswerInv, ThreadStep, Joined PROVE AnswerInv'
<1> USE DEF AnswerInv
<1>1. /\ UNCHANGED <<queue, thread, command, answer, table, asked, sent, acked, doubtful>>
      /\ future = "pending" /\ join = "taken" /\ join' = "joined" /\ ~Alive
      /\ future' \in {"ok", "WorkerFailed"}
  BY DEF Joined, worker, inside, store, ThreadStep, ledger
<1>2. asked.rows = <<>> /\ queue = <<>> /\ thread \notin Busy /\ thread \notin Executing
  BY <1>1, EndedIdle DEF AwaitedInv, PlainInv, Known, EndedInv
<1>3. Doubted = doubtful
  BY <1>2, RangeOfNone DEF Doubted
<1>4. PlainInv' /\ AwaitedInv' /\ OrderInv' /\ CertainInv'
  BY <1>1, <1>2 DEF PlainInv, AwaitedInv, OrderInv, CertainInv, StoredInOrder, Batches
<1>5. InDoubt = doubtful /\ InDoubt' = doubtful
  BY <1>1, <1>3 DEF InDoubt, Doubted
<1>6. TruthInv'
  BY <1>1, <1>2, <1>5 DEF TruthInv
<1>7. KeptInv'
  BY <1>1, <1>2, RangeOfNone DEF KeptInv
<1>8. QED
  BY <1>4, <1>6, <1>7

LEMMA NextAnswer == Known /\ AnswerInv /\ [SinkNext]_sinkVars => AnswerInv'
<1> SUFFICES ASSUME Known, AnswerInv, [SinkNext]_sinkVars PROVE AnswerInv'
  OBVIOUS
<1>1. CASE CallInitialize \/ CallWrite \/ CallShutdown \/ RetryWrite
  BY <1>1, CallsAsk, AskingKeeps
<1>2. CASE TakeAnswer
  BY <1>2, TakingKeeps
<1>3. CASE GiveUp
  BY <1>3, GivingUpKeeps
<1>4. CASE Dropping
  BY <1>4, DroppingKeeps
<1>5. CASE ThreadStep
  BY <1>5, WorkingKeeps, CommitKeeps, ReceiveKeeps, RespondKeeps, EndingKeeps, JoinedKeeps
     DEF ThreadStep, WorkerStep
<1>6. CASE UNCHANGED sinkVars
  BY <1>6 DEF sinkVars, database, worker, inside, store, ledger, AnswerInv, PlainInv, AwaitedInv,
              OrderInv, CertainInv, TruthInv, KeptInv, StoredInOrder, Batches, Below, InDoubt,
              Expected, Doubted
<1>7. QED
  BY <1>1, <1>2, <1>3, <1>4, <1>5, <1>6 DEF SinkNext, SinkIdle

LEMMA AnswerAlways == SinkSpec => []AnswerInv
BY InitAnswer, NextAnswer, KnownAlways, PTL DEF SinkSpec

-----------------------------------------------------------------------------
(* What the answers promise. *)

\* No row is stored twice or out of order, whatever calls were retried, given up
\* while their command was on its way, or cut off by a thread that ended.
THEOREM StoresOnceInOrder == SinkSpec => []StoredInOrder
<1>1. AnswerInv => StoredInOrder
  BY DEF AnswerInv, OrderInv
<1>2. QED
  BY <1>1, AnswerAlways, PTL

\* The answers of a sink with a persistent database tell its caller the truth:
\* what was acknowledged is stored, and an error that may be retried, as any but
\* those of unknown outcome, says that nothing was.
THEOREM AnswersTruthfully == ASSUME ~InMemory PROVE SinkSpec => []AnswersTrue
<1>1. AnswerInv => AnswersTrue
  BY DEF AnswerInv, TruthInv, KeptInv, AnswersTrue
<1>2. QED
  BY <1>1, AnswerAlways, PTL

-----------------------------------------------------------------------------
(* What the fairness of the thread is needed for, and no more than that:   *)
(* while somebody waits, it can go on, and it cannot go on for ever.       *)

Waiting == future = "pending" \/ join = "dropping"

\* Who waits for the thread finds it with a step to take: every state of a thread
\* that is alive has one, except an empty queue.  With the thread gone only a
\* shutdown() is pending, and its join returns.
NeverStuck ==
    /\ Waiting /\ thread = "receive" => queue # <<>>
    /\ future = "pending" /\ ~Alive => join = "taken"

\* The Shutdown sent by Drop is in the queue until the thread executes it.
StopInv ==
    join = "dropping" /\ Alive /\ thread \notin {"close", "leave"} =>
        \E i \in 1 .. Len(queue) : queue[i].op = "Shutdown"

ProgressInv == StopInv /\ NeverStuck

LEMMA InitProgress == SinkInit => ProgressInv
BY DEF SinkInit, DatabaseInit, ProgressInv, StopInv, NeverStuck, Waiting, Alive

LEMMA AppendIsLast ==
    ASSUME NEW q \in Seq(Commands), NEW c \in Commands
    PROVE  /\ Append(q, c) # <<>> /\ Append(q, c) \in Seq(Commands)
           /\ Append(q, c)[Len(Append(q, c))] = c
           /\ Len(Append(q, c)) \in 1 .. Len(Append(q, c))
OBVIOUS

LEMMA NextProgress == SinkTypeOK /\ ProgressInv /\ [SinkNext]_sinkVars => ProgressInv'
<1> SUFFICES ASSUME SinkTypeOK, ProgressInv, [SinkNext]_sinkVars PROVE ProgressInv'
  OBVIOUS
<1> USE DEF ProgressInv, StopInv, NeverStuck, Waiting, Alive
<1>1. queue \in Seq(Commands) /\ thread \in ThreadState
  BY DEF SinkTypeOK, DatabaseTypeOK
<1>2. ASSUME NEW op, NEW rows, Asks(op, rows) PROVE ProgressInv'
  <2>1. join # "dropping" /\ join' # "dropping" /\ thread' = thread
    BY <1>2 DEF Asks, Call, Request, WriteBatch, Shutdown, database, worker
  <2>2. CASE Request(op, <<>>) \/ Request(op, rows)
    <3>1. \A c : Append(queue, c) # <<>>
      BY <1>1
    <3>2. QED
      BY <2>1, <2>2, <3>1 DEF Request
  <2>3. CASE Shutdown
    <3>1. \A c : Append(queue, c) # <<>>
      BY <1>1
    <3>2. QED
      BY <2>1, <2>3, <3>1 DEF Shutdown, SendShutdown
  <2>4. CASE future' = "ok" /\ UNCHANGED database
    BY <2>1, <2>4
  <2>5. QED
    BY <1>2, <2>2, <2>3, <2>4 DEF Asks, Call, WriteBatch
<1>3. CASE CallInitialize \/ CallWrite \/ CallShutdown \/ RetryWrite
  BY <1>2, <1>3 DEF CallInitialize, CallWrite, CallShutdown, RetryWrite
<1>4. CASE TakeAnswer
  BY <1>4 DEF TakeAnswer, database, worker
<1>5. CASE GiveUp
  BY <1>5 DEF GiveUp, LetGo, worker
<1>6. CASE Dropping
  <2>1. CASE DropSink
    <3>1. [op |-> "Shutdown", rows |-> <<>>] \in Commands
      BY NoRows DEF Commands
    <3>2. UNCHANGED <<future, thread>> /\ future # "pending" /\ join' = "dropping"
      BY <2>1 DEF DropSink, worker
    <3>3. CASE Alive
      <4> DEFINE stop == [op |-> "Shutdown", rows |-> <<>>]
      <4>1. queue' = Append(queue, stop)
        BY <2>1, <3>3 DEF DropSink, SendShutdown
      <4>2. stop.op = "Shutdown"
        OBVIOUS
      <4> HIDE DEF stop
      <4>3. /\ queue' # <<>> /\ queue'[Len(queue')] = stop
            /\ Len(queue') \in 1 .. Len(queue')
        BY <1>1, <3>1, <4>1, AppendIsLast DEF stop
      <4>4. QED
        BY <3>2, <4>2, <4>3
    <3>4. CASE ~Alive
      BY <3>2, <3>4
    <3>5. QED
      BY <3>3, <3>4
  <2>2. CASE DropReturns
    BY <2>2 DEF DropReturns, worker
  <2>3. QED
    BY <1>6, <2>1, <2>2 DEF Dropping
<1>7. CASE ThreadStep
  <2>1. CASE Receive
    <3>1. /\ queue # <<>> /\ command' = Head(queue) /\ queue' = Tail(queue)
          /\ thread' = IF command'.op = "Shutdown" THEN "close" ELSE "connect"
          /\ UNCHANGED <<future, join>> /\ thread = "receive"
      BY <2>1 DEF Receive, Unseen
    <3>2. /\ command' = queue[1] /\ Len(queue') = Len(queue) - 1
          /\ \A i \in 1 .. Len(queue') : queue'[i] = queue[i + 1]
          /\ Len(queue) \in Nat
      BY <1>1, <3>1
    <3>3. StopInv'
      <4>1. SUFFICES ASSUME join = "dropping", command'.op # "Shutdown"
                     PROVE  \E i \in 1 .. Len(queue') : queue'[i].op = "Shutdown"
        BY <3>1
      <4>2. PICK i \in 1 .. Len(queue) : queue[i].op = "Shutdown"
        BY <3>1, <4>1
      <4>3. i # 1 /\ i - 1 \in 1 .. Len(queue') /\ (i - 1) + 1 = i
        BY <3>2, <4>1, <4>2
      <4>4. QED
        BY <3>2, <4>2, <4>3
    <3>4. NeverStuck'
      BY <3>1
    <3>5. QED
      BY <3>3, <3>4
  <2>2. CASE Reuse \/ Open \/ OpenFails \/ Begin \/ Insert \/ Rollback
    BY <2>2 DEF Reuse, Open, OpenFails, Begin, Insert, Rollback, Connected, Goes, Unseen
  <2>3. CASE Commit
    BY <2>3 DEF Commit, CommitWith, Goes, Unseen
  <2>4. CASE Respond
    <3>1. /\ thread = "respond" /\ thread' = "receive" /\ UNCHANGED <<queue, join>>
          /\ future' = IF Awaited THEN answer ELSE future
      BY <2>4 DEF Respond
    <3>2. answer # "pending"
      BY DEF SinkTypeOK, DatabaseTypeOK, SinkError
    <3>3. future' = "pending" => queue # <<>>
      BY <3>1, <3>2 DEF Awaited
    <3>4. join = "dropping" => queue # <<>>
      <4>1. SUFFICES ASSUME join = "dropping" PROVE queue # <<>>
        OBVIOUS
      <4>2. PICK i \in 1 .. Len(queue) : queue[i].op = "Shutdown"
        BY <3>1, <4>1
      <4>3. QED
        BY <4>2
    <3>5. QED
      BY <3>1, <3>3, <3>4
  <2>5. CASE Close
    BY <2>5 DEF Close, Unseen
  <2>6. CASE Exit \/ Panic
    BY <2>6 DEF Exit, Panic, Ends
  <2>7. CASE Joined
    BY <2>7 DEF Joined, worker, SinkError
  <2>8. QED
    BY <1>7, <2>1, <2>2, <2>3, <2>4, <2>5, <2>6, <2>7 DEF ThreadStep, WorkerStep
<1>8. CASE UNCHANGED sinkVars
  BY <1>8 DEF sinkVars, database, worker
<1>9. QED
  BY <1>3, <1>4, <1>5, <1>6, <1>7, <1>8 DEF SinkNext, SinkIdle

\* No call and no Drop waits for a thread that has nothing to do or is gone:
\* whichever calls were given up or queued behind a Shutdown before.
THEOREM NeverGetsStuck == SinkSpec => []NeverStuck
<1>1. ProgressInv => NeverStuck
  BY DEF ProgressInv
<1>2. QED
  BY <1>1, SinkTypeCorrect, InitProgress, NextProgress, PTL DEF SinkSpec

\* The steps the thread takes at most until it receives the next command.
StepsLeft ==
    IF thread = "connect" THEN 5
    ELSE IF thread = "begin" THEN 4
    ELSE IF thread = "insert" THEN 3
    ELSE IF thread \in {"commit", "rollback", "close"} THEN 2
    ELSE IF thread \in {"respond", "leave"} THEN 1
    ELSE 0

\* What is to be done before nobody waits any more.
Work ==
    6 * Len(queue) + StepsLeft
      + (IF future = "pending" THEN 2 ELSE IF future = "none" THEN 0 ELSE 1)

ComesCloser == Waiting /\ Waiting' => Work \in Nat /\ Work' \in Nat /\ Work' < Work

LEMMA StepComesCloser ==
    ASSUME SinkTypeOK, SinkTypeOK', NeverStuck, SinkNext
    PROVE  ComesCloser \/ UNCHANGED sinkVars
<1> SUFFICES ASSUME Waiting, Waiting', ~UNCHANGED sinkVars
             PROVE  Work \in Nat /\ Work' \in Nat /\ Work' < Work
  BY DEF ComesCloser
<1> DEFINE open == IF future = "pending" THEN 2 ELSE IF future = "none" THEN 0 ELSE 1
<1>1. /\ queue \in Seq(Commands) /\ queue' \in Seq(Commands)
      /\ future \in CallState /\ answer \in {"ok"} \cup SinkError
  BY DEF SinkTypeOK, DatabaseTypeOK
<1>2. /\ Len(queue) \in Nat /\ Len(queue') \in Nat
      /\ StepsLeft \in 0 .. 5 /\ StepsLeft' \in 0 .. 5 /\ open \in 0 .. 2 /\ open' \in 0 .. 2
  BY <1>1 DEF StepsLeft
<1>3. Work = 6 * Len(queue) + StepsLeft + open /\ Work' = 6 * Len(queue') + StepsLeft' + open'
  BY DEF Work
<1>4. Work \in Nat /\ Work' \in Nat
  <2> HIDE DEF open
  <2>1. QED
    BY <1>2, <1>3
<1>5. SUFFICES \/ Len(queue') = Len(queue) /\ StepsLeft' <= StepsLeft /\ open' < open
               \/ Len(queue') = Len(queue) /\ StepsLeft' < StepsLeft /\ open' <= open
               \/ Len(queue') = Len(queue) - 1 /\ open' <= open /\ StepsLeft = 0
               \/ Len(queue') <= Len(queue) /\ open' <= open /\ StepsLeft' < StepsLeft
  <2> HIDE DEF open
  <2>1. QED
    BY <1>2, <1>3, <1>4
<1>6. ASSUME NEW op, NEW rows, Asks(op, rows), future # "pending" PROVE FALSE
  BY <1>6 DEF Asks, Waiting
<1>7. ~(CallInitialize \/ CallWrite \/ CallShutdown \/ RetryWrite)
  BY <1>6 DEF CallInitialize, CallWrite, CallShutdown, RetryWrite, SinkError
<1>8. CASE TakeAnswer
  BY <1>8 DEF TakeAnswer, database, worker, SinkError, Waiting, StepsLeft
<1>9. CASE GiveUp
  BY <1>9 DEF GiveUp, LetGo, worker, StepsLeft
<1>10. CASE Dropping
  BY <1>10 DEF Dropping, DropSink, DropReturns, Waiting, NeverStuck
<1>11. CASE ThreadStep
  <2>1. CASE Receive
    <3>1. /\ thread = "receive" /\ queue # <<>> /\ queue' = Tail(queue) /\ UNCHANGED future
      BY <2>1 DEF Receive, Unseen
    <3>2. Len(queue') = Len(queue) - 1 /\ StepsLeft = 0
      BY <1>1, <3>1 DEF StepsLeft
    <3>3. open' <= open
      BY <3>1
    <3>4. QED
      BY <3>2, <3>3
  <2>2. CASE Reuse \/ Open \/ OpenFails \/ Begin \/ Insert \/ Rollback
    BY <2>2 DEF Reuse, Open, OpenFails, Begin, Insert, Rollback, Connected, Goes, Unseen, StepsLeft
  <2>3. CASE Commit
    BY <2>3 DEF Commit, CommitWith, Goes, Unseen, StepsLeft
  <2>4. CASE Respond
    <3>1. /\ thread = "respond" /\ thread' = "receive" /\ UNCHANGED queue
          /\ future' = IF Awaited THEN answer ELSE future
      BY <2>4 DEF Respond
    <3>2. open' <= open
      BY <1>1, <3>1 DEF Awaited, SinkError
    <3>3. StepsLeft' < StepsLeft
      BY <3>1 DEF StepsLeft
    <3>4. QED
      BY <3>1, <3>2, <3>3
  <2>5. CASE Close
    BY <2>5 DEF Close, Unseen, StepsLeft
  <2>6. CASE Exit \/ Panic
    <3>1. /\ thread' \in {"exited", "panicked"} /\ queue' = <<>>
          /\ thread \in Executing \cup {"respond", "leave"}
          /\ future' = IF future = "pending" /\ join # "taken" THEN "WorkerUnavailable" ELSE future
      BY <2>6 DEF Exit, Panic, Ends
    <3>2. Len(queue') = 0 /\ open' <= open /\ StepsLeft' < StepsLeft
      BY <3>1 DEF StepsLeft, Executing
    <3>3. QED
      BY <1>2, <3>2
  <2>7. CASE Joined
    <3>1. /\ future = "pending" /\ future' \in {"ok", "WorkerFailed"} /\ UNCHANGED <<queue, thread>>
      BY <2>7 DEF Joined, worker
    <3>2. QED
      BY <3>1 DEF StepsLeft
  <2>8. QED
    BY <1>11, <2>1, <2>2, <2>3, <2>4, <2>5, <2>6, <2>7 DEF ThreadStep, WorkerStep
<1>12. QED
  BY <1>7, <1>8, <1>9, <1>10, <1>11 DEF SinkNext, SinkIdle

\* Nobody waits for ever on a thread that runs: each step after which somebody still
\* waits leaves less to do than before, whatever was queued ahead of the call.
THEOREM AlwaysComesCloser == SinkSpec => [][ComesCloser]_sinkVars
<1>1. SinkTypeOK /\ SinkTypeOK' /\ NeverStuck /\ [SinkNext]_sinkVars => [ComesCloser]_sinkVars
  BY StepComesCloser
<1>2. QED
  BY <1>1, SinkTypeCorrect, NeverGetsStuck, PTL DEF SinkSpec
=============================================================================
