---------------------------- MODULE ProcessProofs ----------------------------
(***************************************************************************)
(* Theorems about Process, for any outcome of the registrations and any    *)
(* number of signals at any moment.                                        *)
(***************************************************************************)
EXTENDS Process, PipelineProofs

-----------------------------------------------------------------------------
(* The task inside the process.  Its steps are those of Pipeline, and two    *)
(* more: a failed registration completes the shutdown future at its first    *)
(* poll, and a signal may come between the return of the task and the exit.  *)

LateSignal ==
    UNCHANGED <<pc, around, call, timer>> /\ shutdown' \in {shutdown, "ready"}

LEMMA TaskOfProcess ==
    [ProcessNext]_processVars => [Next]_vars \/ RegistrationFails \/ LateSignal
<1> SUFFICES ASSUME [ProcessNext]_processVars
             PROVE  [Next]_vars \/ RegistrationFails \/ LateSignal
  OBVIOUS
<1>1. CASE Works
  <2>1. CASE TaskRuns
    BY <2>1 DEF TaskRuns, Next
  <2>2. CASE Waits \/ Exits
    BY <2>2 DEF Waits, Exits
  <2>3. QED
    BY <1>1, <2>1, <2>2 DEF Works
<1>2. CASE Passes
  BY <1>2 DEF Passes, SourceYields, Elsewhere, Next
<1>3. CASE SendSignal
  BY <1>3 DEF SendSignal, Completes, Kills, LateSignal, vars, around, call
<1>4. CASE Ended \/ UNCHANGED processVars
  BY <1>4 DEF Ended, processVars
<1>5. QED
  BY <1>1, <1>2, <1>3, <1>4 DEF ProcessNext

LEMMA NextTask ==
    ASSUME TypeOK, DeliveryInv, [ProcessNext]_processVars
    PROVE  TypeOK' /\ DeliveryInv'
<1>1. CASE [Next]_vars
  BY <1>1, NextType, NextDelivery
<1>2. CASE RegistrationFails \/ LateSignal
  <2>1. /\ UNCHANGED <<pc, around, call>>
        /\ shutdown' \in {shutdown, "ready", "taken"}
        /\ timer' \in {timer, [timer EXCEPT !.shutdown = ShutdownTimeout]}
    BY <1>2 DEF RegistrationFails, LateSignal
  <2>2. timer' \in TimerState
    BY <2>1, PipelineAssumption DEF TypeOK, TimerState, Ticks
  <2>3. TypeOK'
    BY <2>1, <2>2 DEF TypeOK, around, settings, buffer, call, source, history
  <2>4. DeliveryInv'
    BY <2>1, IdleDelivery DEF around, buffer, call, source, history
  <2>5. QED
    BY <2>3, <2>4
<1>3. QED
  BY <1>1, <1>2, TaskOfProcess

-----------------------------------------------------------------------------
(* The exit code. *)

\* The task has returned when the process exits with a code, and nothing changes
\* its result after that.
ExitInv == process = "exit 0" => result = "Ok"

LEMMA NextExit ==
    ASSUME ExitInv, [ProcessNext]_processVars PROVE ExitInv'
<1>1. CASE process = "running"
  <2>1. process' = "exit 0" => Exits
    BY <1>1 DEF ProcessNext, Works, TaskRuns, RegistrationFails, Waits, Passes, SourceYields,
                Elsewhere, SendSignal, Completes, Kills, Ended, processVars
  <2>2. QED
    BY <2>1 DEF Exits, Exit, ExitInv, vars
<1>2. CASE process # "running"
  <2>1. UNCHANGED <<process, result>>
    BY <1>2 DEF ProcessNext, Works, Passes, SendSignal, Ended, processVars, vars
  <2>2. QED
    BY <2>1 DEF ExitInv
<1>3. QED
  BY <1>1, <1>2

\* Exit code 0 says that every record read was acknowledged, whatever signals were
\* sent and whichever handlers could be registered.
THEOREM ZeroDelivers == ProcessSpec => []ZeroMeansDelivered
<1> DEFINE Inv == TypeOK /\ DeliveryInv /\ ExitInv
<1>1. ProcessInit => Inv
  BY InitType, InitDelivery DEF ProcessInit, ExitInv
<1>2. Inv /\ [ProcessNext]_processVars => Inv'
  BY NextTask, NextExit
<1>3. Inv => ZeroMeansDelivered
  BY DEF DeliveryInv, OkMeansDelivered, ExitInv, ZeroMeansDelivered
<1>4. QED
  BY <1>1, <1>2, <1>3, PTL DEF ProcessSpec

-----------------------------------------------------------------------------
(* The handlers. *)

\* The read that blocks was polled in a select! that polled shutdown_signal too.
\* Without a poll there is no handler, and a kill needs a signal that has none.
KillInv ==
    /\ reading => polled
    /\ process = "killed" => handlers # Signals

LEMMA NextKill ==
    ASSUME KillInv, [ProcessNext]_processVars PROVE KillInv'
<1> USE DEF KillInv, watch
<1>1. CASE process = "running" /\ (TaskRuns \/ SourceYields)
  BY <1>1 DEF TaskRuns, SourceYields, MayRegister, Registered
<1>2. CASE process = "running" /\ RegistrationFails
  BY <1>2 DEF RegistrationFails
<1>3. CASE process = "running" /\ Waits
  BY <1>3 DEF Waits, Registered
<1>4. CASE process = "running" /\ (Exits \/ Elsewhere)
  <2>1. UNCHANGED <<polled, handlers, reading>> /\ process' # "killed"
    BY <1>4 DEF Exits, Exit, Elsewhere
  <2>2. QED
    BY <2>1
<1>5. CASE SendSignal
  <2>1. PICK signal \in Signals : IF signal \in handlers THEN Completes ELSE Kills
    BY <1>5 DEF SendSignal
  <2>2. QED
    BY <1>5, <2>1 DEF SendSignal, Completes, Kills
<1>6. CASE Ended \/ UNCHANGED processVars
  BY <1>6 DEF Ended, processVars
<1>7. QED
  BY <1>1, <1>2, <1>3, <1>4, <1>5, <1>6 DEF ProcessNext, Works, Passes

\* While the process waits for stdin no signal takes a record with it, for any
\* batch size and any number of signals, unless a registration failed.
THEOREM KillsHarmlessly == ProcessSpec => []KillLosesNothing
<1>1. ProcessInit => KillInv
  BY DEF ProcessInit, KillInv
<1>2. KillInv => KillLosesNothing
  BY DEF KillInv, KillLosesNothing
<1>3. QED
  BY <1>1, <1>2, NextKill, PTL DEF ProcessSpec

-----------------------------------------------------------------------------
(* After a signal: what the fairness of ProcessSpec is needed for, and no    *)
(* more than that.                                                           *)

\* A signal that did not kill the process is in the shutdown future, which can
\* be polled while no deadline is set; the cleanup has its own deadline.
SignalInv ==
    /\ sent /\ process = "running" => shutdown # "pending"
    /\ PollInv
    /\ pc = "cleanup" => timer.cleanup \in Nat

LEMMA InitSignal == ProcessInit => SignalInv
BY DEF ProcessInit, Init, SignalInv, PollInv

LEMMA TaskSignal ==
    ASSUME TypeOK, TypeOK', SignalInv, [Next]_vars
    PROVE  /\ shutdown' = "pending" => shutdown = "pending"
           /\ PollInv'
           /\ pc' = "cleanup" => timer'.cleanup \in Nat
<1> USE PipelineAssumption
    DEF SignalInv, PollInv, Armed, Expired, TypeOK, TimerState, Ticks, Off, Forwarding,
        BoundedOps, RetriedOps, FlushOps, settings, buffer, call, source, history, around
<1>1. CASE RejectSettings \/ OpFails \/ TimesOut \/ SourceFlushDone
  <2>1. UNCHANGED shutdown /\ pc' = "cleanup" /\ timer'.cleanup = ShutdownTimeout
    BY <1>1 DEF RejectSettings, OpFails, TimesOut, SourceFlushDone, Fail, NoTimers
  <2>2. PollInv'
    BY ONLY <2>1 DEF PollInv, Forwarding, BoundedOps, RetriedOps, FlushOps
  <2>3. QED
    BY ONLY <2>1, <2>2, PipelineAssumption
<1>2. CASE StartInitialize \/ InitializeDone \/ CallSink \/ SinkAnswers
  BY <1>2 DEF StartInitialize, InitializeDone, CallSink, SinkAnswers
<1>3. CASE FinishRequested \/ SourceEnds \/ SourceFails \/ LatencyExpired
  BY <1>3 DEF FinishRequested, SourceEnds, SourceFails, LatencyExpired, Selecting,
              Finish, FlushNow, FlushBuffer
<1>4. CASE ShutdownRequested \/ BoundShutdown
  <2>1. /\ pc' = pc /\ pc \in Forwarding /\ shutdown' # "pending"
        /\ timer'.shutdown = ShutdownTimeout
    BY <1>4 DEF ShutdownRequested, BoundShutdown, Selecting, PollShutdown
  <2>2. Armed("shutdown")'
    BY <2>1 DEF Armed
  <2>3. PollInv'
    BY ONLY <2>2 DEF PollInv
  <2>4. pc' # "cleanup"
    BY ONLY <2>1 DEF Forwarding, BoundedOps, RetriedOps, FlushOps
  <2>5. QED
    BY ONLY <2>1, <2>3, <2>4
<1>5. CASE RetryLater \/ RetryNow
  BY <1>5 DEF RetryLater, RetryNow
<1>6. CASE FlushDone \/ FinalFlushDone
  BY <1>6 DEF FlushDone, FinalFlushDone, Disarmed
<1>7. CASE Closed \/ CleanupDone
  BY <1>7 DEF Closed, CleanupDone
<1>8. CASE BufferRecord \/ FillBatch \/ SkipParseError
  BY <1>8 DEF BufferRecord, FillBatch, SkipParseError, ReadRecord, ReadItem, Selecting,
              FlushBuffer
<1>9. CASE Signal
  BY <1>9 DEF Signal
<1>10. CASE Tick
  <2>1. \A t \in {"shutdown", "cleanup"} :
           timer'[t] = IF timer[t] > 0 THEN timer[t] - 1 ELSE timer[t]
    BY <1>10 DEF Tick
  <2>2. QED
    BY <1>10, <2>1 DEF Tick
<1>11. CASE UNCHANGED vars
  BY <1>11 DEF vars
<1>12. QED
  BY <1>1, <1>2, <1>3, <1>4, <1>5, <1>6, <1>7, <1>8, <1>9, <1>10, <1>11
     DEF Next, TaskStep, TaskAlone, SourceStep, Terminated

LEMMA NextSignal ==
    ASSUME TypeOK, TypeOK', SignalInv, [ProcessNext]_processVars
    PROVE  SignalInv'
<1>1. CASE SendSignal
  <2>1. PICK signal \in Signals : IF signal \in handlers THEN Completes ELSE Kills
    BY <1>1 DEF SendSignal
  <2>2. CASE Kills
    BY <2>2 DEF Kills, vars, call, SignalInv, PollInv, Armed, Forwarding
  <2>3. CASE Completes
    <3>1. /\ UNCHANGED <<pc, timer>> /\ shutdown' # "pending"
          /\ shutdown' \in {shutdown, "ready"}
      BY <2>3 DEF Completes
    <3>2. QED
      BY <3>1 DEF SignalInv, PollInv, Armed
  <2>4. QED
    BY <2>1, <2>2, <2>3
<1>2. CASE RegistrationFails /\ process = "running"
  <2>1. /\ pc' = pc /\ pc # "cleanup" /\ shutdown' = "taken"
        /\ timer'.shutdown = ShutdownTimeout
    BY <1>2 DEF RegistrationFails, Watching, BoundedOps, RetriedOps, FlushOps, TypeOK,
                TimerState
  <2>2. QED
    BY <2>1, PipelineAssumption DEF SignalInv, PollInv, Armed, Off
<1>3. CASE [Next]_vars /\ UNCHANGED sent /\ (process' = "running" => process = "running")
  BY <1>3, TaskSignal DEF SignalInv
<1>4. QED
  BY <1>1, <1>2, <1>3
     DEF ProcessNext, Works, TaskRuns, Waits, Exits, Exit, Passes, SourceYields, Elsewhere, Next,
         Ended, processVars

LEMMA SignalAlways == ProcessSpec => [](TypeOK /\ SignalInv)
<1>1. ProcessInit => TypeOK /\ DeliveryInv /\ SignalInv
  BY InitType, InitDelivery, InitSignal DEF ProcessInit
<1>2. TypeOK /\ DeliveryInv /\ SignalInv /\ [ProcessNext]_processVars
      => TypeOK' /\ DeliveryInv' /\ SignalInv'
  BY NextTask, NextSignal
<1>3. QED
  BY <1>1, <1>2, PTL DEF ProcessSpec

\* Once a signal was sent the process exits, or its task has a step to take or a
\* deadline to wait for: it needs neither stdin nor the sink.
SignalGoesOn ==
    sent /\ process = "running" => pc = "returned" \/ Runnable \/ (~MustPoll /\ ClockRuns)

\* No signal is lost, be it before the first poll, between two of them, or in the
\* middle of a read of stdin, a call of the sink, a retry or the cleanup.
THEOREM SignalNeverLost == ProcessSpec => []SignalGoesOn
<1>1. ASSUME TypeOK, SignalInv, sent, process = "running", pc # "returned", ~Runnable
      PROVE  ~MustPoll /\ ClockRuns
  <2> USE <1>1 DEF SignalInv, Armed, Expired, Off
  <2>1. shutdown # "pending"
    OBVIOUS
  <2>2. /\ timer.shutdown \in Nat \cup {-1}
        /\ {"shutdown", "cleanup"} \subseteq DOMAIN timer
    BY DEF TypeOK, TimerState, Ticks
  <2>3. CASE pc = "cleanup"
    <3>1. timer.cleanup \in Nat /\ timer.cleanup # 0
      BY <2>3 DEF Runnable
    <3>2. ~Watching
      BY <2>3 DEF Watching, BoundedOps, RetriedOps, FlushOps
    <3>3. QED
      BY <2>2, <3>1, <3>2 DEF ClockRuns, MustPoll
  <2>4. CASE pc \in Forwarding
    <3>1. pc # "start" /\ timer.shutdown # -1 /\ timer.shutdown # 0
      BY <2>1, <2>4 DEF Runnable, Forwarding
    <3>2. QED
      BY <2>2, <3>1 DEF ClockRuns, MustPoll, Watching
  <2>5. QED
    BY <2>3, <2>4 DEF TypeOK, Point
<1>2. TypeOK /\ SignalInv => SignalGoesOn
  BY <1>1 DEF SignalGoesOn
<1>3. QED
  BY <1>2, SignalAlways, PTL

LEMMA RegistrationNearer ==
    ASSUME TypeOK, TypeOK', PollInv, RegistrationFails
    PROVE  Nearer
<1>1. /\ pc' = pc /\ pc \in Forwarding /\ ~Armed("shutdown")
      /\ shutdown' = "taken"
  BY DEF RegistrationFails, Watching, Forwarding, BoundedOps, RetriedOps, FlushOps
<1>2. SignalsLeft' < SignalsLeft /\ PhasesLeft' = PhasesLeft
  BY <1>1 DEF PollInv, SignalsLeft, PhasesLeft
<1>3. QED
  BY <1>2, LeftOrder

FlagsInv == polled \in BOOLEAN /\ reading \in BOOLEAN /\ sent \in BOOLEAN

LEMMA FlagsAlways == ProcessSpec => []FlagsInv
<1>1. ProcessInit => FlagsInv
  BY DEF ProcessInit, FlagsInv
<1>2. FlagsInv /\ [ProcessNext]_processVars => FlagsInv'
  BY DEF FlagsInv, ProcessNext, Works, TaskRuns, MayRegister, Registered, RegistrationFails,
         Waits, Exits, Passes, SourceYields, Elsewhere, SendSignal, Ended, processVars, watch
<1>3. QED
  BY <1>1, <1>2, PTL DEF ProcessSpec

\* The process ends, or the first signal comes, or the task comes nearer to its
\* return; the task aside, shutdown_signal is polled for the first time, or a
\* read of stdin begins.
ProcessNearer ==
    \/ process = "running" /\ process' # "running"
    \/ UNCHANGED process /\ ~sent /\ sent'
    \/ UNCHANGED <<process, sent>> /\ Nearer
    \/ UNCHANGED <<process, sent, vars>> /\ ~polled /\ polled'
    \/ UNCHANGED <<process, sent, vars, polled>> /\ ~reading /\ reading'

LEMMA SourceTakes == TypeOK /\ SourceStep => ~UNCHANGED vars
BY DEF TypeOK, SourceStep, BufferRecord, FillBatch, SkipParseError, ReadRecord, ReadItem,
       Selecting, SourceEnds, SourceFails, Finish, FlushNow, FlushBuffer, vars, source

LEMMA NextProcessNearer ==
    ASSUME TypeOK, TypeOK', SignalInv, FlagsInv, ProcessNext, ~UNCHANGED processVars
    PROVE  ProcessNearer
<1> USE DEF processVars, watch, FlagsInv
<1>1. PollInv
  BY DEF SignalInv
<1>2. CASE Next /\ UNCHANGED <<process, sent>> /\ ~UNCHANGED vars
  BY <1>1, <1>2, NextNearer DEF ProcessNearer
<1>3. CASE process = "running" /\ TaskRuns /\ UNCHANGED vars
  BY <1>3 DEF TaskRuns, MayRegister, Registered, ProcessNearer
<1>4. CASE process = "running" /\ RegistrationFails
  BY <1>1, <1>4, RegistrationNearer DEF RegistrationFails, ProcessNearer
<1>5. CASE process = "running" /\ Waits
  BY <1>5 DEF Waits, MustPoll, Registered, ProcessNearer
<1>6. CASE process = "running" /\ Exits
  BY <1>6 DEF Exits, Exit, ProcessNearer
<1>7. CASE SendSignal
  <2>1. PICK signal \in Signals : IF signal \in handlers THEN Completes ELSE Kills
    BY <1>7 DEF SendSignal
  <2>2. CASE Kills
    BY <1>7, <2>2 DEF SendSignal, Kills, ProcessNearer
  <2>3. CASE Completes /\ ~sent
    BY <1>7, <2>3 DEF SendSignal, Completes, ProcessNearer
  <2>4. CASE Completes /\ sent
    <3>1. shutdown # "pending"
      BY <1>7, <2>4 DEF SendSignal, SignalInv
    <3>2. UNCHANGED vars
      BY <2>4, <3>1 DEF Completes, vars, around
    <3>3. QED
      BY <1>7, <2>4, <3>2 DEF SendSignal, Completes
  <2>5. QED
    BY <2>1, <2>2, <2>3, <2>4
<1>8. CASE Passes
  <2>1. Next /\ UNCHANGED <<process, sent>>
    BY <1>8 DEF Passes, SourceYields, Elsewhere, Next
  <2>2. CASE Elsewhere
    BY <1>2, <2>1, <2>2 DEF Elsewhere
  <2>3. CASE SourceYields
    BY <1>2, <2>1, <2>3, SourceTakes DEF SourceYields
  <2>4. QED
    BY <1>8, <2>2, <2>3 DEF Passes
<1>9. TaskRuns => Next /\ UNCHANGED <<process, sent>>
  BY DEF TaskRuns, Next
<1>10. QED
  BY <1>2, <1>3, <1>4, <1>5, <1>6, <1>7, <1>8, <1>9 DEF ProcessNext, Works, Ended

\* The process takes finitely many steps on an input that ends, however many
\* signals come: those after the first change nothing.
THEOREM ProcessAlwaysNearer == ProcessSpec => [][ProcessNearer]_processVars
<1>1. TypeOK /\ TypeOK' /\ SignalInv /\ FlagsInv /\ [ProcessNext]_processVars
      => [ProcessNearer]_processVars
  BY NextProcessNearer
<1>2. QED
  BY <1>1, SignalAlways, FlagsAlways, PTL DEF ProcessSpec
=============================================================================
