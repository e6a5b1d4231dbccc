------------------------------ MODULE Process ------------------------------
(***************************************************************************)
(* The end of main.rs: the process runs the forwarding task of Pipeline    *)
(* with shutdown_signal as its shutdown future, and exits when it returns. *)
(*                                                                         *)
(* shutdown_signal is lazy.  Its first poll registers the handlers, and a  *)
(* select! polls its branches in a random order until one is ready: the    *)
(* handlers may be missing until the task waits for the first time.  A     *)
(* signal without a handler kills the process.  The read of stdin that the *)
(* source has started cannot be cancelled, and ends only with more input.  *)
(***************************************************************************)
EXTENDS Pipeline

CONSTANT Registrations      \* sets of signals whose handlers can be registered

Signals == {"SIGINT", "SIGTERM"}

ASSUME RegistrationsAssumption == Registrations \subseteq SUBSET Signals

VARIABLES
    polled,         \* shutdown_signal has been polled
    handlers,       \* the signals that have a handler
    reading,        \* a read of stdin is blocked
    process,        \* "running", or how it ended
    sent            \* history: a signal was sent

watch == <<polled, handlers>>
processVars == <<vars, watch, reading, process, sent>>

ProcessInit ==
    /\ Init
    /\ polled = FALSE /\ handlers = {} /\ reading = FALSE
    /\ process = "running"
    /\ sent = FALSE

-----------------------------------------------------------------------------
(* shutdown_signal. *)

\* The select! in progress has the shutdown future among its branches.
Watching == pc \in BoundedOps \cup {"loop"} /\ ~Armed("shutdown")

\* The first poll registers SIGTERM, and SIGINT with it or alone; it is pending.
Registered ==
    /\ polled' = TRUE
    /\ handlers' \in {s \in Registrations : "SIGINT" \in s}

\* Without a handler for SIGINT the future completes at once.
RegistrationFails ==
    /\ Watching /\ ~polled
    /\ polled' = TRUE
    /\ handlers' \in {s \in Registrations : "SIGINT" \notin s}
    /\ shutdown' = "taken"
    /\ timer' = [timer EXCEPT !.shutdown = ShutdownTimeout]
    /\ UNCHANGED <<pc, around, call, reading, process, sent>>

\* Another branch of the select! won, before or after the shutdown future was
\* polled for the first time.
MayRegister ==
    IF Watching /\ ~polled THEN Registered \/ UNCHANGED watch ELSE UNCHANGED watch

\* The future completes with the first signal; the handler swallows later ones.
Completes ==
    /\ shutdown' = IF shutdown = "pending" THEN "ready" ELSE shutdown
    /\ UNCHANGED <<pc, around, call, timer, process>>

Kills == process' = "killed" /\ UNCHANGED vars

SendSignal ==
    /\ process = "running" /\ sent' = TRUE
    /\ \E signal \in Signals : IF signal \in handlers THEN Completes ELSE Kills
    /\ UNCHANGED <<watch, reading>>

-----------------------------------------------------------------------------
(* main. *)

\* The task runs: a step of its own, or input that the source yields.
TaskRuns == TaskStep /\ MayRegister /\ UNCHANGED <<reading, process, sent>>

SourceYields ==
    SourceStep /\ MayRegister /\ reading' = FALSE /\ UNCHANGED <<process, sent>>

\* No branch is ready, so all have been polled: the task waits.
MustPoll == ~Runnable /\ Watching /\ (~polled \/ (pc = "loop" /\ ~reading))

\* Plausible error: the loop awaits the source alone, and looks at the shutdown
\* future afterwards.
WaitsForSource ==
    /\ MustPoll
    /\ IF polled \/ pc = "loop" THEN UNCHANGED watch ELSE Registered
    /\ reading' = (reading \/ pc = "loop")
    /\ UNCHANGED <<vars, process, sent>>

Waits ==
    /\ MustPoll
    /\ IF polled THEN UNCHANGED watch ELSE Registered
    /\ reading' = (reading \/ pc = "loop")
    /\ UNCHANGED <<vars, process, sent>>

\* What reaches the task only while it waits.
Elsewhere ==
    /\ ~MustPoll
    /\ SinkAnswers \/ Tick
    /\ UNCHANGED <<watch, reading, process, sent>>

\* Plausible errors: main returns, and with it the runtime waits for the read of
\* stdin; the result of the pipeline is only logged.
ExitByReturning ==
    /\ pc = "returned" /\ ~reading
    /\ process' = IF result = "Ok" THEN "exit 0" ELSE "exit 1"

ExitWithZero == pc = "returned" /\ process' = "exit 0"

\* process::exit, which waits for nothing.
Exit ==
    /\ pc = "returned"
    /\ process' = IF result = "Ok" THEN "exit 0" ELSE "exit 1"

Exits == Exit /\ UNCHANGED <<vars, watch, reading, sent>>

Ended == process # "running" /\ UNCHANGED processVars

Works == process = "running" /\ (TaskRuns \/ RegistrationFails \/ Waits \/ Exits)

Passes == process = "running" /\ (SourceYields \/ Elsewhere)

ProcessNext == Works \/ Passes \/ SendSignal \/ Ended

\* The task is polled, and the clock advances; stdin and the sink owe nothing.
ProcessSpec ==
    /\ ProcessInit /\ [][ProcessNext]_processVars
    /\ WF_processVars(Works)
    /\ WF_processVars(process = "running" /\ ~MustPoll /\ Tick
                        /\ UNCHANGED <<watch, reading, process, sent>>)

-----------------------------------------------------------------------------
(* Properties. *)

\* A signal ends the process, although stdin stays open and idle ("letting main
\* return would make the runtime drop wait on that read", main.rs:104-107) and
\* the sink may never answer.
SignalEndsProcess == sent ~> process # "running"

\* Exit code 0 says that every record read was acknowledged, also when signals
\* were sent before the handlers existed or more than once.
ZeroMeansDelivered == process = "exit 0" => acknowledged = received

\* A process that waits for stdin, as it mostly does, loses no record to a signal,
\* unless a handler could not be registered: of the first select! that has nothing
\* ready no branch is left without a poll, and the handlers outlive the future.
KillLosesNothing ==
    process = "killed" /\ reading
    => acknowledged = received \/ (polled /\ handlers # Signals)
=============================================================================
