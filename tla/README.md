# A verification model of ruuvi-data-forwarder-rs

The forwarder reads telemetry as JSON lines from stdin, collects it in batches and
writes the batches to a sink: stdout, a DuckDB database or a DuckLake. This
directory holds TLA+ modules translated from its source, TLC configurations that
check them on small instances, and theorems that TLAPS checks for every value of
the constants.

## The system

| Part | Source | State it keeps | Operations | Interacts with |
|---|---|---|---|---|
| forwarding pipeline | `pipeline.rs` | `batch`, `deadline`, `shutdown_deadline`, the operation being awaited | `run_pipeline_until`: the `select!` loop, `flush`, `finish`, `bounded`, `retry_*`, `cleanup_after_failure` | polls the source, calls the sink, polls the shutdown future |
| retry delay | `pipeline.rs:307-316` | none | `retry_delay` | sleeps of `retry_initialize`, `retry_write` |
| error classification | `error.rs` | none | `is_retryable` | decides retries |
| database worker | `sink/worker.rs` | channel, join handle, connection | `initialize`, `write`, `shutdown`, `Drop`, `worker_loop` | one OS thread, commands and one-shot responses |
| DuckDB and DuckLake sinks | `sink/duckdb.rs`, `sink/ducklake.rs` | the worker | trait methods, connection factory, `insert_batch` | database |
| process | `main.rs` | none | choose the sink, run the pipeline, `process::exit` | signals, worker thread |
| console sink | `sink/console.rs` | none | `write_batch` to stdout | |
| stdin source | `source.rs`, `dto.rs` | decoder buffer, "discarding" flag | bounded lines, JSON, validation | feeds the pipeline |
| configuration | `config.rs` | none | layering, `validate` | |
| maintenance | `maintenance.rs`, `bin/` | none | `set_option`, `CHECKPOINT` | shares a DuckLake catalog with a forwarder |

What is hard in it:

* one task awaits the source, a latency deadline, a signal, a sink call and the
  sleep before a retry, and `select!` polls in random order;
* the signal puts *one* deadline over whatever is in progress and all that follows,
  and may drop a call whose command the worker still executes;
* answers are of three kinds (done, certainly not done, unknown), and only the
  second may be retried;
* closing has to wait for a thread, and must not wait for ever;
* the process may be stopped at any moment, by a kill or by its own `process::exit`.

What makes each part correct: the pipeline loses, repeats and reorders nothing,
keeps the latency of a record and the time to exit bounded, and polls the shutdown
future only until it completes; the source yields one item per line however stdin is
cut into reads; the worker answers every call, tells the truth in
its answers and keeps batches whole; the process ends with code 0 only with
everything stored and the connection closed. `hazards` in `PROJECT.json` lists
where each could go wrong.

## The modules

| Module | Models |
|---|---|
| `SinkErrors` | the kinds of `SinkError` and `is_retryable` |
| `RetryDelay` | `retry_delay` in machine arithmetic |
| `Delivery` | abstract: what the forwarder promises of the records it reads |
| `Pipeline` | the forwarding task against an abstract sink |
| `DatabaseWorker` | the worker thread, its channel, connection and transaction, and the calls made of it |
| `DatabaseSink` | `DatabaseWorker` with any caller of the sink |
| `Forwarder` | `Pipeline` with `DatabaseWorker` as its sink: the process with a database |
| `ConsoleSink` | `Pipeline` with stdout as its sink: the process with the console |
| `Process` | `Pipeline` with the signal handlers, the blocked read of stdin and the exit of `main` |
| `LineSource` | the stream of records made from the bytes of stdin |
| `Configuration` | the layers of settings, `validate`, and every later check of the same values, in both programs |
| `DuckLake` | the connection factory of a DuckLake sink and runs of the maintenance program on one catalog |
| `PipelineProofs`, `ForwarderProofs`, `ConsoleProofs`, `ProcessProofs` | theorems about `Pipeline` and the three modules built on it |
| `DatabaseProofs`, `LineSourceProofs`, `ConfigurationProofs`, `DuckLakeProofs` | theorems about `DatabaseSink`, `LineSource`, `Configuration` with `RetryDelay`, `DuckLake` |
| `MC...` | the constants of the small instances |

How they are composed:

```
                    Delivery                    abstract
                   /        \
           implements      implements (with the rows of the table)
                 /            \
            Pipeline <------- Forwarder         implements, too
             ^    ^              = Pipeline + DatabaseWorker
  implements |    | extends
       ConsoleSink  Process                     DatabaseSink = DatabaseWorker + any caller
```

`Forwarder` extends `Pipeline` and instantiates `DatabaseWorker`; they share
`future` (the call in progress) and `records` (the batch being written). A step of
the task that calls the sink happens together with `Call` of the worker, one that
drops a pending call together with `LetGo`, and the worker's steps take the place
of `SinkAnswers`. `ConsoleSink` does the same with stdout.

### Delivery

`input` is what was read, `stored` what is stored for good. A store takes *everything*
read so far, at most one batch is read ahead of it, and success leaves nothing out.
`Pipeline` implements it with the records that the sink has acknowledged
(`ImplementsDelivery`), `Forwarder` with the rows of the table (`TableDelivers`).
The second is what allows `Store` in a failed state: a write that was given up on at the
shutdown deadline is still executed by the worker while the process ends.

### Pipeline

`pc` names the await the task is suspended at: `initialize`, `loop`, `flush`,
`io_flush` (after a source error), `final_flush`, `close`, `cleanup`. The five
that go through `bounded` are `BoundedOps`. `future` is the call in the await:
not yet polled, pending, asleep before a retry, or answered. `timer` holds the
deadlines as ticks left. An action is what one poll does up to the next
suspension; where `select!` may take any ready branch, any of the actions may be
next. Handlers that are called (`flush`, `finish`, `Fail` for the error return
with the cleanup) are operators, so that an action is a whole handler:
`FillBatch` pushes the record, arms the deadline and takes the batch.

A record is named by its position in the input, so that a lost, doubled or
reordered one shows. `received`, `acknowledged`, `age` and `elapsed` are history;
nothing is guarded by them.

*Time.* A tick passes only when the task has nothing to do, as under tokio's
paused clock, which the tests of the repository use. The bounds on the latency and on the
time to exit are those of the code, without the delays of a busy machine. Work of
the sink and the source takes any number of ticks, or for ever.

### DatabaseWorker, DatabaseSink

`queue` is the channel, `thread` the point the thread is at, `join` where the
`JoinHandle` is, `connection`, `txn` and `table` the database. The statements of
`insert_batch` are separate steps, each of which may fail. What is external is as
weak as we could make it: a failed `COMMIT` may or may not have taken effect; a
transaction that was not committed leaves nothing behind. The thread may panic
while it executes a command (`shutdown` handles it, `worker.rs:62-65`), before or after
the command has taken effect: the panic of a `COMMIT` may leave the rows stored. A response
reaches the caller only if it is the caller's last command and was not dropped.

`DatabaseSink` adds a caller that makes any sequence of calls, one at a time
(`&self` would allow concurrent ones, the pipeline makes none), gives up on any
of them, repeats writes as `retry_write` does, and drops the sink. `sent`, `acked` and
`doubtful` are its ledger.

### LineSource

`frame` is the state of `FramedRead`, `discarding` that of `LinesCodec` after an
oversized line; both are tokio-util's, modelled from how `source.rs` configures and
wraps them. What is the repository's own are the limit, `map_line`
(`DecodeOversized`), `parse_line` and `validate` (`ParseLine`) and the item chained
to the end (`Finish`). A record is the elements of its `mac_address`. The search position that
`LinesCodec` remembers between calls only saves work and is left out. `Reading` is the
reference: it goes over the whole input byte by byte (`Scan`) and knows of no reads, no
buffer and no search for a newline. `Tokens` is what the bytes of a line say. Both are
recursive functions on positions, which the theorems can unfold. `Pipeline` takes
the items at any time, so that its `SourceStep` allows all `LineSource` yields.

### ConsoleSink

A line is two parts, its head and the tail that holds the newline. `write_all` hands
the output to a blocking thread (`left`), which writes it part by part (`out`) and
may fail after any of them; `flush` awaits the outcome. A write that is given up on goes
on. That is all that is needed to see lines cut, repeated and joined.

### Process

`shutdown_signal` is lazy: its first poll registers the handlers. A `select!` polls its
branches in random order until one is ready, so that they may be missing
until the task waits for the first time; `MayRegister` leaves both outcomes open and
`Waits` is the step that settles it. A signal without a handler kills the
process; a handler, once installed, stays for the life of the process and swallows every
later signal. `reading` is tokio's read of stdin, which nothing can cancel and which
`process::exit` does not wait for. The read is taken by another thread, which may have
the first lines ready before the task waits at all: they are read without a handler, and a
kill at that moment loses them. `KillLosesNothing` is about everything after it.

### Configuration

A source of settings is a function from the keys it sets to values, and a value is one
of the classes that the checks tell apart (not a number, zero, some number, one too large
for the clock, the memory or DuckDB; a limit that does not match the pattern of `validate`,
or matches and is out of DuckDB's range; a retention that is blank, an interval, or text
that is none). A later check includes what is done with the value: the buffer for a batch that
`pipeline_loop` allocates, the deadlines it computes, and the statement that stores the
retention in the catalog. `stage` is how far a program has
come, `refusedAt` the check that returned an error. What the files and the variables may
hold is a constant (`LocalSources`, `FileSources`, `Overrides`): the run has five
deployments with one key changed at a time, the theorems have any. The two delays range
over a whole machine word, so that `RetryDelay` is exercised with every pair of delays
`validate` accepts; the powers of two in it are the recursive function `ShiftedOne`, as
the code shifts a one.

### DuckLake

The factory's steps (create the directories, `ATTACH`, `CREATE TABLE`) and those of a
maintenance run (check the paths, `ATTACH`, `set_option`, `CHECKPOINT`) interleave with
each other and with commits, and each may fail. An `ATTACH` of a new catalog has two steps, so
that a file without metadata may be left by a failure or found by another program (a Postgres
catalog has no file). Snapshots have an age in ticks, which is all
that `expire_older_than` looks at. What `CHECKPOINT` expires by is the option that is
stored in the catalog at that time, by whichever run; each run has the retention of its own
deployment (`Retention[c]`). Where all deployments have the same, as the README of the
repository asks, `HistoryKept` and `SuccessExpires` say that exactly that history is kept;
where they differ, a snapshot whose age lies between two retentions may be kept or not.

## The runs

| Run | Bounds | What it shows |
|---|---|---|
| `pipeline` | batches of 0 to 3, 4 items, 3 retries, latency 0 or 2, timeout 2, the delays of `RetryDelay` | the safety of the task, that it implements `Delivery`, that the end of the input ends it and that no record is stranded |
| `database_sink` | 4 calls, 3 rows, batches of 0 to 2, a file database | any caller: stored = answered, whole batches, every call and every drop returns |
| `forwarder` | batches of 1 to 3, 4 items, 2 retries, latency 1 or 2, a panicking worker | the table is an exact prefix of the input in every state; the composition implements `Pipeline` and, with its table, `Delivery`; everything read is stored or the process fails |
| `console` | batch of 1, 4 items, 2 retries | an acknowledged record is on stdout in one piece, the output is in order, a cut line is followed by its retry or by nothing |
| `process` | batches of 0 and 2, 2 items, 1 retry, every outcome of the registrations, any number of signals | code 0 means delivered, a signal ends the process, also when more of them follow, and takes no record with it while the process waits for stdin |
| `line_source` | 5 bytes of 6 kinds, lines of 2, reads of 1 or 2 | the items are those of the whole input, none waits in the buffer for more input, the buffer is bounded, addresses are not truncated |
| `configuration` | 5 deployments, every value of every key in a file and in a variable, a 4-bit word | of what `validate` accepts only the table name, limits out of DuckDB's range and a retention that is no interval are refused later, and only numbers without an upper limit make a program panic; `retry_delay` is the exact capped exponential |
| `ducklake` | maintenance runs of 2 deployments with retentions 1 and 2, 3 commits, ages up to 3, stored options none, 0 and 3 | a connection has its table; what both retentions keep is kept, what neither keeps is expired; maintenance creates no file |
| `database_in_memory` | 3 calls | finding, see below |
| `forwarder_cleanup` | 1 item, no retry | finding, see below |
| `line_source_malformed` | as `line_source` | finding, see below |
| `console_torn_line` | 2 items, 1 retry | finding, see below |

The bounds let each case of interest happen: a batch that fills with a record
left over, a partial batch at the end, a second batch after a size flush and after
a latency flush, retries used up, a signal in every await, a deadline of zero
ticks left together with any other event; for the worker a retried write between
two others, an abandoned write followed by a call, a call after shutdown, after a
panic and behind a queued shutdown; for the source an oversized line cut
anywhere, one ended by the end of the input, and a line after it; for the console a
second failure after a first, and an abandoned write beside the return; for the process
a signal before, between and after the registrations, and a second one in each await; for
the configuration a value that one source breaks and another repairs; for the catalog an
option that another deployment stores between `set_option` and `CHECKPOINT`, one left by an
earlier deployment (the retentions lie between the two stored options), ages beyond both
retentions, and a catalog file without metadata under an `ATTACH`. Zero batch size and zero
latency are what `pipeline_loop` rejects. With fewer retries or ticks than these some
of the disjuncts never fire; more of them repeat the same situations.

All runs check deadlock. `Terminated`, `SinkIdle`, `Ended` and `Stopped` are the
only ways to stop.

### Fairness

`FairSpec` of `Pipeline` has `WF(TaskStep)` (the runtime polls a woken task) and
`WF(Tick)` (the clock advances). Nothing is assumed of the source, the sink or the
operator; `InputEnds` and `Delivered` assume `WF(SinkAnswers)` in their own statements,
as they are about a sink that answers. `FairSinkSpec` has `WF(ThreadStep)` (the operating
system runs the thread, and statements return) and `WF(Dropping)` (a join of a thread that
ended returns). `FairForwarderSpec` has both for the composition: `WF(TaskRuns)`, `WF(Tick)`
and `WF(WorkerRuns)`; the `SinkAnswers` of `Pipeline` is there a consequence, not an
assumption, and `TableSettles` shows it. The safety properties of `Forwarder` hold without
any of it: the process may be stopped at any time. `ProcessSpec` has `WF` of the steps of
the task and of the clock, and none of stdin, the sink or signals: `SignalEndsProcess`
holds with an idle stdin and a sink that hangs.

### Findings

* `database_in_memory`: a failed write drops the connection, so that a retry
  reconnects; with `:memory:` the reconnection opens an empty database and the rows
  acknowledged before are gone, although the README of the repository says one
  persistent connection supports `:memory:`.
* `forwarder_cleanup`: if the close itself reaches the shutdown deadline, the
  dropped `shutdown()` takes the join handle with it. The cleanup's `shutdown()` then
  returns `Ok` at once, the time it has for joining the worker is not used and no
  warning is logged, against the comments at `pipeline.rs:227` and `main.rs:106`.
* `line_source_malformed`: a line that is not UTF-8 reaches the pipeline as an I/O
  error and ends the process, although the README of the repository says that
  malformed lines are skipped and only failures of stdin are fatal.
* `console_torn_line`: a write to stdout that failed after a part of a line is repeated
  from its start, so that the fragment and the acknowledged record share a line that no
  consumer can parse, although the README of the repository says that consumers need
  only tolerate duplicates.

Limits of the code that the models contain, and that no document denies outright:

* a signal before the handlers are registered (`main.rs:117`) kills the process with what
  it has read (`Kills`). `KillLosesNothing` says that a process that waits for stdin is past
  that, so that only the first moments of a process are exposed;
* a latency or a shutdown timeout near the end of the clock passes `validate` and panics in
  `Instant + Duration` (`pipeline.rs:88`, `94`, `212`; `Deadline`), and a batch size that
  cannot be allocated in `Vec::with_capacity` (`pipeline.rs:69`; `Start`);
* a retention that is no interval passes `validate` and `maintenance_settings` and is refused
  by DuckLake (`maintenance.rs:29`; `Maintain`), as a test of the repository expects
  (`maintenance_test.rs:197-213`), and a limit out of DuckDB's range when the connection is
  opened (`Opens`). `RefusedEarly` lists these and says that there are no others.

`Delivery` tells success from failure and not one error from another: that the error of a
failing source is returned rather than that of the flush after it is in `SourceFlushDone` and
`OpFails` of `Pipeline`, and no property is about it.

## What is proved

The runs check small instances; the theorems hold for every value of the constants, and
assume of them only the types stated in the `ASSUME` of each module.

**The task** (`PipelineProofs`): for every batch size, latency, number of retries, backoff,
shutdown timeout, set of sink errors and number of items.

| Theorem | Property |
|---|---|
| `TypeCorrect` | `TypeOK` |
| `NeverForgets` | `NothingForgotten` |
| `AcknowledgesInOrder`, `BoundsLoss` | `AcknowledgedInOrder`, `LossBounded` (both follow from `ImplementsDelivery`, so no run has them) |
| `OkDelivers` | `OkMeansDelivered` |
| `ArmedWhileBuffered`, `BoundsLatency` | `LatencyArmed`, `LatencyBound` |
| `PollsShutdownOnce`, `BoundsShutdown` | `ShutdownPolledOnce`, `ShutdownBound` |
| `TaskDelivers` | `ImplementsDelivery` |
| `TaskNeverGetsStuck` | `TaskNeverStuck` |
| `AlwaysNearer` | `Nearer`, of every step |

None of the properties of the runs is inductive as it stands, and there is one strengthening for each concern:

* `DeliveryInv` adds where records can be: the buffer is empty outside the loop
  (`flush` has taken it) and `records` outside a flush. `NothingForgotten` then
  reduces every action to one of four lemmas about moving a sequence from one part to the
  next.
* `SizeInv` adds that in the loop the buffer is short of a batch, and that a
  batch in flight is at most that size. `TaskDelivers` needs it: `Delivery` reads a record
  only while less than a batch is unacknowledged.
* `LatencyInv` adds that age and remaining latency of a buffered record sum up to
  `desired_max_batch_latency`.
* `ShutdownInv` adds that until the deadline is set no tick has passed since
  the signal, that from then on elapsed and remaining time sum up to the timeout, and that
  the cleanup starts within the first timeout.

The last two theorems are what remains of liveness when fairness is taken away.
`TaskNeverStuck` says where the task can stay: until it has returned it has a step to take
(`Runnable`) or a deadline that runs, unless its loop is idle with nothing buffered or a call
of the sink is pending, both before a signal. It follows from `ShutdownInv`, `LatencyInv` and
`RetryInv` (a retry that is planned has a deadline). `Nearer` says that it does not go round in
circles: every step lowers a lexicographic measure (`Left`) of the phases, the signal, the
deadlines of shutdown and cleanup, the items of the input, the awaits up to the next item, the
retries, the polls of a call and the ticks of latency and retry. For an input of any finite
length the two leave of `InputEnds`, `Delivered` and the end after a signal only the assumption
that who can take a step takes it, which is what `WF` says.

**The worker** (`DatabaseProofs`): for any number of calls and rows, any errors of the
connection factory, and (except for `AnswersTruthfully`) file and in-memory databases alike.

| Theorem | Property |
|---|---|
| `SinkTypeCorrect` | `SinkTypeOK` |
| `JoinsQuietly` | `JoinedIsQuiet` |
| `StoresWholeBatches` | `BatchesWhole` |
| `StoresOnceInOrder` | `StoredInOrder` |
| `AnswersTruthfully` | `AnswersTrue` (assumes `~InMemory`) |
| `NeverGetsStuck` | `NeverStuck` |
| `AlwaysComesCloser` | `ComesCloser`, of every step |

`EndedInv` adds that a thread that has ended has no connection and no queue. `BatchInv`
needs three parts: the batches written share no row (`DisjointInv`), every Write
command, queued, executing or asked, carries one of them and what reaches `COMMIT` is
all of it (`CommandsInv`), and the table holds only rows written (`StoreInv`); a
commit then adds one whole batch that overlaps with no other.

Order and truth depend on each other and are proved together, as `AnswerInv`:

* `OrderInv`: the rows of the command in execution and of those queued are beyond the rows
  of the table, in the order in which they will be stored.
* `AwaitedInv`: the command that the caller awaits is the last one sent, so that an answer
  cannot be taken for that of a call given up before.
* `CertainInv`: an error other than the two of unknown outcome says that the rows are neither
  stored nor on their way. This is what makes a retry keep the order, and it needs
  `OrderInv` to know that none of the rows is in the table.
* `TruthInv`, `KeptInv`: whatever may still be stored is in doubt for the caller already;
  what was answered `Ok` is in the table, which only a persistent one keeps.

`NeverStuck` and `ComesCloser` are the same two halves for who waits for the thread, in a call
or in `Drop`: the thread has a step to take, or has ended and leaves the join; and each
step after which somebody still waits lowers a natural number (`Work`). `StopInv` is needed for
the first: the `Shutdown` that `Drop` has sent is in the queue until the thread comes to it.
With them `CallsReturn` and `DropEnds` need only that the thread is scheduled.

**The process with a database** (`ForwarderProofs`).

| Theorem | Property |
|---|---|
| `Composes` | `ImplementsPipeline` |
| `StoresInOrder` | `TableInOrder` |
| `StoresAcknowledged` | `AcknowledgedStored` |
| `OkStores` | `OkMeansStored` |
| `ProcessDelivers` | `TableDelivers` |
| `ForwarderNeverGetsStuck` | `ForwarderNeverStuck` |
| `ForwarderAlwaysNearer` | `ForwarderNearer`, of every step |

`Composes` comes first: the worker's steps change the awaited call only from pending to
an answer that `SinkAnswers` allows (`AnswerInv`: a prepared answer is `Ok` or one of
`SinkFaults`), so every behaviour of the composition is one of `Pipeline`, and the
invariants of `PipelineProofs` are used in what follows without being proved again. What is
said of the table assumes `~InMemory`; without that it is false, which is the finding `database_in_memory`.
Its invariant has three layers, each of which needs the one before:

* `CommandInv`: what the worker does agrees with its command, and what reaches `COMMIT` is
  the whole of it.
* `CallInv`: while the task forwards, a call is pending exactly when the worker has
  its command, in the queue or in execution, and it has no other. A call that is dropped
  leaves `Forwarding` for good, so that a write that nobody awaits is the last one.
* `WriteInv` and `TableInv`: at most one write is uncommitted and it adds exactly what the
  table lacks; between two writes the table holds what was acknowledged; an answer that may
  be retried says that the table still holds no more than that. The error of unknown outcome
  is the one answer that says neither, and the code does not retry it.

`ForwarderNeverStuck` closes the gap that `TaskNeverStuck` leaves: by `CallInv` a call that is
pending is one the thread has, so the two never wait for each other. A step that the task
does not see leaves the thread less to do (`WorkLeft`).

**The source** (`LineSourceProofs`): for any input, any cut of it into reads, any limit on
lines and reads and any values of the elements.

| Theorem | Property |
|---|---|
| `BoundsBuffer` | `BufferBounded` |
| `ReadsExactly` | `EndsExactly` |
| `WithholdsNothing` | `NothingWithheld` |
| `RendersFaithfully` | `MacsFaithful` |

`BufferInv` adds that the codec waits for more bytes only with no more than a line in the
buffer. The other three are about what the bytes read so far mean, and come in two parts.
The first is about `Reading` alone: it is defined and unique (`StepsExist`,
`ReadingsAgree`), one byte more is one `Scan` more (`ReadingAppend`), the bytes of a line
without their newline change no item (`WithinLine`), a newline adds the item of its line
(`LineEnds`), and after an error of the stream nothing is added (`StopsReading`). The second
is the invariant, `SourceInv`: what `Reading` makes of the bytes read is what the source
has yielded, followed by what the buffer holds (`Held`, which says at which position of the
input the buffer begins, that no newline lies between the last item and that position, and
that while a line is discarded its error was yielded). A read moves only the end of
`Held`, a decoded line its beginning. `MacsFaithful` follows from the type of the items: an
item that is yielded passed `validate`.

**The console and the process** (`ConsoleProofs`, `ProcessProofs`).

| Theorem | Property |
|---|---|
| `ConsoleComposes`, `ConsoleDelivers` | `ConsoleImplementsPipeline`, `ImplementsDelivery` |
| `AcknowledgesWhole` | `AcknowledgedWhole` |
| `OutputsInOrder`, `RetriesTears` | `OutputInOrder`, `TearsRetried` (assume `BatchSizes = {1}`) |
| `ConsoleAlwaysNearer` | `ConsoleNearer`, of every step |
| `ZeroDelivers` | `ZeroMeansDelivered` |
| `KillsHarmlessly` | `KillLosesNothing` |
| `SignalNeverLost` | `SignalGoesOn` |
| `ProcessAlwaysNearer` | `ProcessNearer`, of every step |

`WriteInv` says that while a write is pending the end of the output and what is left to
write make up the output of its batch, and that an answer `Ok` finds nothing left; a record that
is acknowledged keeps its line because the output only grows. `AcknowledgesWhole` holds for
any batch size. The order of the output needs the batch of one record that
`desired_batch_size` of the console asks for (`console.rs`), as a retry of a batch of two
would go back to its first record; the theorems say so as an assumption. `OrderInv` then says that
whatever is being written is the last record read, and that a line that was cut is of that
record, with its write still to be answered or retried, or given up for good. `ApartDoes`
sums up what a step of the task can mean for a write, so that the two invariants need not
consider each action.

`Process` is not a refinement of `Pipeline`: a failed registration completes the shutdown
future without a signal, and a signal may come after the task has returned.
`TaskOfProcess` says that these are the only two differences, and `DeliveryInv` survives
both. `ExitInv` adds that the exit code is that of the result; `KillInv` adds that a
read that blocks was preceded by a poll of `shutdown_signal`. `SignalGoesOn` is the half of
`SignalEndsProcess` without fairness: from a signal on, until the task has returned, it has a
step to take or a deadline that runs, whatever stdin and the sink do (`SignalInv`: a signal that
did not kill the process is in the shutdown future or was taken from it).

**The configuration** (`ConfigurationProofs`): for a word of any size, any content of the
files and any variables.

| Theorem | Property |
|---|---|
| `RefusesEarly` | `RefusedEarly` |
| `DelaysExactly` | `DelayIsExact` |
| `DelayExact` | the same of `RetryDelay` alone, for every retry number |

`ConfigInv` says what each stage has established: what was loaded has values of the right
classes, what was deserialized parses, what was validated is `Accepted`. `RefusesEarly` is then
one case for each later check. `DelayExact` has three cases: the shift is within the
word and the product too; the product saturates, and the exact value is beyond the largest delay,
too; the shift is beyond the word, and so is the power of two.

**The catalog** (`DuckLakeProofs`): for any set of maintenance runs, any retention of each and any
catalog that an earlier deployment has left.

| Theorem | Property |
|---|---|
| `OpenComplete` | `OpenIsComplete` |
| `KeepsHistory` | `HistoryKept` |
| `CreatesNothing` | `MaintenanceCreatesNothing` |
| `ExpiresOnSuccess` | `SuccessExpires` |

`LakeInv` adds what each step has found or made: the factory's paths (`OpenedPaths`), the
paths a run has checked (`CheckedPaths`; nothing removes one), and that at a
`CHECKPOINT` the stored option is the retention of one of the runs (`OptionSet`). The last
one carries the argument: a run may expire by an option that another has stored since, but no
longer by that of an earlier deployment.

**Induction.** `ConfigurationProofs` and `LineSourceProofs` prove facts about recursive functions
on natural numbers. Each such fact is stated of a set of numbers, and
`InductionOverNat` (a set that contains 0 and the successor of each of its members contains
`Nat`) is derived from the well-foundedness of `<` among the library's theorems. The
functions are shown to exist and to be unique first, since a recursive definition is a
`CHOOSE`.

**Only model-checked.** Liveness (`InputEnds`, `Delivered`, `CallsReturn`, `DropEnds`,
`TableSettles`, `SignalEndsProcess`): weak fairness speaks of `ENABLED`, which is not within
reach of the prover. What can be said without it is proved: in none of the models is
somebody stuck who must go on, and in none do the steps go on for ever
(`...NeverGetsStuck`, `SignalNeverLost`, `...Nearer`, `AlwaysComesCloser`).

## Plan

Every component with state of its own is modelled, and every safety property that a passing
run checks is stated by a theorem. What could come next:

* the same two theorems for `LineSource` (a line that was read is decoded) and `DuckLake`,
  whose models end by themselves and have no liveness property so far;
* beyond the present code, an extension would follow the modules above: another sink is a module
  that extends `Pipeline` as `ConsoleSink` does, and is shown to implement it.

## Not modelled

* Text: log lines and the rate limit of parse errors, the wording of errors, the SQL and
  `ATTACH` statements, the resolution of relative paths and the redaction of
  credentials. None of it affects a state change that a property is about. `debug_logging` only adds log lines.
* The existence of a Postgres catalog: the maintenance program checks it for the file
  catalogs only and leaves it to the server, which is external.
* `shutdown_signal` of targets that are not unix, which watches SIGINT alone.
* Environment variables that are not UTF-8, which the configuration library handles.
* A failure to spawn the worker thread: `start` returns it before there is any state.
* The performance scripts.
