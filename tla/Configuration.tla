--------------------------- MODULE Configuration ---------------------------
(***************************************************************************)
(* The start of the two programs (main.rs and the maintenance binary):     *)
(* load_config puts the sources of settings over one another, deserializes *)
(* and validates the result; then the forwarder builds its sink and runs,  *)
(* and the maintenance program takes its own settings and begins.  The     *)
(* same values are checked again by the sinks, by pipeline_loop, by        *)
(* run_ducklake_maintenance and by DuckDB.                                 *)
(*                                                                         *)
(* A source is a function from the keys it sets to their values.  A value  *)
(* is one of the few that any of these checks tells apart: of a number,    *)
(* one that does not parse (-1), zero, some others, and one too large to   *)
(* be used; of a text, "blank" is white space; the delays are scaled to a  *)
(* word of WordBits bits.  The embedded defaults set the duckdb and the    *)
(* ducklake sections, so that the checks for a missing section find none   *)
(* missing.  Files and servers are at hand: what they refuse is modelled   *)
(* in Pipeline, DatabaseWorker and DuckLake.                               *)
(***************************************************************************)
EXTENDS RetryDelay

CONSTANTS
    Huge,           \* more seconds than Instant::now() can be moved by, more
                    \* records than fit into memory, more threads than DuckDB takes
    LocalSources,   \* what config/default may set
    FileSources,    \* what the file of RUUVI_CONFIG_FILE may set
    Overrides       \* what the variables may set

Day == 86400    \* the latency of the console sink, in seconds

Numbers == {-1, 0, 3, 5}
Sizes   == Numbers \cup {Huge}
Seconds == {-1, 0, 30, Huge}

\* What can be set, by a file or a variable, at each key.
Values == [
    sink_type         |-> {"console", "duckdb", "kafka"},
    path              |-> {"blank", "file"},
    table_name        |-> {"name", "no name"},
    batch_size        |-> Sizes,
    max_latency       |-> Seconds,
    ducklake_enabled  |-> {"true", "false", "maybe"},
    catalog_type      |-> {"duckdb", "sqlite", "postgres", "mysql"},
    catalog_path      |-> {"blank", "file", "connection"},
    data_path         |-> {"blank", "directory"},
    expire_older_than |-> {"blank", "1 week", "no interval"},
    memory_limit      |-> {"200MB", "a lot", "too much"},
    threads           |-> Sizes,
    max_write_retries |-> Numbers,
    initial_delay     |-> {-1} \cup Word,
    max_delay         |-> {-1} \cup Word,
    shutdown_timeout  |-> Seconds,
    unknown_key       |-> {"value"}]

Key == DOMAIN Values

IsSource(s) == DOMAIN s \subseteq Key /\ \A k \in DOMAIN s : s[k] \in Values[k]

\* config/default.toml, compiled into the program.
EMBEDDED_DEFAULTS == [
    sink_type |-> "console", path |-> "file", table_name |-> "name",
    batch_size |-> 5, max_latency |-> 30, ducklake_enabled |-> "false",
    catalog_type |-> "sqlite", catalog_path |-> "file", data_path |-> "directory",
    max_write_retries |-> 3, initial_delay |-> 1, max_delay |-> 10,
    shutdown_timeout |-> 30]

ASSUME ConfigurationAssumption ==
    /\ Huge \in Nat /\ Huge > Day
    /\ EMBEDDED_DEFAULTS.max_delay \in Word
    /\ \A s \in LocalSources \cup FileSources \cup Overrides : IsSource(s)
    /\ \A s \in Overrides : "unknown_key" \notin DOMAIN s

Nothing == <<>>

VARIABLES
    program,        \* "forwarder" or "maintenance"
    stage,          \* how far it has come
    refusedAt,      \* the stage that returned an error
    settings,       \* the AppConfig: the keys set so far, with their values
    local, file, env    \* what config/default, RUUVI_CONFIG_FILE and the variables set

given == <<program, local, file, env>>
configVars == <<stage, refusedAt, settings, given>>

ConfigInit ==
    /\ program \in {"forwarder", "maintenance"}
    /\ local \in LocalSources
    /\ file \in FileSources
    /\ env \in Overrides
    /\ stage = "load" /\ refusedAt = "none"
    /\ settings = Nothing

-----------------------------------------------------------------------------
(* load_config. *)

Goes(s)  == stage' = s /\ UNCHANGED <<refusedAt, given>>
Refuses  == stage' = "refused" /\ refusedAt' = stage /\ UNCHANGED given
Check(ok, s) == (IF ok THEN Goes(s) ELSE Refuses) /\ UNCHANGED settings

Over(upper, lower) ==
    [k \in DOMAIN upper \cup DOMAIN lower |->
        IF k \in DOMAIN upper THEN upper[k] ELSE lower[k]]

\* The builder: each source goes over those added before, and an override over
\* all of them.
Layered == Over(env, Over(file, Over(local, EMBEDDED_DEFAULTS)))

Load == stage = "load" /\ settings' = Layered /\ Goes("deserialize")

\* RUUVI_CONFIG_FILE names a file that is missing or is not TOML.
FileUnreadable == stage = "load" /\ Refuses /\ UNCHANGED settings

Has(k)    == k \in DOMAIN settings
Is(k, v)  == Has(k) /\ settings[k] = v

\* try_deserialize: no unknown key, and each value has the type of its field.
Deserializes ==
    /\ ~Has("unknown_key")
    /\ ~Is("sink_type", "kafka") /\ ~Is("ducklake_enabled", "maybe")
    /\ ~Is("catalog_type", "mysql")
    /\ \A k \in {"batch_size", "max_latency", "threads", "max_write_retries",
                 "initial_delay", "max_delay", "shutdown_timeout"} : ~Is(k, -1)

Deserialize == stage = "deserialize" /\ Check(Deserializes, "validate")

\* AppConfig::validate.
PipelineValid ==
    /\ settings.initial_delay > 0
    /\ settings.max_delay >= settings.initial_delay
    /\ settings.shutdown_timeout > 0

DuckDB   == Is("sink_type", "duckdb")
DuckLake == Is("ducklake_enabled", "true")

\* Plausible error: all of the limits are left to DuckDB.
DatabaseValidButLimits ==
    /\ settings.path # "blank" \/ DuckLake
    /\ settings.batch_size > 0 /\ settings.max_latency > 0

DatabaseValid ==
    /\ settings.path # "blank" \/ DuckLake
    /\ settings.batch_size > 0 /\ settings.max_latency > 0
    /\ ~Is("threads", 0)
    /\ ~Is("memory_limit", "a lot")     \* it does not match MEMORY_LIMIT_RE

LakeValid ==
    /\ settings.catalog_path # "blank" /\ settings.data_path # "blank"
    /\ Is("catalog_type", "postgres") => settings.catalog_path = "connection"

Valid == PipelineValid /\ (DuckDB => DatabaseValid /\ (DuckLake => LakeValid))

Validate ==
    /\ stage = "validate"
    /\ Check(Valid, IF program = "forwarder" THEN "build" ELSE "take")

-----------------------------------------------------------------------------
(* The forwarder. *)

\* validate_table_name and validate_batch_settings.
SinkValid ==
    /\ settings.table_name = "name"
    /\ settings.batch_size > 0 /\ settings.max_latency > 0

\* main builds the sink; a database sink validates its settings.
Build == stage = "build" /\ Check(DuckDB => SinkValid, "start")

BatchSize == IF DuckDB THEN settings.batch_size ELSE 1
Latency   == IF DuckDB THEN settings.max_latency ELSE Day

\* The connection can be opened: apply_resource_limits accepts the threads, and
\* DuckDB both limits and the connection string of a catalog.
Opens ==
    /\ ~Is("threads", 0) /\ ~Is("threads", Huge)
    /\ Has("memory_limit") => settings.memory_limit = "200MB"
    /\ DuckLake /\ Is("catalog_type", "postgres") => settings.catalog_path = "connection"

\* pipeline_loop rejects a batch size or a latency of zero, the sink opens its
\* connection, and Vec::with_capacity takes the memory for a batch, or stops the
\* program.
Start ==
    /\ stage = "start"
    /\ Check(BatchSize > 0 /\ Latency > 0 /\ (DuckDB => Opens),
             IF BatchSize < Huge THEN "running" ELSE "panicked")

\* Instant::now() + duration panics on overflow.
Deadline(seconds, s) ==
    /\ stage' = IF seconds < Huge THEN s ELSE "panicked"
    /\ UNCHANGED <<refusedAt, settings, given>>

\* The first record of a batch sets its deadline, a signal that of the shutdown.
FirstRecord == stage = "running" /\ Deadline(Latency, "forwarding")

Shutdown ==
    /\ stage \in {"running", "forwarding"}
    /\ Deadline(settings.shutdown_timeout, "stopping")

-----------------------------------------------------------------------------
(* The maintenance program. *)

\* The retention is trimmed before it is tested.
Retention == Has("expire_older_than") /\ settings.expire_older_than # "blank"

\* maintenance_settings.
TakeSettings ==
    /\ stage = "take"
    /\ Check(DuckDB /\ DuckLake /\ settings.catalog_type # "duckdb" /\ Retention, "maintain")

\* run_ducklake_maintenance: its own checks, the connection it opens, and then
\* set_option and CHECKPOINT, one of which refuses what is not an interval.
Maintain ==
    /\ stage = "maintain"
    /\ Check(/\ settings.catalog_type # "duckdb"
             /\ settings.expire_older_than # "blank"
             /\ Opens
             /\ settings.expire_older_than # "no interval", "maintained")

Stopped ==
    stage \in {"refused", "panicked", "stopping", "maintained"} /\ UNCHANGED configVars

ConfigNext ==
    \/ Load \/ FileUnreadable \/ Deserialize \/ Validate
    \/ Build \/ Start \/ FirstRecord \/ Shutdown
    \/ TakeSettings \/ Maintain
    \/ Stopped

ConfigSpec == ConfigInit /\ [][ConfigNext]_configVars

-----------------------------------------------------------------------------
(* Properties. *)

\* Within the forms that validate() knows, only DuckDB tells these apart.
LeftToDuckDB == Is("memory_limit", "too much") \/ Is("threads", Huge)

\* "Batch size, latency, retry delays, shutdown timeout, memory limits, and thread
\* counts are validated at startup" (README.md:44).  Of what validate() accepts, the
\* only values that are refused later are a table name (by the sink), a limit that
\* DuckDB refuses, and a retention that is no interval (by DuckLake, in the first
\* maintenance run); and a program stops without an error only for a batch size, a
\* latency or a timeout for which there is no upper limit (pipeline.rs:69, 88, 94,
\* 212).
RefusedEarly ==
    /\ refusedAt = "build" => settings.table_name = "no name"
    /\ refusedAt = "start" => LeftToDuckDB
    /\ refusedAt = "maintain" => LeftToDuckDB \/ settings.expire_older_than = "no interval"
    /\ stage = "panicked" => Huge \in {BatchSize, Latency, settings.shutdown_timeout}

\* With any delays that are accepted, and for retry numbers past the width of the
\* word, retry_delay sleeps initial * 2^(n - 1) cut off at the maximum, as if it
\* computed with unbounded integers: neither its shift nor its multiplication
\* ever shortens a sleep.
DelayIsExact ==
    stage = "running" =>
        \A n \in 1 .. 2 * WordBits :
            LET exact == settings.initial_delay * ShiftedOne[n - 1]
            IN  RetryDelay(settings.initial_delay, settings.max_delay, n)
                    = IF exact <= settings.max_delay THEN exact ELSE settings.max_delay
=============================================================================
