------------------------------ MODULE DuckLake ------------------------------
(***************************************************************************)
(* A DuckLake catalog shared by a forwarder (the connection factory of     *)
(* sink/ducklake.rs, run by the worker thread) and by runs of the          *)
(* maintenance program (maintenance.rs).  Each statement and each system   *)
(* call is a step: it may fail, and the others go on in between.           *)
(*                                                                         *)
(* DuckLake is external: ATTACH creates a catalog that does not exist, the *)
(* file first and its metadata after that, a commit adds a snapshot, and   *)
(* CHECKPOINT expires the snapshots older than the retention that the      *)
(* catalog stores, except the last.  Snapshots are numbered by their       *)
(* commits, and aged in ticks.                                             *)
(***************************************************************************)
EXTENDS Integers, Sequences

CONSTANTS
    CatalogTypes,   \* the types of catalog: "DuckDB", "SQLite", "Postgres"
    Clients,        \* runs of the maintenance program, which may overlap
    Retention,      \* Retention[c]: expire_older_than of the deployment of c, in ticks
    StoredOptions,  \* what the catalog may store of earlier deployments
    MaxCommits,     \* bound: commits of the forwarder
    MaxAge          \* bound: ticks a snapshot is followed for

NoOption == -1

ASSUME DuckLakeAssumption ==
    /\ CatalogTypes \subseteq {"DuckDB", "SQLite", "Postgres"}
    /\ Retention \in [Clients -> Nat] /\ StoredOptions \subseteq Nat \cup {NoOption}
    /\ MaxCommits \in Nat /\ MaxAge \in Nat

VARIABLES
    catalogType,
    directory,      \* the data directory exists
    catalog,        \* "none", a "file" without metadata, or "ready"
    table,          \* the table exists in the catalog
    option,         \* the retention stored in the catalog
    age,            \* age[n]: ticks since commit n
    kept,           \* the commits whose snapshots are kept
    forwarder,      \* the connection of the worker, or the next step of its factory
    client          \* client[c]: the next step of a run, or how it ended

commits == <<age, kept>>
paths   == <<catalogType, directory, catalog, table>>
lakeVars == <<paths, option, commits, forwarder, client>>

Opening     == {"closed", "attach", "metadata", "create table"}
Maintaining == {"start", "attach", "metadata", "set option", "checkpoint"}

LakeTypeOK ==
    /\ catalogType \in CatalogTypes
    /\ directory \in BOOLEAN /\ table \in BOOLEAN
    /\ catalog \in {"none", "file", "ready"}
    /\ option \in Nat \cup {NoOption}
    /\ age \in Seq(Nat)
    /\ kept \subseteq DOMAIN age
    /\ forwarder \in Opening \cup {"open"}
    /\ client \in [Clients -> Maintaining \cup {"ok", "failed"}]

\* A new deployment, one whose data directory is prepared or whose first ATTACH
\* has not come to its end, or an old catalog.
LakeInit ==
    /\ catalogType \in CatalogTypes
    /\ \/ /\ directory \in BOOLEAN /\ table = FALSE /\ option = NoOption
          /\ catalog = "none" \/ (catalog = "file" /\ directory /\ catalogType # "Postgres")
       \/ /\ directory = TRUE /\ catalog = "ready" /\ table \in BOOLEAN
          /\ option \in StoredOptions
    /\ age = <<>> /\ kept = {}
    /\ forwarder = "closed" /\ client = [c \in Clients |-> "start"]

-----------------------------------------------------------------------------
(* ATTACH, which opens or creates the file of a catalog that has one, and    *)
(* then writes the metadata that the catalog lacks.                          *)

OpenCatalog ==
    catalog' = IF catalog = "none" /\ catalogType # "Postgres" THEN "file" ELSE catalog

InitCatalog == catalog' = "ready"

-----------------------------------------------------------------------------
(* The forwarder: open_ducklake_connection with create_missing_paths, and   *)
(* CREATE TABLE IF NOT EXISTS.                                              *)

ForwarderGoes(s) == forwarder' = s /\ UNCHANGED <<catalogType, option, commits, client>>

MakeDirectories ==
    /\ forwarder = "closed" /\ ForwarderGoes("attach")
    /\ directory' = TRUE /\ UNCHANGED <<catalog, table>>

\* Plausible error: only a catalog that has just been created needs the table.
AttachOnce ==
    /\ forwarder = "attach" /\ OpenCatalog
    /\ ForwarderGoes(IF catalog = "ready" THEN "open" ELSE "metadata")
    /\ UNCHANGED <<directory, table>>

Attach ==
    /\ forwarder = "attach" /\ OpenCatalog /\ ForwarderGoes("metadata")
    /\ UNCHANGED <<directory, table>>

AttachMetadata ==
    /\ forwarder = "metadata" /\ InitCatalog /\ ForwarderGoes("create table")
    /\ UNCHANGED <<directory, table>>

CreateTable ==
    /\ forwarder = "create table" /\ ForwarderGoes("open")
    /\ table' = TRUE /\ UNCHANGED <<directory, catalog>>

\* A step of the factory fails, or a write does and the connection is dropped;
\* a later command calls the factory again.
ForwarderFails ==
    /\ forwarder # "closed" /\ ForwarderGoes("closed")
    /\ UNCHANGED <<directory, catalog, table>>

\* The transaction of insert_batch.
CommitBatch ==
    /\ forwarder = "open" /\ Len(age) < MaxCommits
    /\ age' = Append(age, 0) /\ kept' = kept \cup {Len(age')}
    /\ UNCHANGED <<paths, option, forwarder, client>>

-----------------------------------------------------------------------------
(* run_ducklake_maintenance. *)

ClientTo(c, s) == client' = [client EXCEPT ![c] = s] /\ UNCHANGED forwarder

ClientGoes(c, s) == ClientTo(c, s) /\ UNCHANGED paths

ClientFails(c) == ClientGoes(c, "failed") /\ UNCHANGED <<option, commits>>

\* Plausible error: only the data directory must be there already.
DirectoryOnly == directory

\* open_ducklake_connection without create_missing_paths: the data directory must
\* exist, and the catalog if it is a file.
PathsExist == directory /\ (catalogType # "Postgres" => catalog # "none")

\* A DuckDB catalog is refused, as it admits one client.
CheckPaths(c) ==
    /\ client[c] = "start"
    /\ IF catalogType # "DuckDB" /\ PathsExist
       THEN ClientGoes(c, "attach") /\ UNCHANGED <<option, commits>>
       ELSE ClientFails(c)

AttachCatalog(c) ==
    /\ client[c] = "attach" /\ OpenCatalog /\ ClientTo(c, "metadata")
    /\ UNCHANGED <<catalogType, directory, table, option, commits>>

CatalogMetadata(c) ==
    /\ client[c] = "metadata" /\ InitCatalog /\ ClientTo(c, "set option")
    /\ UNCHANGED <<catalogType, directory, table, option, commits>>

\* Plausible error: a retention that is stored already is left as it is.
SetOptionOnce(c) ==
    /\ client[c] = "set option" /\ ClientGoes(c, "checkpoint")
    /\ option' = IF option = NoOption THEN Retention[c] ELSE option
    /\ UNCHANGED commits

SetOption(c) ==
    /\ client[c] = "set option" /\ ClientGoes(c, "checkpoint")
    /\ option' = Retention[c] /\ UNCHANGED commits

Expired ==
    IF option = NoOption THEN {} ELSE {n \in kept : n < Len(age) /\ age[n] > option}

Checkpoint(c) ==
    /\ client[c] = "checkpoint" /\ ClientGoes(c, "ok")
    /\ kept' = kept \ Expired /\ UNCHANGED <<option, age>>

\* Plausible error: a failed CHECKPOINT is only logged.
CheckpointFailsLogged(c) ==
    /\ client[c] = "checkpoint" /\ ClientGoes(c, "ok")
    /\ \E some \in SUBSET Expired : kept' = kept \ some
    /\ UNCHANGED <<option, age>>

\* CHECKPOINT expires, merges and cleans up: it may fail after a part of that.
CheckpointFails(c) ==
    /\ client[c] = "checkpoint" /\ ClientGoes(c, "failed")
    /\ \E some \in SUBSET Expired : kept' = kept \ some
    /\ UNCHANGED <<option, age>>

StatementFails(c) == client[c] \in {"attach", "metadata", "set option"} /\ ClientFails(c)

\* The scheduler starts the next cycle.
Again(c) ==
    /\ client[c] \in {"ok", "failed"} /\ ClientGoes(c, "start")
    /\ UNCHANGED <<option, commits>>

-----------------------------------------------------------------------------

GrowOlder ==
    /\ \E n \in DOMAIN age : age[n] < MaxAge
    /\ age' = [n \in DOMAIN age |-> IF age[n] < MaxAge THEN age[n] + 1 ELSE age[n]]
    /\ UNCHANGED <<paths, option, kept, forwarder, client>>

ForwarderStep ==
    \/ MakeDirectories \/ Attach \/ AttachMetadata \/ CreateTable
    \/ ForwarderFails \/ CommitBatch

Maintenance(c) ==
    \/ CheckPaths(c) \/ AttachCatalog(c) \/ CatalogMetadata(c) \/ SetOption(c)
    \/ Checkpoint(c) \/ CheckpointFails(c) \/ StatementFails(c) \/ Again(c)

LakeNext == ForwarderStep \/ (\E c \in Clients : Maintenance(c)) \/ GrowOlder

LakeSpec == LakeInit /\ [][LakeNext]_lakeVars

-----------------------------------------------------------------------------
(* Properties. *)

\* The factory is called again after any of its steps has failed, over whatever
\* the failed call or that of another program left: a connection it returns has
\* its catalog and its table.
OpenIsComplete == forwarder = "open" => directory /\ catalog = "ready" /\ table

\* "The catalog and data directory must already exist" (README.md:83): between its
\* check and its ATTACH, with a forwarder half-way through its own, a maintenance
\* run creates neither, although it may write the metadata of a file it found.
MaintenanceCreatesNothing ==
    [][catalogType # "Postgres" /\ client' # client =>
          UNCHANGED <<directory, catalog = "none", table>>]_lakeVars

\* "Keep the configured retention identical across deployments sharing a catalog"
\* (README.md:63): then no snapshot younger than that is expired, and where the
\* deployments differ none that each of them keeps, whatever option another run,
\* or one that failed half-way, stores between set_option and CHECKPOINT.
HistoryKept ==
    \A n \in DOMAIN age : (\A c \in Clients : age[n] <= Retention[c]) => n \in kept

\* "Success exits with status 0" (README.md:116): a run that returned Ok has left
\* no snapshot, beside the last, that is older than each deployment keeps it.
SuccessExpires ==
    [][\A c \in Clients : client[c] # "ok" /\ client'[c] = "ok" =>
          \A n \in kept : n < Len(age) /\ (\A d \in Clients : age[n] > Retention[d])
                          => n \notin kept']_lakeVars
=============================================================================
