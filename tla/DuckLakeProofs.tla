--------------------------- MODULE DuckLakeProofs ---------------------------
(***************************************************************************)
(* Proofs about DuckLake, for any set of maintenance runs, any retention   *)
(* of each and any catalog an earlier deployment has left.                 *)
(***************************************************************************)
EXTENDS DuckLake, TLAPS

\* The factory goes on from a step only after what that step makes is there.
OpenedPaths ==
    /\ forwarder # "closed" => directory
    /\ forwarder \in {"create table", "open"} => catalog = "ready"
    /\ forwarder = "open" => table

\* What a run has checked stays as it was checked: nothing removes a path.
CheckedPaths ==
    \A c \in Clients :
        client[c] \in {"attach", "metadata", "set option", "checkpoint"} => PathsExist

\* A run that is about to checkpoint finds its own retention or that of another
\* run, and no longer what an earlier deployment stored, however the runs overlap.
OptionSet ==
    \A c \in Clients : client[c] = "checkpoint" => \E d \in Clients : option = Retention[d]

LakeInv == LakeTypeOK /\ OpenedPaths /\ CheckedPaths /\ OptionSet /\ HistoryKept

-----------------------------------------------------------------------------

LEMMA InitLake == LakeInit => LakeInv
<1> SUFFICES ASSUME LakeInit PROVE LakeInv
  OBVIOUS
<1>1. age \in Seq(Nat) /\ DOMAIN age = {} /\ kept = {}
  BY DEF LakeInit
<1>2. catalogType \in CatalogTypes /\ option \in Nat \cup {NoOption}
  BY DuckLakeAssumption DEF LakeInit
<1>3. directory \in BOOLEAN /\ catalog \in {"none", "file", "ready"} /\ table \in BOOLEAN
  BY DEF LakeInit
<1>4. forwarder = "closed" /\ client = [c \in Clients |-> "start"]
  BY DEF LakeInit
<1>5. LakeTypeOK
  BY <1>1, <1>2, <1>3, <1>4 DEF LakeTypeOK, Opening, Maintaining
<1>6. OpenedPaths /\ CheckedPaths /\ OptionSet
  BY <1>4 DEF OpenedPaths, CheckedPaths, OptionSet
<1>7. HistoryKept
  BY <1>1 DEF HistoryKept
<1> QED
  BY <1>5, <1>6, <1>7 DEF LakeInv

LEMMA ForwarderKeepsType == LakeTypeOK /\ ForwarderStep => LakeTypeOK'
<1> SUFFICES ASSUME LakeTypeOK, ForwarderStep PROVE LakeTypeOK'
  OBVIOUS
<1>1. CASE CommitBatch
  <2>1. age' \in Seq(Nat) /\ Len(age') = Len(age) + 1 /\ DOMAIN age \subseteq DOMAIN age'
    BY <1>1 DEF CommitBatch, LakeTypeOK
  <2>2. kept' \subseteq DOMAIN age'
    BY <1>1, <2>1 DEF CommitBatch, LakeTypeOK
  <2> QED
    BY <1>1, <2>1, <2>2 DEF CommitBatch, LakeTypeOK, paths
<1>2. CASE MakeDirectories \/ Attach \/ AttachMetadata \/ CreateTable \/ ForwarderFails
  <2>1. UNCHANGED <<catalogType, option, commits, client>>
    BY <1>2 DEF MakeDirectories, Attach, AttachMetadata, CreateTable, ForwarderFails,
                ForwarderGoes
  <2>2. /\ directory' \in BOOLEAN /\ table' \in BOOLEAN
        /\ catalog' \in {"none", "file", "ready"}
    BY <1>2 DEF MakeDirectories, Attach, AttachMetadata, CreateTable, ForwarderFails,
                OpenCatalog, InitCatalog, LakeTypeOK
  <2>3. forwarder' \in Opening \cup {"open"}
    BY <1>2 DEF MakeDirectories, Attach, AttachMetadata, CreateTable, ForwarderFails,
                ForwarderGoes, Opening
  <2> QED
    BY <2>1, <2>2, <2>3 DEF commits, LakeTypeOK
<1> QED
  BY <1>1, <1>2 DEF ForwarderStep

\* What a run can do to the paths: its ATTACH is the only step that may.
LEMMA MaintenancePaths ==
  ASSUME NEW c \in Clients, Maintenance(c)
  PROVE  /\ UNCHANGED <<catalogType, directory, table>>
         /\ \/ UNCHANGED catalog
            \/ client[c] = "attach" /\ OpenCatalog
            \/ client[c] = "metadata" /\ InitCatalog
<1>1. CASE AttachCatalog(c)
  BY <1>1 DEF AttachCatalog
<1>2. CASE CatalogMetadata(c)
  BY <1>2 DEF CatalogMetadata
<1>3. CASE CheckPaths(c) \/ SetOption(c) \/ StatementFails(c) \/ Again(c)
  BY <1>3 DEF CheckPaths, SetOption, StatementFails, Again, ClientFails, ClientGoes, paths
<1>4. CASE Checkpoint(c) \/ CheckpointFails(c)
  BY <1>4 DEF Checkpoint, CheckpointFails, ClientGoes, paths
<1> QED
  BY <1>1, <1>2, <1>3, <1>4 DEF Maintenance

LEMMA MaintenanceKeepsType ==
  ASSUME LakeTypeOK, NEW c \in Clients, Maintenance(c) PROVE LakeTypeOK'
<1>1. UNCHANGED <<forwarder, age>>
  BY DEF Maintenance, CheckPaths, AttachCatalog, CatalogMetadata, SetOption, Checkpoint,
         CheckpointFails, StatementFails, Again, ClientFails, ClientGoes, ClientTo, commits
<1>2. kept' \subseteq kept
  BY DEF Maintenance, CheckPaths, AttachCatalog, CatalogMetadata, SetOption, Checkpoint,
         CheckpointFails, StatementFails, Again, ClientFails, ClientGoes, ClientTo, paths,
         commits
<1>3. option' \in {option, Retention[c]}
  BY DEF Maintenance, CheckPaths, AttachCatalog, CatalogMetadata, SetOption, Checkpoint,
         CheckpointFails, StatementFails, Again, ClientFails, ClientGoes, ClientTo, paths,
         commits
<1>4. \E s \in Maintaining \cup {"ok", "failed"} : client' = [client EXCEPT ![c] = s]
  BY DEF Maintenance, CheckPaths, AttachCatalog, CatalogMetadata, SetOption, Checkpoint,
         CheckpointFails, StatementFails, Again, ClientFails, ClientGoes, ClientTo, Maintaining
<1>5. UNCHANGED <<catalogType, directory, table>> /\ catalog' \in {"none", "file", "ready"}
  BY MaintenancePaths DEF OpenCatalog, InitCatalog, LakeTypeOK
<1>6. option' \in Nat \cup {NoOption}
  BY <1>3, DuckLakeAssumption DEF LakeTypeOK
<1>7. client' \in [Clients -> Maintaining \cup {"ok", "failed"}]
  BY <1>4 DEF LakeTypeOK
<1> QED
  BY <1>1, <1>2, <1>5, <1>6, <1>7 DEF LakeTypeOK

LEMMA GrowOlderKeepsType == LakeTypeOK /\ GrowOlder => LakeTypeOK'
<1> SUFFICES ASSUME LakeTypeOK, GrowOlder PROVE LakeTypeOK'
  OBVIOUS
<1>1. \A n \in DOMAIN age : age'[n] \in Nat
  BY DEF GrowOlder, LakeTypeOK
<1>2. age' \in Seq(Nat) /\ DOMAIN age' = DOMAIN age
  BY <1>1 DEF GrowOlder, LakeTypeOK
<1> QED
  BY <1>2 DEF GrowOlder, LakeTypeOK, paths

LEMMA NextType == LakeTypeOK /\ [LakeNext]_lakeVars => LakeTypeOK'
  BY ForwarderKeepsType, MaintenanceKeepsType, GrowOlderKeepsType
     DEF LakeNext, lakeVars, paths, commits, LakeTypeOK

-----------------------------------------------------------------------------

\* Paths only appear: no step of either program removes one.
LEMMA PathsStay ==
  ASSUME LakeTypeOK, [LakeNext]_lakeVars
  PROVE  /\ catalogType' = catalogType
         /\ directory => directory'
         /\ catalog # "none" => catalog' # "none"
         /\ catalog = "ready" => catalog' = "ready"
         /\ table => table'
<1>1. CASE ForwarderStep
  <2>1. CASE Attach \/ AttachMetadata
    BY <2>1 DEF Attach, AttachMetadata, ForwarderGoes, OpenCatalog, InitCatalog, LakeTypeOK
  <2>2. CASE MakeDirectories \/ CreateTable \/ ForwarderFails
    BY <2>2 DEF MakeDirectories, CreateTable, ForwarderFails, ForwarderGoes, LakeTypeOK
  <2>3. CASE CommitBatch
    BY <2>3 DEF CommitBatch, paths
  <2> QED
    BY <1>1, <2>1, <2>2, <2>3 DEF ForwarderStep
<1>2. ASSUME NEW c \in Clients, Maintenance(c)
      PROVE  /\ UNCHANGED <<catalogType, directory, table>>
             /\ catalog # "none" => catalog' # "none"
             /\ catalog = "ready" => catalog' = "ready"
  BY <1>2, MaintenancePaths DEF OpenCatalog, InitCatalog
<1>3. CASE GrowOlder \/ UNCHANGED lakeVars
  BY <1>3 DEF GrowOlder, lakeVars, paths
<1> QED
  BY <1>1, <1>2, <1>3 DEF LakeNext

\* A step of a run is its own: the other runs and the forwarder stay.
LEMMA OwnStep ==
  ASSUME LakeTypeOK, NEW c \in Clients, Maintenance(c)
  PROVE  /\ \A d \in Clients \ {c} : client'[d] = client[d]
         /\ UNCHANGED <<forwarder, age>>
  BY DEF Maintenance, CheckPaths, AttachCatalog, CatalogMetadata, SetOption, Checkpoint,
         CheckpointFails, StatementFails, Again, ClientFails, ClientGoes, ClientTo, paths,
         commits, LakeTypeOK

\* The steps of the forwarder and of the clock leave the runs and the option alone.
LEMMA OthersLeaveRuns ==
  ASSUME ForwarderStep \/ GrowOlder \/ UNCHANGED lakeVars
  PROVE  UNCHANGED <<client, option>>
  BY DEF ForwarderStep, MakeDirectories, Attach, AttachMetadata, CreateTable, ForwarderFails,
         CommitBatch, ForwarderGoes, GrowOlder, lakeVars, paths, commits

LEMMA NextOpened == LakeTypeOK /\ OpenedPaths /\ [LakeNext]_lakeVars => OpenedPaths'
<1> SUFFICES ASSUME LakeTypeOK, OpenedPaths, [LakeNext]_lakeVars PROVE OpenedPaths'
  OBVIOUS
<1>1. CASE MakeDirectories \/ ForwarderFails
  BY <1>1 DEF MakeDirectories, ForwarderFails, ForwarderGoes, OpenedPaths
<1>2. CASE Attach \/ AttachMetadata \/ CreateTable
  BY <1>2 DEF Attach, AttachMetadata, CreateTable, ForwarderGoes, InitCatalog, OpenedPaths
<1>3. CASE forwarder' = forwarder
  BY <1>3, PathsStay DEF OpenedPaths
<1>4. CommitBatch \/ GrowOlder \/ UNCHANGED lakeVars => forwarder' = forwarder
  BY DEF CommitBatch, GrowOlder, lakeVars
<1> QED
  BY <1>1, <1>2, <1>3, <1>4, OwnStep DEF LakeNext, ForwarderStep

LEMMA NextChecked == LakeTypeOK /\ CheckedPaths /\ [LakeNext]_lakeVars => CheckedPaths'
<1> SUFFICES ASSUME LakeTypeOK, CheckedPaths, [LakeNext]_lakeVars PROVE CheckedPaths'
  OBVIOUS
<1>1. PathsExist => PathsExist'
  BY PathsStay DEF PathsExist
<1>2. CASE UNCHANGED client
  BY <1>1, <1>2 DEF CheckedPaths
<1>3. ASSUME NEW c \in Clients, Maintenance(c) PROVE CheckedPaths'
  <2>1. client'[c] \in {"attach", "metadata", "set option", "checkpoint"} => PathsExist
    BY <1>3 DEF Maintenance, CheckPaths, AttachCatalog, CatalogMetadata, SetOption, Checkpoint,
                CheckpointFails, StatementFails, Again, ClientFails, ClientGoes, ClientTo,
                LakeTypeOK, CheckedPaths
  <2> QED
    BY <1>1, <1>3, <2>1, OwnStep DEF CheckedPaths
<1> QED
  BY <1>2, <1>3, OthersLeaveRuns DEF LakeNext

LEMMA NextOption == LakeTypeOK /\ OptionSet /\ [LakeNext]_lakeVars => OptionSet'
<1> SUFFICES ASSUME LakeTypeOK, OptionSet, [LakeNext]_lakeVars PROVE OptionSet'
  OBVIOUS
<1>1. CASE UNCHANGED <<client, option>>
  BY <1>1 DEF OptionSet
<1>2. ASSUME NEW c \in Clients, Maintenance(c) PROVE OptionSet'
  <2>1. CASE SetOption(c)
    BY <2>1 DEF SetOption, OptionSet
  <2>2. CASE ~SetOption(c)
    <3>1. option' = option /\ client'[c] # "checkpoint"
      BY <1>2, <2>2 DEF Maintenance, CheckPaths, AttachCatalog, CatalogMetadata, Checkpoint,
                        CheckpointFails, StatementFails, Again, ClientFails, ClientGoes,
                        ClientTo, commits, LakeTypeOK
    <3> QED
      BY <1>2, <3>1, OwnStep DEF OptionSet
  <2> QED
    BY <2>1, <2>2
<1> QED
  BY <1>1, <1>2, OthersLeaveRuns DEF LakeNext

LEMMA NextHistory ==
  LakeTypeOK /\ OptionSet /\ HistoryKept /\ [LakeNext]_lakeVars => HistoryKept'
<1> SUFFICES ASSUME LakeTypeOK, OptionSet, HistoryKept, [LakeNext]_lakeVars
             PROVE  HistoryKept'
  OBVIOUS
<1>1. CASE UNCHANGED commits
  BY <1>1 DEF commits, HistoryKept
<1>2. CASE CommitBatch
  BY <1>2 DEF CommitBatch, HistoryKept, LakeTypeOK
<1>3. CASE GrowOlder
  <2>1. \A n \in DOMAIN age' : n \in DOMAIN age /\ age[n] <= age'[n] /\ age'[n] \in Nat
    BY <1>3 DEF GrowOlder, LakeTypeOK
  <2> QED
    BY <1>3, <2>1, DuckLakeAssumption DEF GrowOlder, HistoryKept, LakeTypeOK
<1>4. ASSUME NEW c \in Clients, Checkpoint(c) \/ CheckpointFails(c) PROVE HistoryKept'
  <2>1. PICK d \in Clients : option = Retention[d]
    BY <1>4 DEF Checkpoint, CheckpointFails, OptionSet
  <2>2. \A n \in Expired : ~(age[n] <= Retention[d])
    BY <2>1, DuckLakeAssumption DEF Expired, LakeTypeOK
  <2>3. UNCHANGED age /\ kept \ Expired \subseteq kept'
    BY <1>4 DEF Checkpoint, CheckpointFails
  <2> QED
    BY <2>2, <2>3 DEF HistoryKept
<1>5. CASE \/ MakeDirectories \/ Attach \/ AttachMetadata \/ CreateTable
           \/ ForwarderFails \/ UNCHANGED lakeVars
  BY <1>1, <1>5 DEF MakeDirectories, Attach, AttachMetadata, CreateTable, ForwarderFails,
                    ForwarderGoes, lakeVars
<1>6. ASSUME NEW c \in Clients,
             \/ CheckPaths(c) \/ AttachCatalog(c) \/ CatalogMetadata(c) \/ SetOption(c)
             \/ StatementFails(c) \/ Again(c)
      PROVE  HistoryKept'
  BY <1>1, <1>6 DEF CheckPaths, AttachCatalog, CatalogMetadata, SetOption, StatementFails,
                    Again, ClientFails
<1> QED
  BY <1>2, <1>3, <1>4, <1>5, <1>6 DEF LakeNext, ForwarderStep, Maintenance

LEMMA AlwaysLake == LakeSpec => []LakeInv
<1>1. LakeInv /\ [LakeNext]_lakeVars => LakeInv'
  BY NextType, NextOpened, NextChecked, NextOption, NextHistory DEF LakeInv
<1> QED
  BY InitLake, <1>1, PTL DEF LakeSpec

-----------------------------------------------------------------------------

\* A connection that the factory of the DuckLake sink returns has its directory,
\* its catalog and its table, whatever steps of earlier calls have failed.
THEOREM OpenComplete == LakeSpec => []OpenIsComplete
<1>1. LakeInv => OpenIsComplete
  BY DEF LakeInv, OpenedPaths, OpenIsComplete
<1> QED
  BY AlwaysLake, <1>1, PTL

\* No maintenance run, however many overlap and wherever they fail, expires a
\* snapshot that is younger than every configured retention.
THEOREM KeepsHistory == LakeSpec => []HistoryKept
<1>1. LakeInv => HistoryKept
  BY DEF LakeInv
<1> QED
  BY AlwaysLake, <1>1, PTL

\* The ATTACH of a maintenance run creates no catalog file and no directory, also
\* when it meets the file of a forwarder that has not written its metadata yet.
THEOREM CreatesNothing == LakeSpec => MaintenanceCreatesNothing
<1>1. ASSUME LakeInv, [LakeNext]_lakeVars, catalogType # "Postgres", client' # client
      PROVE  UNCHANGED <<directory, catalog = "none", table>>
  <2>1. PICK c \in Clients : Maintenance(c)
    BY <1>1, OthersLeaveRuns DEF LakeNext
  <2>2. CASE client[c] \in {"attach", "metadata"}
    <3>1. catalog # "none"
      BY <1>1, <2>2 DEF LakeInv, CheckedPaths, PathsExist
    <3> QED
      BY <2>1, <3>1, MaintenancePaths DEF OpenCatalog, InitCatalog
  <2>3. CASE client[c] \notin {"attach", "metadata"}
    BY <2>1, <2>3, MaintenancePaths
  <2> QED
    BY <2>2, <2>3
<1>2. LakeInv /\ [LakeNext]_lakeVars =>
        [catalogType # "Postgres" /\ client' # client =>
            UNCHANGED <<directory, catalog = "none", table>>]_lakeVars
  BY <1>1
<1> QED
  BY AlwaysLake, <1>2, PTL DEF LakeSpec, MaintenanceCreatesNothing

\* A run that returns Ok has left no snapshot older than every configured
\* retention, beside the last one, whoever stored the option last.
THEOREM ExpiresOnSuccess == LakeSpec => SuccessExpires
<1> DEFINE Expires ==
      \A c \in Clients : client[c] # "ok" /\ client'[c] = "ok" =>
          \A n \in kept : n < Len(age) /\ (\A d \in Clients : age[n] > Retention[d])
                          => n \notin kept'
<1>1. ASSUME LakeInv, [LakeNext]_lakeVars, NEW c \in Clients,
             client[c] # "ok", client'[c] = "ok"
      PROVE  \A n \in kept : n < Len(age) /\ (\A d \in Clients : age[n] > Retention[d])
                          => n \notin kept'
  <2>1. Maintenance(c)
    BY <1>1, OthersLeaveRuns, OwnStep DEF LakeNext, LakeInv
  <2>2. Checkpoint(c)
    BY <1>1, <2>1 DEF Maintenance, CheckPaths, AttachCatalog, CatalogMetadata, SetOption,
                      CheckpointFails, StatementFails, Again, ClientFails, ClientGoes,
                      ClientTo, LakeInv, LakeTypeOK
  <2>3. PICK d \in Clients : option = Retention[d] /\ Retention[d] # NoOption
    BY <1>1, <2>2, DuckLakeAssumption DEF Checkpoint, LakeInv, OptionSet, NoOption
  <2> QED
    BY <2>2, <2>3 DEF Checkpoint, Expired
<1>2. LakeInv /\ [LakeNext]_lakeVars => [Expires]_lakeVars
  BY <1>1
<1> QED
  BY AlwaysLake, <1>2, PTL DEF LakeSpec, SuccessExpires
=============================================================================
