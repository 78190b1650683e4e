------------------------------ MODULE Migration ------------------------------
(***************************************************************************)
(* The two migrations of a start of the program: the flattening of the     *)
(* endpoints (database in one transaction, then the configuration file,    *)
(* then the ledger) and the conversion of historical times to UTC.  Each   *)
(* step may fail, the process may die between any two, and the start is    *)
(* repeated from the ledger.  Until both are done nothing else runs.       *)
(* internal/migration/*.go, app.go startup, app_api_migration.go.          *)
(***************************************************************************)
EXTENDS Integers, FiniteSets, Sequences

CONSTANTS
  Endpoints,
  Zones,                \* zones the configuration or the system may name
  MaxFaults, MaxEdits   \* bounds: failed steps and crashes, edits of the zone

VARIABLES
  pc,        \* step of the start
  config,    \* the file: [mode, listed, zone]
  rows,      \* endpoint -> number of records in the table
  flat,      \* the tables have the flattened schema
  flatLedger,   \* ledger row of the flattening: [phase, backup]
  zoneLedger,   \* ledger row of the conversion: [phase, backup, zone]
  times,     \* kind of column -> [utc: has the canonical form, by: zones it was converted from]
  backups,   \* directories in the order they were made, as what they hold: [times, zone]
  made,      \* the backup this run has just made, or pinned
  status,    \* "initializing", "migrating", "failed", "ready"
  origin,    \* ghost: endpoints before the first start
  faults, edits

migVars == <<pc, config, rows, flat, flatLedger, zoneLedger, times, backups, made, status,
             origin, faults, edits>>

-----------------------------------------------------------------------------
None    == "none"
Kinds   == {"wall", "account"}     \* columns without offset; account columns written as T...Z
Unset   == [phase |-> None, backup |-> 0, zone |-> None]   \* 0: no backup

Legacy(k)    == [utc |-> FALSE, by |-> << >>]
Canonical(k) == [utc |-> TRUE, by |-> << >>]

FromYaml   == /\ config \in [mode : {"yaml"}, listed : {Endpoints}, zone : Zones]
              /\ rows = [e \in Endpoints |-> 0]
              /\ flat = FALSE /\ times = [k \in Kinds |-> Legacy(k)]
FromSqlite == /\ config \in [mode : {"sqlite"}, listed : {{}}, zone : Zones]
              /\ rows = [e \in Endpoints |-> 1]
              /\ flat = FALSE /\ times = [k \in Kinds |-> Legacy(k)]
Fresh      == /\ config \in [mode : {"sqlite"}, listed : {{}}, zone : Zones]
              /\ rows = [e \in Endpoints |-> 0]
              /\ flat = TRUE /\ times = [k \in Kinds |-> Canonical(k)]

Init ==
  /\ FromYaml \/ FromSqlite \/ Fresh
  /\ pc = "down" /\ status = "initializing" /\ made = Unset
  /\ flatLedger = Unset /\ zoneLedger = Unset /\ backups = << >>
  /\ origin = {e \in Endpoints : e \in config.listed \/ rows[e] > 0}
  /\ faults = 0 /\ edits = 0

Data == <<config, rows, flat, flatLedger, zoneLedger, times, backups, origin>>

-----------------------------------------------------------------------------
(* Failure, retry, crash.                                                   *)

\* failForMigration: the error is kept, the retry allowed.
Failed == pc' = "failed" /\ status' = "failed"

StepFails ==
  /\ pc \in {"backup", "database", "rewrite", "mark", "validate", "zone", "zonebackup", "zoneledger"}
  /\ faults < MaxFaults /\ faults' = faults + 1
  /\ Failed
  /\ UNCHANGED <<Data, made, edits>>

Crash ==
  /\ pc # "down" /\ faults < MaxFaults /\ faults' = faults + 1
  /\ pc' = "down" /\ status' = "initializing" /\ made' = Unset
  /\ UNCHANGED <<Data, edits>>

\* startup runs the coordinator; RetryStartupMigration runs it again in the
\* same process.
Startup ==
  /\ pc \in {"down", "failed"}
  /\ pc' = "flatten" /\ status' = "initializing" /\ made' = Unset
  /\ UNCHANGED <<Data, faults, edits>>

\* Somebody edits the zone in the file, or moves the machine.
ZoneEdited ==
  /\ pc \in {"down", "failed"} /\ edits < MaxEdits /\ edits' = edits + 1
  /\ \E z \in Zones : config' = [config EXCEPT !.zone = z]
  /\ UNCHANGED <<pc, rows, flat, flatLedger, zoneLedger, times, backups, made, status, origin, faults>>

-----------------------------------------------------------------------------
(* Flattening.                                                              *)

\* needsMigration
NeedsFlatten == config.mode # "sqlite" \/ config.listed # {} \/ ~flat

\* runEndpointFlatten up to its first write
Resume(phase) ==
  CASE phase = None               -> "backup"
    [] phase = "db_committed"       -> "rewrite"
    [] phase = "config_committed"   -> "validate"

RunFlatten ==
  /\ pc = "flatten"
  /\ \/ /\ flatLedger.phase = "completed" /\ NeedsFlatten
        /\ Failed
     \/ /\ flatLedger.phase \in {"completed", None} /\ ~NeedsFlatten
        /\ pc' = "zone" /\ UNCHANGED status
     \/ /\ ~(flatLedger.phase \in {"completed", None} /\ ~NeedsFlatten)
        /\ flatLedger.phase # "completed"
        /\ pc' = Resume(flatLedger.phase) /\ status' = "migrating"
  /\ UNCHANGED <<Data, made, faults, edits>>

\* CreateMigrationBackup: a verified copy of the database, the file and a manifest.
Snapshot(z) == [times |-> times, zone |-> z]
MakeBackup(z) ==
  /\ backups' = Append(backups, Snapshot(z))
  /\ made' = [Unset EXCEPT !.backup = Len(backups) + 1, !.zone = z]

CreateBackup ==
  /\ pc = "backup"
  /\ MakeBackup(None)
  /\ pc' = "database"
  /\ UNCHANGED <<config, rows, flat, flatLedger, zoneLedger, times, status, origin, faults, edits>>

\* FlattenLegacyEndpoints or loadSQLiteEndpointSnapshots, then rebuildEndpoints
Rebuilt ==
  IF config.mode = "sqlite" THEN rows
  ELSE [e \in Endpoints |-> IF e \in config.listed THEN 1 ELSE 0]

\* migrateDatabase: one transaction.
MigrateDatabase ==
  /\ pc = "database"
  /\ rows' = Rebuilt /\ flat' = TRUE
  /\ flatLedger' = [made EXCEPT !.phase = "db_committed"]
  /\ pc' = "rewrite"
  /\ UNCHANGED <<config, zoneLedger, times, backups, made, status, origin, faults, edits>>

\* RewriteConfigToSQLite replaces the file in one rename.
RewriteConfig ==
  /\ pc = "rewrite"
  /\ config' = [config EXCEPT !.mode = "sqlite", !.listed = {}]
  /\ pc' = "mark"
  /\ UNCHANGED <<rows, flat, flatLedger, zoneLedger, times, backups, made, status, origin, faults, edits>>

\* updateLedgerPhase
Mark(step, phase, next) ==
  /\ pc = step
  /\ flatLedger' = [flatLedger EXCEPT !.phase = phase]
  /\ pc' = next
  /\ UNCHANGED <<config, rows, flat, zoneLedger, times, backups, made, status, origin, faults, edits>>

MarkConfig == Mark("mark", "config_committed", "validate")
Validate   == flat /\ Mark("validate", "completed", "zone")

-----------------------------------------------------------------------------
(* Conversion of the times.                                                 *)

NeedsUTC == \E k \in Kinds : ~times[k].utc

\* readVerifiedBackupManifest
Repinned == [zoneLedger EXCEPT !.zone = config.zone]     \* faulty variant
Pinned   == zoneLedger

\* runTimezoneUTCMigration up to its backup.  A ledger with a backup pins the
\* zone; otherwise the configuration, or the system, names it.
RunTimezone ==
  /\ pc = "zone"
  /\ IF zoneLedger.phase = "completed" \/ ~NeedsUTC
     THEN pc' = "ready" /\ status' = "ready" /\ UNCHANGED made
     ELSE /\ status' = "migrating"
          /\ IF zoneLedger.backup > 0
             THEN pc' = "convert" /\ made' = Pinned
             ELSE /\ pc' = "zonebackup"
                  /\ made' = [Unset EXCEPT !.zone = config.zone]
  /\ UNCHANGED <<Data, faults, edits>>

ZoneBackup ==
  /\ pc = "zonebackup"
  /\ MakeBackup(made.zone)
  /\ pc' = "zoneledger"
  /\ UNCHANGED <<config, rows, flat, flatLedger, zoneLedger, times, status, origin, faults, edits>>

\* prepareTimezoneLedger
PrepareLedger ==
  /\ pc = "zoneledger"
  /\ zoneLedger' = [made EXCEPT !.phase = "prepared"]
  /\ pc' = "convert"
  /\ UNCHANGED <<config, rows, flat, flatLedger, times, backups, made, status, origin, faults, edits>>

\* parseHistoricalTime: a canonical value keeps its meaning, unless it is an
\* account time, which is always read as a wall clock of UTC+8.
Converted(k, z) ==
  IF k = "account" THEN [utc |-> TRUE, by |-> Append(times[k].by, "UTC+8")]
  ELSE IF times[k].utc THEN times[k]
  ELSE [utc |-> TRUE, by |-> Append(times[k].by, z)]

\* executeTimezoneMigration: the values and the ledger in one transaction
Convert ==
  /\ pc = "convert"
  /\ times' = [k \in Kinds |-> Converted(k, made.zone)]
  /\ zoneLedger' = [zoneLedger EXCEPT !.phase = "completed"]
  /\ pc' = "ready" /\ status' = "ready"
  /\ UNCHANGED <<config, rows, flat, flatLedger, backups, made, origin, faults, edits>>

\* A failed transaction leaves everything; the ledger says so if it can.
ConvertFails ==
  /\ pc = "convert" /\ faults < MaxFaults /\ faults' = faults + 1
  /\ Failed
  /\ zoneLedger' \in {zoneLedger, [zoneLedger EXCEPT !.phase = "failed"]}
  /\ UNCHANGED <<config, rows, flat, flatLedger, times, backups, made, origin, edits>>

-----------------------------------------------------------------------------
(* The program runs: only now are there other writers.                      *)
EndpointDeleted(e) ==
  /\ pc = "ready" /\ rows[e] > 0
  /\ rows' = [rows EXCEPT ![e] = 0] /\ origin' = origin \ {e}
  /\ UNCHANGED <<pc, config, flat, flatLedger, zoneLedger, times, backups, made, status, faults, edits>>

Next ==
  \/ StepFails \/ Crash \/ Startup \/ ZoneEdited
  \/ RunFlatten \/ CreateBackup \/ MigrateDatabase \/ RewriteConfig \/ MarkConfig \/ Validate
  \/ RunTimezone \/ ZoneBackup \/ PrepareLedger \/ Convert \/ ConvertFails
  \/ \E e \in Endpoints : EndpointDeleted(e)

Spec == Init /\ [][Next]_migVars

-----------------------------------------------------------------------------
\* No time is converted twice, and all are read in the one zone that was
\* pinned with the backup, whatever happens to the configuration between
\* the attempts; a database that was converted has a backup, named by its
\* ledger, that holds the values before.
ConvertedOnce ==
  /\ \A k \in Kinds : Len(times[k].by) <= 1
  /\ (\E k \in Kinds : times[k].by # << >>) =>
       /\ zoneLedger.backup \in DOMAIN backups
       /\ LET b == backups[zoneLedger.backup] IN
            /\ \A k \in Kinds : b.times[k].by = << >>
            /\ times["wall"].by # << >> => times["wall"].by[1] = b.zone

\* No endpoint is lost or duplicated by a crash between the transaction, the
\* file and the ledger, a deleted one does not come back with the next start,
\* and what runs finds the new schema, the new file and converted times.
EndpointsSurvive ==
  /\ \A e \in Endpoints : rows[e] <= 1
  /\ \A e \in origin : rows[e] = 1 \/ e \in config.listed
  /\ status = "ready" => /\ ~NeedsFlatten /\ ~NeedsUTC
                         /\ {e \in Endpoints : rows[e] > 0} = origin
=============================================================================
