------------------------------ MODULE GoldTable ------------------------------
(***************************************************************************)
(* The columns of gold.fact_hotspot_congestion_5min, from silver_to_gold   *)
(* that creates and fills the table, through the migration that adds a     *)
(* column to a table made by an earlier version, to the lags that          *)
(* slo_metrics.py takes from it.                                           *)
(*                                                                         *)
(* Only the timestamps are followed; the nine columns before them never    *)
(* change.  The INSERT names no columns: its expressions go to those of    *)
(* the table by position, as the table was when the job was submitted.  A  *)
(* data file keeps the columns that it was written with, and slo_metrics   *)
(* reads the files, by name.                                               *)
(***************************************************************************)
EXTENDS Integers, Sequences

CONSTANTS
  Migrations,     \* processes that may run migrate_gold_add_kafka_ts.py
  Day,            \* the 24 hours of the SLO report
  MaxTime,        \* bound: the clock
  MaxWindows,     \* bound: windows written
  MaxBroken       \* bound: migrations that a failure ends

ASSUME GoldAssumption ==
  Day \in Nat /\ MaxTime \in Nat /\ MaxWindows \in Nat /\ MaxBroken \in Nat

TARGET_COLUMN == "last_silver_arrival_ts"
LEGACY_COLUMN == "last_kafka_ts"

(* What the INSERT selects, and the CREATE TABLE declares, in this order.  *)
Select == <<"last_api_response_ts", TARGET_COLUMN, "gold_arrival_ts">>

(* The table of the version before, and of a first try of the migration.   *)
Old == <<"last_api_response_ts", "gold_arrival_ts">>
Legacy == Append(Old, LEGACY_COLUMN)

NoTable == <<>>
Stopped == <<>>

VARIABLES
  columns,     \* the schema of the table
  sink,        \* the columns the running job writes, or Stopped
  files,       \* the windows written: [columns, values], by position
  now,         \* the clock
  migration,   \* [Migrations -> [pc, names]]: where it is, the schema it has loaded
  broken       \* migrations that a failure ended

goldVars == <<columns, sink, files, now, migration, broken>>

Has(schema, c) == \E i \in 1..Len(schema) : schema[i] = c

GoldInit ==
  /\ columns \in {NoTable, Old, Legacy}
  /\ sink = Stopped
  /\ files = <<>>
  /\ now = 0
  /\ migration = [m \in Migrations |-> [pc |-> "idle", names |-> NoTable]]
  /\ broken = 0

-----------------------------------------------------------------------------
(* silver_to_gold.                                                         *)

(* CREATE TABLE IF NOT EXISTS, then the INSERT, which is refused if it has *)
(* not as many expressions as the table has columns.                       *)
SubmitJob ==
  /\ sink = Stopped
  /\ columns' = IF columns = NoTable THEN Select ELSE columns
  /\ Len(columns') = Len(Select)
  /\ sink' = columns'
  /\ UNCHANGED <<files, now, migration, broken>>

StopJob ==
  /\ sink # Stopped
  /\ sink' = Stopped
  /\ UNCHANGED <<columns, files, now, migration, broken>>

(* The newest observation of the window, its arrival in silver, and now.   *)
WriteWindow ==
  /\ sink # Stopped /\ Len(files) < MaxWindows
  /\ \E silver \in 0..now : \E api \in 0..silver :
       files' = Append(files, [columns |-> sink, values |-> <<api, silver, now>>])
  /\ UNCHANGED <<columns, sink, now, migration, broken>>

Pass ==
  /\ now < MaxTime
  /\ now' = now + 1
  /\ UNCHANGED <<columns, sink, files, migration, broken>>

-----------------------------------------------------------------------------
(* The migration.                                                          *)

Goto(m, pc) == migration' = [migration EXCEPT ![m].pc = pc]

(* A schema update of pyiceberg: refused if the schema is not the one that *)
(* was loaded.  A commit may succeed and its answer be lost.               *)
Commit(m, schema, pc) ==
  \/ /\ columns = migration[m].names
     /\ columns' = schema
     /\ \/ migration' = [migration EXCEPT ![m] = [pc |-> pc, names |-> schema]]
           /\ UNCHANGED broken
        \/ broken < MaxBroken /\ broken' = broken + 1 /\ Goto(m, "failed")
  \/ /\ columns # migration[m].names
     /\ Goto(m, "failed")
     /\ UNCHANGED <<columns, broken>>

(* Mutant of Case: without (c), a table that has neither column.           *)
CaseReplaceOnly(names) ==
  IF TARGET_COLUMN \in names THEN "ok"
  ELSE IF LEGACY_COLUMN \in names THEN "delete"
  ELSE "failed"

(* (a) nothing to do, (b) replace the legacy column, (c) add.              *)
Case(names) ==
  IF TARGET_COLUMN \in names THEN "ok"
  ELSE IF LEGACY_COLUMN \in names THEN "delete"
  ELSE "add"

Load(m) ==
  /\ migration[m].pc = "idle"
  /\ migration' = [migration EXCEPT ![m] =
       [pc    |-> IF columns = NoTable THEN "failed"
                  ELSE Case({columns[i] : i \in 1..Len(columns)}),
        names |-> columns]]
  /\ UNCHANGED <<columns, sink, files, now, broken>>

Without(schema, c) ==
  LET k == CHOOSE i \in 1..Len(schema) : schema[i] = c
  IN  SubSeq(schema, 1, k - 1) \o SubSeq(schema, k + 1, Len(schema))

(* Mutant of DeleteColumn: done after the first of the two commits.        *)
DeleteColumnOnly(m) ==
  /\ migration[m].pc = "delete"
  /\ Commit(m, Without(migration[m].names, LEGACY_COLUMN), "ok")
  /\ UNCHANGED <<sink, files, now>>

DeleteColumn(m) ==
  /\ migration[m].pc = "delete"
  /\ Commit(m, Without(migration[m].names, LEGACY_COLUMN), "refresh")
  /\ UNCHANGED <<sink, files, now>>

Refresh(m) ==
  /\ migration[m].pc = "refresh"
  /\ migration' = [migration EXCEPT ![m] = [pc |-> "add", names |-> columns]]
  /\ UNCHANGED <<columns, sink, files, now, broken>>

(* A new column is the last one; a column that is there already is an error. *)
AddColumn(m) ==
  /\ migration[m].pc = "add"
  /\ IF Has(migration[m].names, TARGET_COLUMN)
     THEN Goto(m, "failed") /\ UNCHANGED <<columns, broken>>
     ELSE Commit(m, Append(migration[m].names, TARGET_COLUMN), "ok")
  /\ UNCHANGED <<sink, files, now>>

MigrationDies(m) ==
  /\ migration[m].pc \in {"delete", "refresh", "add"}
  /\ broken < MaxBroken
  /\ broken' = broken + 1
  /\ Goto(m, "failed")
  /\ UNCHANGED <<columns, sink, files, now>>

(* Somebody runs it again.                                                 *)
MigrateAgain(m) ==
  /\ migration[m].pc \in {"failed", "ok"}
  /\ Goto(m, "idle")
  /\ UNCHANGED <<columns, sink, files, now, broken>>

MigrationStep(m) ==
  Load(m) \/ DeleteColumn(m) \/ Refresh(m) \/ AddColumn(m)

GoldNext ==
  \/ SubmitJob \/ StopJob \/ WriteWindow \/ Pass
  \/ \E m \in Migrations : MigrationStep(m) \/ MigrationDies(m) \/ MigrateAgain(m)

GoldSpec == GoldInit /\ [][GoldNext]_goldVars

-----------------------------------------------------------------------------
(* fetch_dual_samples_from_gold.                                           *)

(* The values of a column in a file: one, or none, which is read as NULL.  *)
Cell(f, c) == {f.values[i] : i \in {j \in 1..Len(f.columns) : f.columns[j] = c}}

(* The platform latency of each file of the last day that has both columns. *)
latency ==
  LET recent(f) == \E t \in Cell(f, "gold_arrival_ts") : t >= now - Day
  IN  [n \in {k \in 1..Len(files) : recent(files[k]) /\ Cell(files[k], TARGET_COLUMN) # {}} |->
         LET from == CHOOSE t \in Cell(files[n], TARGET_COLUMN) : TRUE
             to == CHOOSE t \in Cell(files[n], "gold_arrival_ts") : TRUE
         IN  IF to > from THEN to - from ELSE 0]

-----------------------------------------------------------------------------
(* A migration that reports success leaves the table with the new column   *)
(* and without the legacy one, whatever another migration does at the same *)
(* time or did before it failed half way.                                  *)
SuccessMeansMigrated ==
  \A m \in Migrations :
    migration[m].pc = "ok" => Has(columns, TARGET_COLUMN) /\ ~Has(columns, LEGACY_COLUMN)

(* Once it has been started the migration comes to its end, also from the  *)
(* table that a failure between its commits left behind, and silver_to_gold *)
(* can be submitted again and again from then on.                          *)
MigrationSettles ==
  \A m \in Migrations :
    (migration[m].pc # "idle") ~> [](Has(columns, TARGET_COLUMN) /\ <>(sink # Stopped))

-----------------------------------------------------------------------------
(* What a comment says of this code and it does not do.                    *)

(* migrate_gold_add_kafka_ts.py: last_silver_arrival_ts is the arrival in  *)
(* silver, and the platform latency gold_arrival_ts minus it.              *)
LatencyIsMeasured ==
  \A n \in DOMAIN latency : latency[n] = files[n].values[3] - files[n].values[2]
=============================================================================
