--------------------------- MODULE BronzeToSilver ---------------------------
(***************************************************************************)
(* The Flink job src/src/flink_jobs/bronze_to_silver.py: one process, one  *)
(* job, two inserts.  The bronze branch copies the hotspot topic into      *)
(* ice.bronze.hotspot_raw; the silver branch reads the snapshots of that   *)
(* very table as a stream, joins the region and writes                     *)
(* ice.silver.hotspot_congestion.                                          *)
(*                                                                         *)
(* A checkpoint (every 30 s) fixes the position of both sources and hands  *)
(* the rows written since the previous one to the Iceberg committers; the  *)
(* commit itself comes after the checkpoint is complete, as a step of its  *)
(* own.  A failure inside the process restores the last checkpoint.  The   *)
(* end of the process (SIGTERM, deploy, crash) loses it: nothing in the    *)
(* code names a checkpoint directory or a savepoint, and the next process  *)
(* starts again from the earliest offset of the topic.                     *)
(***************************************************************************)
EXTENDS Integers, Sequences, FiniteSets

CONSTANTS
  Partitions,    \* partitions of seoul.hotspot.congestion.v1
  Records,       \* the events a producer may publish
  PartitionOf,   \* the partition of an event (the key is its area_code)
  Mapped,        \* the events whose area hotspot_regions.csv maps
  MaxLog,        \* bound: events per partition
  MaxRuns,       \* bound: runs of the process
  MaxFailures    \* bound: failures inside the process

ASSUME ConstantsAssumption ==
  /\ PartitionOf \in [Records -> Partitions]
  /\ Mapped \subseteq Records
  /\ MaxLog \in Nat /\ MaxRuns \in Nat /\ MaxFailures \in Nat

VARIABLES
  topic,       \* [Partitions -> Seq(Records)], everything ever published
  expired,     \* [Partitions -> Nat], how many of them retention has removed
  job,         \* "stopped", "fresh" (no checkpoint yet) or "checkpointed"
  run,         \* the number of this run of the process
  failures,    \* failures inside the process so far
  kafka,       \* bronze branch: position read, rows not checkpointed yet
  kafkaCkpt,   \* bronze branch at the last checkpoint: position, uncommitted rows
  stream,      \* silver branch: snapshots read, rows not checkpointed yet
  streamCkpt,  \* silver branch at the last checkpoint
  bronze,      \* snapshots of the bronze table: [run, rows], oldest first
  silver       \* snapshots of the silver table: [run, rows], oldest first

jobVars == <<job, run, failures, kafka, kafkaCkpt, stream, streamCkpt>>
vars == <<topic, expired, jobVars, bronze, silver>>

-----------------------------------------------------------------------------
(* Rows.  A bronze row is known by the place <<p, i>> of the event it was  *)
(* made from; a silver row by the bronze snapshot n it was read from and   *)
(* the bronze row.                                                         *)

Offset == Partitions \X (Nat \ {0})

Published == {q \in Partitions \X (1..MaxLog) : q[2] <= Len(topic[q[1]])}

EventAt(row) == topic[row[1]][row[2]]

(* The region join: enrich_tf yields one row for a mapped area, none for   *)
(* the others, so their bronze rows never reach silver.                    *)
Enriched(n) ==
  {<<n, row>> : row \in {q \in bronze[n].rows : EventAt(q) \in Mapped}}

(* Where a run without a checkpoint starts reading the bronze table: a     *)
(* scan of the whole table, or its latest snapshot onwards.  The code      *)
(* leaves the choice to the version of the connector.                      *)
FirstSnapshots == {0, IF bronze = <<>> THEN 0 ELSE Len(bronze) - 1}

(* Mutant of Earliest: scan.startup.mode = 'latest-offset'. *)
LatestOffset == [p \in Partitions |-> Len(topic[p])]

(* scan.startup.mode = 'earliest-offset'.                                  *)
Earliest == [p \in Partitions |-> 0]

(* Mutants of the positions a restart inside the process goes back to. *)
RestoreEarliest == [p \in Partitions |-> 0]
RestoreCurrent == kafka.pos
RestartAnywhere == FirstSnapshots
RestartFromScratch == {0}

(* Where a branch that fails inside the process resumes: at the last       *)
(* checkpoint; without one, where a new run starts.                        *)
ResumeOffsets == kafkaCkpt.pos
ResumeSnapshots == IF job = "checkpointed" THEN {streamCkpt.pos} ELSE FirstSnapshots

-----------------------------------------------------------------------------
Init ==
  /\ topic = [p \in Partitions |-> <<>>]
  /\ expired = [p \in Partitions |-> 0]
  /\ job = "fresh"
  /\ run = 1
  /\ failures = 0
  /\ kafka = [pos |-> Earliest, rows |-> {}]
  /\ kafkaCkpt = [pos |-> Earliest, ready |-> {}]
  /\ stream = [pos |-> 0, rows |-> {}]
  /\ streamCkpt = [pos |-> 0, ready |-> {}]
  /\ bronze = <<>>
  /\ silver = <<>>

-----------------------------------------------------------------------------
(* The topic, as its producer and its retention change it.                 *)

Publish(r) ==
  LET p == PartitionOf[r]
  IN  /\ Len(topic[p]) < MaxLog
      /\ topic' = [topic EXCEPT ![p] = Append(@, r)]
      /\ UNCHANGED <<expired, jobVars, bronze, silver>>

Expire(p) ==
  /\ expired[p] < Len(topic[p])
  /\ expired' = [expired EXCEPT ![p] = @ + 1]
  /\ UNCHANGED <<topic, jobVars, bronze, silver>>

-----------------------------------------------------------------------------
(* INSERT INTO ice.bronze.hotspot_raw SELECT ... FROM hotspot_kafka_src.   *)
(* An offset that retention has removed is skipped.                        *)
NextOffset(p) ==
  1 + (IF kafka.pos[p] < expired[p] THEN expired[p] ELSE kafka.pos[p])

ReadKafka(p) ==
  /\ job # "stopped"
  /\ NextOffset(p) <= Len(topic[p])
  /\ kafka' = [pos  |-> [kafka.pos EXCEPT ![p] = NextOffset(p)],
               rows |-> kafka.rows \union {<<p, NextOffset(p)>>}]
  /\ UNCHANGED <<topic, expired, job, run, failures, kafkaCkpt,
                 stream, streamCkpt, bronze, silver>>

(* INSERT INTO ice.silver.hotspot_congestion SELECT ... FROM the bronze    *)
(* table read as a stream, one committed snapshot after the other.         *)
ReadBronze ==
  /\ job # "stopped"
  /\ stream.pos < Len(bronze)
  /\ stream' = [pos  |-> stream.pos + 1,
                rows |-> stream.rows \union Enriched(stream.pos + 1)]
  /\ UNCHANGED <<topic, expired, job, run, failures, kafka,
                 kafkaCkpt, streamCkpt, bronze, silver>>

(* One checkpoint covers both branches of the StatementSet.                *)
Checkpoint ==
  /\ job # "stopped"
  /\ job' = "checkpointed"
  /\ kafkaCkpt' = [pos |-> kafka.pos, ready |-> kafkaCkpt.ready \union kafka.rows]
  /\ kafka' = [kafka EXCEPT !.rows = {}]
  /\ streamCkpt' = [pos |-> stream.pos, ready |-> streamCkpt.ready \union stream.rows]
  /\ stream' = [stream EXCEPT !.rows = {}]
  /\ UNCHANGED <<topic, expired, run, failures, bronze, silver>>

(* The committers, once a checkpoint is complete.  After a restore they    *)
(* commit what the restored checkpoint holds and the table does not.       *)
CommitBronze ==
  /\ job # "stopped"
  /\ kafkaCkpt.ready # {}
  /\ bronze' = Append(bronze, [run |-> run, rows |-> kafkaCkpt.ready])
  /\ kafkaCkpt' = [kafkaCkpt EXCEPT !.ready = {}]
  /\ UNCHANGED <<topic, expired, job, run, failures, kafka,
                 stream, streamCkpt, silver>>

CommitSilver ==
  /\ job # "stopped"
  /\ streamCkpt.ready # {}
  /\ silver' = Append(silver, [run |-> run, rows |-> streamCkpt.ready])
  /\ streamCkpt' = [streamCkpt EXCEPT !.ready = {}]
  /\ UNCHANGED <<topic, expired, job, run, failures, kafka,
                 kafkaCkpt, stream, bronze>>

-----------------------------------------------------------------------------
(* Failures inside the process: the default restart strategy restores the  *)
(* failed branch from the last checkpoint, again and again; without one it *)
(* starts where a new run starts.                                          *)

FailBronzeBranch ==
  /\ job # "stopped"
  /\ failures < MaxFailures
  /\ failures' = failures + 1
  /\ kafka' = [pos |-> ResumeOffsets, rows |-> {}]
  /\ UNCHANGED <<topic, expired, job, run, kafkaCkpt, stream,
                 streamCkpt, bronze, silver>>

FailSilverBranch ==
  /\ job # "stopped"
  /\ failures < MaxFailures
  /\ failures' = failures + 1
  /\ \E first \in ResumeSnapshots :
       /\ stream' = [pos |-> first, rows |-> {}]
       /\ streamCkpt' = [streamCkpt EXCEPT !.pos = first]
  /\ UNCHANGED <<topic, expired, job, run, kafka, kafkaCkpt,
                 bronze, silver>>

(* The main thread returns from wait_for_shutdown (SIGTERM, the smoke      *)
(* timeout) or the process dies: the mini-cluster goes with it, and so do  *)
(* its checkpoints and the rows nobody committed.                          *)
StopProcess ==
  /\ job # "stopped"
  /\ run < MaxRuns
  /\ job' = "stopped"
  /\ kafka' = [pos |-> Earliest, rows |-> {}]
  /\ kafkaCkpt' = [pos |-> Earliest, ready |-> {}]
  /\ stream' = [pos |-> 0, rows |-> {}]
  /\ streamCkpt' = [pos |-> 0, ready |-> {}]
  /\ UNCHANGED <<topic, expired, run, failures, bronze, silver>>

(* systemd starts the process again; run() submits a job with no state,    *)
(* the topic from its earliest offset.                                     *)
StartProcess ==
  /\ job = "stopped"
  /\ job' = "fresh"
  /\ run' = run + 1
  /\ kafka' = [pos |-> Earliest, rows |-> {}]
  /\ kafkaCkpt' = [pos |-> Earliest, ready |-> {}]
  /\ \E first \in FirstSnapshots :
       /\ stream' = [pos |-> first, rows |-> {}]
       /\ streamCkpt' = [pos |-> first, ready |-> {}]
  /\ UNCHANGED <<topic, expired, failures, bronze, silver>>

-----------------------------------------------------------------------------
Job ==
  \/ \E p \in Partitions : ReadKafka(p)
  \/ ReadBronze
  \/ Checkpoint
  \/ CommitBronze
  \/ CommitSilver

Disturbance ==
  \/ FailBronzeBranch
  \/ FailSilverBranch
  \/ StopProcess

Next ==
  \/ \E r \in Records : Publish(r)
  \/ \E p \in Partitions : Expire(p)
  \/ Job
  \/ Disturbance
  \/ StartProcess

Spec == Init /\ [][Next]_vars

(* The sources poll, the checkpoint timer fires, the committers run and    *)
(* systemd restarts the process, all by themselves (Restart=always).       *)
FairSpec ==
  /\ Spec
  /\ \A p \in Partitions : WF_vars(ReadKafka(p))
  /\ WF_vars(ReadBronze)
  /\ WF_vars(Checkpoint)
  /\ WF_vars(CommitBronze)
  /\ WF_vars(CommitSilver)
  /\ WF_vars(StartProcess)

-----------------------------------------------------------------------------
SilverRow == (Nat \ {0}) \X Offset
Positions == [Partitions -> Nat]
BronzeSnapshot == [run : Nat \ {0}, rows : SUBSET Offset]
SilverSnapshot == [run : Nat \ {0}, rows : SUBSET SilverRow]

(* The state has the shape the declarations above give it.                 *)
TypeOK ==
  /\ topic \in [Partitions -> Seq(Records)]
  /\ expired \in [Partitions -> Nat]
  /\ job \in {"stopped", "fresh", "checkpointed"}
  /\ run \in Nat \ {0}
  /\ failures \in Nat
  /\ kafka \in [pos : Positions, rows : SUBSET Offset]
  /\ kafkaCkpt \in [pos : Positions, ready : SUBSET Offset]
  /\ stream \in [pos : Nat, rows : SUBSET SilverRow]
  /\ streamCkpt \in [pos : Nat, ready : SUBSET SilverRow]
  /\ bronze \in Seq(BronzeSnapshot)
  /\ silver \in Seq(SilverSnapshot)

(* No event is committed to the bronze table twice by the same run of the  *)
(* process, whatever fails between a checkpoint and its commit.            *)
BronzeOncePerRun ==
  \A m, n \in 1..Len(bronze) :
    m # n /\ bronze[m].run = bronze[n].run
      => bronze[m].rows \cap bronze[n].rows = {}

(* The same for the silver table and the rows of the bronze snapshots.     *)
SilverOncePerRun ==
  \A m, n \in 1..Len(silver) :
    m # n /\ silver[m].run = silver[n].run
      => silver[m].rows \cap silver[n].rows = {}

BronzeHas(row, r) ==
  \E n \in 1..Len(bronze) : bronze[n].run = r /\ row \in bronze[n].rows

SilverHas(row, r) ==
  \E n \in 1..Len(silver) : silver[n].run = r /\ row \in silver[n].rows

(* No event falls between the checkpointed offset and the table: what the  *)
(* checkpoint says is read is in the bronze table, or with the committer,  *)
(* or was removed by retention before it could be read.                    *)
BronzeNoGap ==
  \A p \in Partitions : \A i \in 1..kafkaCkpt.pos[p] :
    \/ i <= expired[p]
    \/ <<p, i>> \in kafkaCkpt.ready
    \/ BronzeHas(<<p, i>>, run)

(* The silver branch misses nothing that this run put into the bronze      *)
(* table, although it may start reading that table at its latest snapshot  *)
(* and forgets its position whenever the process ends.                     *)
SilverNoGap ==
  \A n \in 1..Len(bronze) :
    bronze[n].run = run /\ n <= streamCkpt.pos
      => \A row \in Enriched(n) : row \in streamCkpt.ready \/ SilverHas(row, run)

-----------------------------------------------------------------------------
(* The inductive invariants behind the four properties above.              *)

(* The bronze branch: the committed and committable rows of this run lie   *)
(* at or below the checkpointed offset, the rows of the open checkpoint    *)
(* lie above it, and none is missing on either side.                       *)
BronzeBounds ==
  \A p \in Partitions :
    /\ Len(topic[p]) <= MaxLog
    /\ kafkaCkpt.pos[p] <= kafka.pos[p]
    /\ kafka.pos[p] <= Len(topic[p])

BronzeOpenRows ==
  \A row \in kafka.rows :
    kafkaCkpt.pos[row[1]] < row[2] /\ row[2] <= kafka.pos[row[1]]

BronzeOpenNoGap ==
  \A p \in Partitions : \A i \in (kafkaCkpt.pos[p] + 1)..kafka.pos[p] :
    i <= expired[p] \/ <<p, i>> \in kafka.rows

BronzeReadyRows ==
  \A row \in kafkaCkpt.ready :
    row[2] <= kafkaCkpt.pos[row[1]] /\ ~BronzeHas(row, run)

BronzeTableRows ==
  \A n \in 1..Len(bronze) :
    /\ bronze[n].run <= run
    /\ \A row \in bronze[n].rows :
         /\ row[2] <= Len(topic[row[1]])
         /\ job # "stopped" /\ bronze[n].run = run => row[2] <= kafkaCkpt.pos[row[1]]

BronzeInv ==
  /\ BronzeBounds /\ BronzeOpenRows /\ BronzeOpenNoGap
  /\ BronzeReadyRows /\ BronzeTableRows
  /\ BronzeOncePerRun /\ BronzeNoGap

(* The silver branch, with snapshots of the bronze table for offsets.  A   *)
(* run that has no checkpoint yet has committed nothing: this is what lets *)
(* it start reading the bronze table anywhere.                             *)
SilverBounds ==
  /\ streamCkpt.pos <= stream.pos
  /\ stream.pos <= Len(bronze)

SilverOpenRows ==
  \A row \in stream.rows : streamCkpt.pos < row[1] /\ row[1] <= stream.pos

SilverOpenNoGap ==
  \A n \in (streamCkpt.pos + 1)..stream.pos : Enriched(n) \subseteq stream.rows

SilverReadyRows ==
  \A row \in streamCkpt.ready :
    /\ row[1] <= streamCkpt.pos
    /\ row \in Enriched(row[1])
    /\ ~SilverHas(row, run)

SilverTableRows ==
  \A n \in 1..Len(silver) :
    /\ silver[n].run <= run
    /\ job # "stopped" /\ silver[n].run = run
         => \A row \in silver[n].rows : row[1] <= streamCkpt.pos

FreshRun ==
  /\ job # "checkpointed" => kafkaCkpt.ready = {} /\ streamCkpt.ready = {}
  /\ job = "fresh" => /\ \A n \in 1..Len(bronze) : bronze[n].run # run
                      /\ \A n \in 1..Len(silver) : silver[n].run # run

SilverInv ==
  /\ SilverBounds /\ SilverOpenRows /\ SilverOpenNoGap
  /\ \A row \in stream.rows : row \in Enriched(row[1])
  /\ SilverReadyRows /\ SilverTableRows /\ FreshRun
  /\ SilverOncePerRun /\ SilverNoGap

-----------------------------------------------------------------------------
(* Each insert is a delivery that is exactly-once within a run.            *)
BronzeDelivery == INSTANCE PerRunDelivery
                    WITH offered <- Published, run <- run, out <- bronze
SilverDelivery == INSTANCE PerRunDelivery
                    WITH offered <- UNION {Enriched(n) : n \in 1..Len(bronze)},
                         run <- run, out <- silver

(* Refinement of the bronze insert and of the silver insert.               *)
BronzeDeliverySpec == BronzeDelivery!Spec
SilverDeliverySpec == SilverDelivery!Spec

InSilver(q) ==
  \E n \in 1..Len(silver) : \E row \in silver[n].rows : row[2] = q

(* At least once: an event of a mapped area reaches the silver table in    *)
(* the end, whatever fails and restarts, unless the topic's retention      *)
(* removes it.                                                             *)
EventuallyInSilver ==
  \A q \in Partitions \X (1..MaxLog) :
    (q \in Published /\ EventAt(q) \in Mapped)
      ~> (InSilver(q) \/ q[2] <= expired[q[1]])

(* What docs/architecture/data-flow.md says of the job: exactly-once.      *)
BronzeExactlyOnce ==
  \A m, n \in 1..Len(bronze) : m # n => bronze[m].rows \cap bronze[n].rows = {}
=============================================================================
