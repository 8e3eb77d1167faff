---------------------------- MODULE IcebergTable ----------------------------
(***************************************************************************)
(* One of the two tables that iceberg_maintenance looks after              *)
(* (silver.hotspot_congestion, gold.fact_hotspot_congestion_5min), while a *)
(* Flink job appends to it, the API reads it request by request and        *)
(* another Flink job reads it as a stream.                                 *)
(*                                                                         *)
(* The DAG runs a rewrite (compaction_silver.py, compaction_gold.py) and   *)
(* then expire_snapshots.py, each as a container with one retry.  Expiry   *)
(* takes every snapshot that was there when the job began, but keeps the   *)
(* last RetainLast; it removes them from the metadata and then deletes the *)
(* files that no snapshot refers to any more, one after the other.  No     *)
(* reader tells anybody what it is reading, and no reader changes what     *)
(* another one sees: a behaviour has one of them at a time.                *)
(*                                                                         *)
(* A row is the number of the append that brought it, a data file the set  *)
(* of its rows; what a reader got is a bag, for it may get a row twice.    *)
(***************************************************************************)
EXTENDS Integers, Sequences, FiniteSets, Bags

CONSTANTS
  RetainLast,    \* RETAIN_LAST of expire_snapshots.py (5)
  MaxAppends,    \* bound: commits of the Flink job that writes the table
  MaxFailures    \* bound: maintenance tasks that fail

ASSUME ConstantsAssumption ==
  RetainLast \in Nat \ {0} /\ MaxAppends \in Nat /\ MaxFailures \in Nat

Retries == 1     \* default_args of the DAG

VARIABLES
  snapshots,   \* every snapshot ever committed: [added, files], oldest first
  expired,     \* how many of them the metadata has forgotten
  storage,     \* the data files in the bucket
  task,        \* the DAG: "idle", "rewrite" or "expire"
  tries,       \* tries of this task that failed
  step,        \* in the task: "begin", "work", "delete" or "end"
  group,       \* rewrite: the files to be replaced
  cutoff,      \* expire: older_than, as a number of snapshots
  doomed,      \* expire: files still to be deleted
  failures,
  request,     \* an API request: [pc, of, todo, rows]
  stream       \* the streaming reader: [pc, from, last, splits, rows]

table == <<snapshots, expired, storage>>
dag == <<task, tries, step, group, cutoff, doomed, failures>>
vars == <<table, dag, request, stream>>

-----------------------------------------------------------------------------
Current == IF snapshots = <<>> THEN {} ELSE snapshots[Len(snapshots)].files

Referenced(from, to) == UNION {snapshots[n].files : n \in from..to}

Appended(from, to) == UNION {snapshots[n].added : n \in from..to}

(* Rows of the table after n snapshots.                                    *)
RowsAt(n) == UNION Appended(1, n)

Greatest(S) == CHOOSE n \in S : \A m \in S : m <= n

NoRequest == [pc |-> "idle", of |-> 0, todo |-> {}, rows |-> EmptyBag]
NewReader == [pc |-> "new", from |-> 0, last |-> 0, splits |-> {}, rows |-> EmptyBag]

Init ==
  /\ snapshots = <<>> /\ expired = 0 /\ storage = {}
  /\ task = "idle" /\ tries = 0 /\ step = "begin"
  /\ group = {} /\ cutoff = 0 /\ doomed = {} /\ failures = 0
  /\ request = NoRequest
  /\ stream = NewReader

-----------------------------------------------------------------------------
(* A commit of the Flink sink: a new file and a snapshot that adds it.     *)
AppendRows ==
  LET k == Cardinality(RowsAt(Len(snapshots))) + 1
  IN  /\ k <= MaxAppends
      /\ storage' = storage \union {{k}}
      /\ snapshots' = Append(snapshots, [added |-> {{k}}, files |-> Current \union {{k}}])
      /\ UNCHANGED <<expired, dag, request, stream>>

-----------------------------------------------------------------------------
(* The DAG.                                                                *)

Begin(t) ==
  /\ task' = t /\ tries' = 0 /\ step' = "begin"
  /\ group' = {} /\ cutoff' = 0 /\ doomed' = {}

StartDag ==
  /\ task = "idle"
  /\ Begin("rewrite")
  /\ UNCHANGED <<table, failures, request, stream>>

(* The container fails, or the sibling of the rewrite for the other table  *)
(* does: a retry from the start, then the end of this DAG run.  What the   *)
(* job has committed stays; what it had still to delete is forgotten.      *)
TaskFails ==
  /\ task # "idle"
  /\ failures < MaxFailures
  /\ failures' = failures + 1
  /\ IF tries < Retries
     THEN tries' = tries + 1 /\ task' = task
     ELSE tries' = 0 /\ task' = "idle"
  /\ step' = "begin" /\ group' = {} /\ cutoff' = 0 /\ doomed' = {}
  /\ UNCHANGED <<table, request, stream>>

(* rewrite_data_files: plan on the current snapshot, write the new file,   *)
(* or find nothing worth it.                                               *)
RewritePlan ==
  /\ task = "rewrite" /\ step = "begin"
  /\ \/ /\ \E files \in SUBSET Current :
             /\ Cardinality(files) >= 2
             /\ group' = files
             /\ storage' = storage \union {UNION files}
        /\ step' = "work"
     \/ /\ step' = "end"
        /\ UNCHANGED <<group, storage>>
  /\ UNCHANGED <<snapshots, expired, task, tries, cutoff, doomed, failures,
                 request, stream>>

(* Mutant of Replaced: the files the plan knew.                            *)
ReplacedStale == {UNION group}

(* The files after the commit: appends that came in between are kept.      *)
Replaced == (Current \ group) \union {UNION group}

RewriteCommit ==
  /\ task = "rewrite" /\ step = "work"
  /\ snapshots' = Append(snapshots, [added |-> {}, files |-> Replaced])
  /\ step' = "end"
  /\ UNCHANGED <<expired, storage, task, tries, group, cutoff, doomed, failures,
                 request, stream>>

RewriteDone ==
  /\ task = "rewrite" /\ step = "end"
  /\ Begin("expire")
  /\ UNCHANGED <<table, failures, request, stream>>

(* older_than = now, read once at the start of the job.                    *)
ExpireBegin ==
  /\ task = "expire" /\ step = "begin"
  /\ cutoff' = Len(snapshots)
  /\ step' = "work"
  /\ UNCHANGED <<table, task, tries, group, doomed, failures, request, stream>>

(* Mutant of Expirable: all but the current one.                           *)
ExpirableNow == Greatest({expired, cutoff - 1})

(* The snapshots that go: those before the cutoff, without the last ones.  *)
Expirable ==
  Greatest({expired,
            IF cutoff < Len(snapshots) - RetainLast THEN cutoff
            ELSE Len(snapshots) - RetainLast})

(* Mutant of Unreferenced: what the current snapshot does not use.         *)
UnreferencedNow(n) == Referenced(expired + 1, n) \ Current

Unreferenced(n) == Referenced(expired + 1, n) \ Referenced(n + 1, Len(snapshots))

ExpireCommit ==
  /\ task = "expire" /\ step = "work"
  /\ expired' = Expirable
  /\ doomed' = Unreferenced(Expirable)
  /\ step' = "delete"
  /\ UNCHANGED <<snapshots, storage, task, tries, group, cutoff, failures,
                 request, stream>>

ExpireDelete(f) ==
  /\ step = "delete" /\ f \in doomed
  /\ storage' = storage \ {f}
  /\ doomed' = doomed \ {f}
  /\ UNCHANGED <<snapshots, expired, task, tries, step, group, cutoff, failures,
                 request, stream>>

ExpireDone ==
  /\ step = "delete" /\ doomed = {}
  /\ Begin("idle")
  /\ UNCHANGED <<table, failures, request, stream>>

-----------------------------------------------------------------------------
(* A request of the API: table_paths plans the files of the current        *)
(* snapshot, read_parquet reads them.                                      *)

Plan ==
  /\ request.pc = "idle" /\ stream.pc = "new"
  /\ request' = [pc |-> IF Current = {} THEN "answered" ELSE "read",
                 of |-> Len(snapshots), todo |-> Current, rows |-> EmptyBag]
  /\ UNCHANGED <<table, dag, stream>>

ReadFile(f) ==
  /\ request.pc = "read" /\ f \in request.todo
  /\ request' =
       IF f \in storage
       THEN [request EXCEPT !.pc = IF request.todo = {f} THEN "answered" ELSE "read",
                            !.todo = @ \ {f}, !.rows = @ (+) SetToBag(f)]
       ELSE [request EXCEPT !.pc = "failed"]
  /\ UNCHANGED <<table, dag, stream>>

NextRequest ==
  /\ request.pc \in {"answered", "failed"}
  /\ request' = NoRequest
  /\ UNCHANGED <<table, dag, stream>>

-----------------------------------------------------------------------------
(* The streaming reader, every monitor-interval.  It starts with a scan of *)
(* the whole table or at the latest snapshot, and then takes up what the   *)
(* snapshots after its last one appended; a rewrite appends nothing.  It   *)
(* needs all of these snapshots, and the files they appended.              *)

Split(n) == {[of |-> n, file |-> f] : f \in snapshots[n].added}

Discover ==
  /\ stream.pc = "new" /\ request.pc = "idle" /\ snapshots # <<>>
  /\ LET n == Len(snapshots)
     IN  \E splits \in {{[of |-> n, file |-> f] : f \in Current}, Split(n)} :
           stream' = [pc |-> "run", last |-> n, splits |-> splits, rows |-> EmptyBag,
                      from |-> IF splits = Split(n) THEN n - 1 ELSE 0]
  /\ UNCHANGED <<table, dag, request>>

(* Mutant of NewSplits: the files of the snapshots, not what they appended. *)
NewSplitsAll ==
  UNION {{[of |-> n, file |-> f] : f \in snapshots[n].files \ snapshots[n - 1].files} :
           n \in (stream.last + 1)..Len(snapshots)}

NewSplits == UNION {Split(n) : n \in (stream.last + 1)..Len(snapshots)}

Monitor ==
  /\ stream.pc = "run" /\ stream.last < Len(snapshots)
  /\ stream' =
       IF stream.last >= expired
       THEN [stream EXCEPT !.last = Len(snapshots), !.splits = @ \union NewSplits]
       ELSE [stream EXCEPT !.pc = "stuck"]
  /\ UNCHANGED <<table, dag, request>>

ReadSplit(s) ==
  /\ stream.pc = "run" /\ s \in stream.splits
  /\ stream' =
       IF s.file \in storage
       THEN [stream EXCEPT !.splits = @ \ {s}, !.rows = @ (+) SetToBag(s.file)]
       ELSE [stream EXCEPT !.pc = "stuck"]
  /\ UNCHANGED <<table, dag, request>>

(* The process of the streaming job is started again, without a state.     *)
RestartReader ==
  /\ stream.pc # "new"
  /\ stream' = NewReader
  /\ UNCHANGED <<table, dag, request>>

-----------------------------------------------------------------------------
Maintenance ==
  \/ StartDag \/ TaskFails
  \/ RewritePlan \/ RewriteCommit \/ RewriteDone
  \/ ExpireBegin \/ ExpireCommit \/ ExpireDone
  \/ \E f \in doomed : ExpireDelete(f)

Next ==
  \/ AppendRows
  \/ Maintenance
  \/ Plan \/ NextRequest
  \/ \E f \in request.todo : ReadFile(f)
  \/ Discover \/ Monitor \/ RestartReader
  \/ \E s \in stream.splits : ReadSplit(s)

Spec == Init /\ [][Next]_vars

-----------------------------------------------------------------------------
(* No append is lost to a rewrite that was planned before it, and no row   *)
(* is in two files of a snapshot.                                          *)
EveryRowOnce ==
  \A n \in 1..Len(snapshots) :
    /\ UNION snapshots[n].files = RowsAt(n)
    /\ \A f, g \in snapshots[n].files : f # g => f \cap g = {}

(* A request fails only if RetainLast snapshots were committed while it    *)
(* was reading: expiry right after a rewrite does not break the requests   *)
(* that were planned before the rewrite.                                   *)
OnlyOldPlansFail ==
  request.pc = "failed" => Len(snapshots) - request.of >= RetainLast

(* The stream gets stuck only by being slow: its position, or a split it   *)
(* has yet to read, is of a snapshot that RetainLast others followed.      *)
OnlyLaggardsStick ==
  stream.pc = "stuck" =>
    \/ Len(snapshots) - stream.last > RetainLast
    \/ \E s \in stream.splits : Len(snapshots) - s.of >= RetainLast

-----------------------------------------------------------------------------
(* To its readers the table is an AppendOnlyTable.                         *)
Readers == INSTANCE AppendOnlyTable WITH
  rows    <- RowsAt(Len(snapshots)),
  request <- [pc   |-> request.pc,
              rows |-> CASE request.pc = "read" -> SetToBag(RowsAt(request.of))
                         [] request.pc = "failed" -> EmptyBag
                         [] OTHER -> request.rows],
  stream  <- [pc     |-> stream.pc,
              since  |-> RowsAt(stream.from),
              due    |-> UNION {s.file : s \in stream.splits},
              handed |-> stream.rows]

(* However many rewrites and expiries run while it reads, an answer is the *)
(* table as it was when the request was planned, with every row once; a    *)
(* stream hands on every row appended since it began, and none twice, not  *)
(* those of a rewritten file either.                                       *)
ReadersSeeATable == Readers!Spec
=============================================================================
