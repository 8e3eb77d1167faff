---------------------------- MODULE SilverToGold ----------------------------
(***************************************************************************)
(* The Flink job src/src/flink_jobs/silver_to_gold.py: the snapshots of    *)
(* the silver table as a stream with a watermark, tumbling windows per     *)
(* district, one row of gold.fact_hotspot_congestion_5min for each window  *)
(* that the watermark passes.  Checkpoints, commits, failures and the end  *)
(* of the process are as in BronzeToSilver (the same build_streaming_env   *)
(* and wait_for_shutdown); what is new is the state between them: the      *)
(* windows that are still open, and the watermark.                         *)
(*                                                                         *)
(* Parallelism is 1: one reader, one watermark.  A unit of time is a       *)
(* minute, the precision of api_response_ts.                               *)
(***************************************************************************)
EXTENDS Integers, Sequences, FiniteSets

CONSTANTS
  Rows,           \* the rows silver may get: [area, time]
  DistrictOf,     \* the district of an area
  Window,         \* the length of a window (5 minutes in the code)
  Delay,          \* how far the watermark stays behind (1 minute)
  MaxSnapshots,   \* bound: snapshots of the silver table
  MaxRuns,        \* bound: runs of the process
  MaxFailures     \* bound: failures inside the process

ASSUME ConstantsAssumption ==
  /\ \A r \in Rows : r.time \in Nat /\ r.area \in DOMAIN DistrictOf
  /\ Window \in Nat \ {0} /\ Delay \in Nat
  /\ MaxSnapshots \in Nat /\ MaxRuns \in Nat /\ MaxFailures \in Nat

VARIABLES
  silver,      \* the snapshots of the silver table, sets of rows, oldest first
  job,         \* "stopped", "fresh" (no checkpoint yet) or "checkpointed"
  run,         \* the number of this run of the process
  failures,    \* failures inside the process so far
  first,       \* the snapshot after which this run began to read
  reader,      \* [pos, unread]: snapshots taken up, what is unread of the last
  maxSeen,     \* the greatest event time the watermark generator has seen
  windows,     \* [watermark, open]: the window operator and its open rows
  results,     \* window results that are not checkpointed yet
  ckpt,        \* reader and windows at the last checkpoint
  ready,       \* checkpointed results that are not committed yet
  gold         \* the snapshots of the gold table: [run, rows], oldest first

jobVars == <<job, run, failures, first, reader, maxSeen, windows, results, ckpt, ready>>
vars == <<silver, jobVars, gold>>

-----------------------------------------------------------------------------
(* A read row is <<n, r>>: row r of snapshot n.                            *)
WindowOf(q) == q[2].time \div Window
Closes(w) == (w + 1) * Window
DistrictOfRow(q) == DistrictOf[q[2].area]

(* The watermark has passed the end of the window: a row for it is late.   *)
Passed(w) == windows.watermark >= Closes(w)

(* GROUP BY window_start, window_end, district: one result per window and  *)
(* district; the aggregates are functions of its rows.                     *)
ResultOf(rows, w, d) ==
  [window |-> w, district |-> d,
   rows |-> {q \in rows : WindowOf(q) = w /\ DistrictOfRow(q) = d}]

Results(rows) == {ResultOf(rows, WindowOf(q), DistrictOfRow(q)) : q \in rows}

(* Where a run begins to read the silver table: a scan of all of it, or    *)
(* its latest snapshot onwards, as the version of the connector has it.    *)
FirstSnapshots == {0, IF silver = <<>> THEN 0 ELSE Len(silver) - 1}

NothingSeen == -1
NoWindows == [watermark |-> -1, open |-> {}]
ReadFrom(n) == [pos |-> n, unread |-> {}]

-----------------------------------------------------------------------------
Init ==
  /\ silver = <<>>
  /\ job = "fresh" /\ run = 1 /\ failures = 0
  /\ first = 0 /\ reader = ReadFrom(0)
  /\ maxSeen = NothingSeen
  /\ windows = NoWindows
  /\ results = {} /\ ready = {}
  /\ ckpt = [reader |-> ReadFrom(0), windows |-> NoWindows]
  /\ gold = <<>>

(* bronze_to_silver commits; after a replay the rows are old ones again.   *)
CommitSilver(rows) ==
  /\ Len(silver) < MaxSnapshots
  /\ silver' = Append(silver, rows)
  /\ UNCHANGED <<jobVars, gold>>

-----------------------------------------------------------------------------
TakeSnapshot ==
  /\ job # "stopped"
  /\ reader.unread = {} /\ reader.pos < Len(silver)
  /\ reader' = [pos |-> reader.pos + 1, unread |-> silver[reader.pos + 1]]
  /\ UNCHANGED <<silver, job, run, failures, first, maxSeen, windows, results,
                 ckpt, ready, gold>>

(* The rows of a snapshot come in the order of its files.  The watermark   *)
(* generator sees every row; the window operator drops the late ones.      *)
ReadRow(r) ==
  LET q == <<reader.pos, r>>
  IN  /\ job # "stopped"
      /\ r \in reader.unread
      /\ reader' = [reader EXCEPT !.unread = @ \ {r}]
      /\ maxSeen' = IF r.time > maxSeen THEN r.time ELSE maxSeen
      /\ windows' = IF Passed(WindowOf(q)) THEN windows
                    ELSE [windows EXCEPT !.open = @ \union {q}]
      /\ UNCHANGED <<silver, job, run, failures, first, results, ckpt, ready, gold>>

(* Mutant of ClosedBy: the last minute of a window keeps it open. *)
ClosedLater(wm) == {q \in windows.open : wm > Closes(WindowOf(q))}

ClosedBy(wm) == {q \in windows.open : wm >= Closes(WindowOf(q))}

(* The periodic watermark; it closes every window it passes.               *)
AdvanceWatermark ==
  /\ job # "stopped"
  /\ maxSeen # NothingSeen
  /\ maxSeen - Delay > windows.watermark
  /\ LET wm == maxSeen - Delay
     IN  /\ windows' = [watermark |-> wm, open |-> windows.open \ ClosedBy(wm)]
         /\ results' = results \union Results(ClosedBy(wm))
  /\ UNCHANGED <<silver, job, run, failures, first, reader, maxSeen, ckpt, ready, gold>>

Checkpoint ==
  /\ job # "stopped"
  /\ job' = "checkpointed"
  /\ ckpt' = [reader |-> reader, windows |-> windows]
  /\ ready' = ready \union results
  /\ results' = {}
  /\ UNCHANGED <<silver, run, failures, first, reader, maxSeen, windows, gold>>

CommitGold ==
  /\ job # "stopped"
  /\ ready # {}
  /\ gold' = Append(gold, [run |-> run, rows |-> ready])
  /\ ready' = {}
  /\ UNCHANGED <<silver, job, run, failures, first, reader, maxSeen, windows,
                 results, ckpt>>

-----------------------------------------------------------------------------
(* Mutant of Restore: the open windows are forgotten. *)
RestoreReaderOnly ==
  /\ reader' = ckpt.reader
  /\ windows' = [ckpt.windows EXCEPT !.open = {}]
  /\ results' = {}
  /\ UNCHANGED <<first, ckpt>>

(* Mutant of Restore: the window operator does not get its watermark back. *)
RestoreNoWatermark ==
  /\ reader' = ckpt.reader
  /\ windows' = [ckpt.windows EXCEPT !.watermark = -1]
  /\ results' = {}
  /\ UNCHANGED <<first, ckpt>>

(* Back to the checkpoint: the reader, the open windows and the watermark  *)
(* of the window operator.                                                 *)
Restore ==
  /\ reader' = ckpt.reader
  /\ windows' = ckpt.windows
  /\ results' = {}
  /\ UNCHANGED <<first, ckpt>>

(* No checkpoint yet: as a new run.                                        *)
Begin ==
  /\ \E n \in FirstSnapshots :
       /\ first' = n
       /\ reader' = ReadFrom(n)
       /\ ckpt' = [reader |-> ReadFrom(n), windows |-> NoWindows]
  /\ windows' = NoWindows
  /\ results' = {}

(* A failure inside the process.  The generator of the watermark has no    *)
(* state: it starts from nothing.                                          *)
Fail ==
  /\ job # "stopped"
  /\ failures < MaxFailures
  /\ failures' = failures + 1
  /\ maxSeen' = NothingSeen
  /\ \/ job = "checkpointed" /\ Restore
     \/ job = "fresh" /\ Begin
  /\ UNCHANGED <<silver, job, run, ready, gold>>

(* The process ends, and takes all of its state with it.                   *)
StopProcess ==
  /\ job # "stopped"
  /\ run < MaxRuns
  /\ job' = "stopped"
  /\ first' = 0 /\ reader' = ReadFrom(0)
  /\ maxSeen' = NothingSeen /\ windows' = NoWindows
  /\ results' = {} /\ ready' = {}
  /\ ckpt' = [reader |-> ReadFrom(0), windows |-> NoWindows]
  /\ UNCHANGED <<silver, run, failures, gold>>

StartProcess ==
  /\ job = "stopped"
  /\ job' = "fresh"
  /\ run' = run + 1
  /\ Begin
  /\ UNCHANGED <<silver, failures, maxSeen, ready, gold>>

-----------------------------------------------------------------------------
Job ==
  \/ TakeSnapshot
  \/ \E r \in Rows : ReadRow(r)
  \/ AdvanceWatermark
  \/ Checkpoint
  \/ CommitGold

Next ==
  \/ \E rows \in (SUBSET Rows) \ {{}} : CommitSilver(rows)
  \/ Job
  \/ Fail
  \/ StopProcess
  \/ StartProcess

Spec == Init /\ [][Next]_vars

(* The source polls, the watermark and the checkpoints are periodic, the   *)
(* committer runs.                                                         *)
FairSpec ==
  /\ Spec
  /\ WF_vars(TakeSnapshot)
  /\ WF_vars(\E r \in Rows : ReadRow(r))
  /\ WF_vars(AdvanceWatermark)
  /\ WF_vars(Checkpoint)
  /\ WF_vars(CommitGold)

-----------------------------------------------------------------------------
Read == (Nat \ {0}) \X Rows
Result == [window : Nat, district : {DistrictOf[a] : a \in DOMAIN DistrictOf},
           rows : SUBSET Read]
Reader == [pos : Nat, unread : SUBSET Rows]
Operator == [watermark : Int, open : SUBSET Read]

(* The state has the shape the declarations above give it.                 *)
TypeOK ==
  /\ silver \in Seq(SUBSET Rows)
  /\ job \in {"stopped", "fresh", "checkpointed"}
  /\ run \in Nat \ {0} /\ failures \in Nat
  /\ first \in Nat /\ reader \in Reader
  /\ maxSeen \in Nat \union {NothingSeen}
  /\ windows \in Operator
  /\ results \subseteq Result /\ ready \subseteq Result
  /\ ckpt \in [reader : Reader, windows : Operator]
  /\ gold \in Seq([run : Nat \ {0}, rows : SUBSET Result])

GoldRowsOf(r) == UNION {gold[n].rows : n \in {m \in 1..Len(gold) : gold[m].run = r}}

(* All the results of this run, committed or on their way.                 *)
RunResults == results \union ready \union GoldRowsOf(run)

(* A run writes a window of a district to gold at most once, although      *)
(* bronze_to_silver may feed it the same rows again and failures may take  *)
(* it back: one snapshot after the other, and one result in all.           *)
WindowOncePerRun ==
  /\ \A m, n \in 1..Len(gold) : \A x \in gold[m].rows, y \in gold[n].rows :
       gold[m].run = gold[n].run /\ <<x.window, x.district>> = <<y.window, y.district>>
         => m = n /\ x = y

(* Every row that the run has read is in an open window, or in a result,   *)
(* or came when a row more than a window's end and the delay ahead of it   *)
(* was there already: only such a row is ever dropped.                     *)
RowsAccountedFor ==
  \A n \in (first + 1)..reader.pos : \A r \in silver[n] :
    \/ n = reader.pos /\ r \in reader.unread
    \/ <<n, r>> \in windows.open
    \/ \E x \in RunResults : <<n, r>> \in x.rows
    \/ \E m \in (first + 1)..n : \E ahead \in silver[m] :
         ahead.time - Delay >= Closes(r.time \div Window)

(* Once failures have an end, a window that the rows have passed is        *)
(* written to gold, as long as the process lives.  A failure after they    *)
(* passed it may hold it back for ever: the generator forgets how far the  *)
(* rows had come, and a window whose rows are all behind the checkpoint    *)
(* waits for a new row.                                                    *)
PassedWindowIsWritten ==
  \A q \in (1..MaxSnapshots) \X Rows :
    (/\ failures = MaxFailures /\ q \in windows.open
     /\ maxSeen - Delay >= Closes(WindowOf(q)))
      ~> (job = "stopped" \/ \E x \in GoldRowsOf(run) : q \in x.rows)
=============================================================================
