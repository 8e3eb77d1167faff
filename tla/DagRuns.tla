------------------------------ MODULE DagRuns ------------------------------
(***************************************************************************)
(* The four DAGs of src/airflow/dags as the Airflow scheduler runs them: a *)
(* task starts when its trigger rule allows it, and ends or fails, is      *)
(* tried again, and at last fails for good, which calls send_discord_alert.*)
(* A task that fails may have had its effect before.  A DAG has one run at *)
(* a time (max_active_runs) and the runs of different DAGs share nothing   *)
(* modelled here, so a behaviour is one run after the other of any DAG.    *)
(*                                                                         *)
(* A task is <<task_id, partition>>; only process_partition of the         *)
(* backfill has a partition, the number of an hour, the others have 0.     *)
(***************************************************************************)
EXTENDS Integers, Sequences, FiniteSets, SloMetrics

CONSTANTS
  FreshnessSamples,  \* what fetch_dual_samples_from_gold may find
  LatencySamples,
  Params,            \* of the backfill: the minutes start and end, whether their
                     \* texts are ordered, and how many tables
  None               \* no value

ASSUME ConstantsAssumption ==
  /\ FreshnessSamples \union LatencySamples \subseteq Seq(Nat)
  /\ \A p \in Params : /\ p.start \in Nat /\ p.end \in Nat /\ p.tables \in Nat
                        /\ p.ordered \in BOOLEAN

VARIABLES
  dag,      \* the DAG of this run
  params,
  state,    \* of every task
  tries,    \* tries of every task that failed
  samples,  \* what collect_slo_metrics measured last: [freshness, latency]
  xcom,     \* what it pushed
  report,   \* the report file of the day
  sent      \* messages handed to Discord (or to the log): [kind, about]

vars == <<dag, params, state, tries, samples, xcom, report, sent>>

-----------------------------------------------------------------------------
(* Mutant of generate_hourly_partitions: end is included.                  *)
PartitionsToEnd(p) ==
  {(p.start + 60 * k) \div 60 : k \in {n \in 0..p.end : p.start + 60 * n <= p.end}}

(* From start in steps of an hour, each by the hour it falls in.           *)
generate_hourly_partitions(p) ==
  {(p.start + 60 * k) \div 60 : k \in {n \in 0..p.end : p.start + 60 * n < p.end}}

T(task_id) == <<task_id, 0>>

(* The mapped task: expanded from the start, and one task, that Airflow    *)
(* skips, if there is nothing to expand.                                   *)
Mapped(p) ==
  IF generate_hourly_partitions(p) = {} THEN {T("process_partition")}
  ELSE {<<"process_partition", h>> : h \in generate_hourly_partitions(p)}

(* A DAG: its layers, each downstream of the one before, and its retries.  *)
Layers(d, p) ==
  CASE d = "slo_daily_report" ->
         <<{T("collect_slo_metrics")}, {T("generate_report")}, {T("branch_on_slo_violation")},
           {T("send_alert"), T("skip_alert")}, {T("archive_report")}>>
    [] d = "iceberg_maintenance" ->
         <<{T("snapshot_metrics_before")}, {T("rewrite_silver"), T("rewrite_gold")},
           {T("expire_snapshots")}, {T("remove_orphan_files")}, {T("snapshot_metrics_after")},
           {T("post_compaction_report")}>>
    [] d = "dbt_full_run" ->
         <<{T("dbt_run_staging")}, {T("dbt_test_staging")}, {T("dbt_run_marts")},
           {T("dbt_test_marts")}>>
    [] d = "backfill_silver_from_bronze" ->
         <<{T("validate_params")}, {T("generate_hourly_partitions")}, Mapped(p),
           {T("verify_silver_row_count")}, {T("post_backfill_summary")}>>

Dags == {"slo_daily_report", "iceberg_maintenance", "dbt_full_run",
         "backfill_silver_from_bronze"}

Retries ==
  CASE dag = "dbt_full_run" -> 2
    [] dag = "backfill_silver_from_bronze" -> 0
    [] OTHER -> 1

Tasks == UNION {Layers(dag, params)[i] : i \in 1..Len(Layers(dag, params))}

Upstream(t) ==
  UNION {Layers(dag, params)[i] :
           i \in {j \in 1..(Len(Layers(dag, params)) - 1) : t \in Layers(dag, params)[j + 1]}}

-----------------------------------------------------------------------------
ParamsOf(d) == IF d = "backfill_silver_from_bronze" THEN Params ELSE {None}

Triggered(d, p) ==
  LET tasks == UNION {Layers(d, p)[i] : i \in 1..Len(Layers(d, p))}
  IN  [dag |-> d, params |-> p, state |-> [t \in tasks |-> "none"],
       tries |-> [t \in tasks |-> 0]]

Init ==
  /\ \E d \in Dags : \E p \in ParamsOf(d) :
       LET run == Triggered(d, p)
       IN  dag = d /\ params = p /\ state = run.state /\ tries = run.tries
  /\ samples = None /\ xcom = None /\ report = None /\ sent = <<>>

Over == {"success", "failed", "upstream_failed", "skipped"}
Bad == {"failed", "upstream_failed"}

Ended == \A t \in Tasks : state[t] \in Over

(* The next run of some DAG.                                               *)
Trigger ==
  /\ Ended
  /\ \E d \in Dags : \E p \in ParamsOf(d) :
       LET run == Triggered(d, p)
       IN  dag' = d /\ params' = p /\ state' = run.state /\ tries' = run.tries
  /\ samples' = None /\ xcom' = None /\ report' = None /\ sent' = <<>>

-----------------------------------------------------------------------------
(* Mutant of NoneFailedMinOneSuccess: the default rule for every task.     *)
Never(t) == FALSE

NoneFailedMinOneSuccess(t) == t = T("archive_report")

(* The states of what t waits for.                                         *)
Before(t) == {state[u] : u \in Upstream(t)}

NothingToMap(t) == t = T("process_partition") /\ generate_hourly_partitions(params) = {}

Ready(t) ==
  /\ state[t] \in {"none", "retry"} /\ ~NothingToMap(t)
  /\ IF NoneFailedMinOneSuccess(t)
     THEN Before(t) \subseteq {"success", "skipped"} /\ "success" \in Before(t)
     ELSE Before(t) \subseteq {"success"}

(* Tasks that the scheduler gives up without starting them.                *)
GivesUp(t) ==
  /\ state[t] = "none"
  /\ \/ /\ Before(t) \cap Bad # {}
        /\ state' = [state EXCEPT ![t] = "upstream_failed"]
     \/ /\ Before(t) \cap Bad = {}
        /\ IF NoneFailedMinOneSuccess(t) THEN Before(t) = {"skipped"}
           ELSE "skipped" \in Before(t) \/ (NothingToMap(t) /\ Before(t) = {"success"})
        /\ state' = [state EXCEPT ![t] = "skipped"]
  /\ UNCHANGED <<dag, params, tries, samples, xcom, report, sent>>

(* max_active_tis_per_dag=2 of process_partition; the 3 of the maintenance *)
(* tasks is never reached.                                                 *)
Starts(t) ==
  /\ Ready(t)
  /\ t[1] = "process_partition" =>
       Cardinality({u \in Tasks : u[1] = t[1] /\ state[u] = "running"}) < 2
  /\ state' = [state EXCEPT ![t] = "running"]
  /\ UNCHANGED <<dag, params, tries, samples, xcom, report, sent>>

-----------------------------------------------------------------------------
(* slo_query.py.                                                           *)
CollectSloMetrics ==
  /\ \E f \in FreshnessSamples, l \in LatencySamples :
       /\ samples' = [freshness |-> f, latency |-> l]
       /\ LET r == summarize_dual(f, l)
          IN  xcom' = [metrics |-> r, any_violated |-> any_violated(r)]
  /\ UNCHANGED <<report, sent>>

(* send_slo_alert and send_compaction_report; what becomes of a message    *)
(* handed over is not seen: every exception of urlopen is only logged.     *)
Says(t) ==
  CASE t = T("send_alert") -> <<[kind |-> "slo", about |-> t]>>
    [] t = T("post_compaction_report") -> <<[kind |-> "compaction", about |-> t]>>
    [] OTHER -> <<>>

(* What a task does besides ending.                                        *)
Effect(t) ==
  CASE t = T("collect_slo_metrics") -> CollectSloMetrics
    [] t = T("generate_report") -> report' = xcom /\ UNCHANGED <<samples, xcom, sent>>
    [] OTHER -> sent' = sent \o Says(t) /\ UNCHANGED <<samples, xcom, report>>

branch_on_slo_violation == T(IF xcom.any_violated THEN "send_alert" ELSE "skip_alert")

(* validate_params compares the two texts, not the times they name.        *)
Succeeds(t) ==
  /\ state[t] = "running"
  /\ t = T("validate_params") => params.ordered /\ params.tables > 0
  /\ Effect(t)
  /\ state' = [u \in Tasks |->
       IF u = t THEN "success"
       ELSE IF t = T("branch_on_slo_violation") /\ t \in Upstream(u)
               /\ u # branch_on_slo_violation THEN "skipped"
       ELSE state[u]]
  /\ UNCHANGED <<dag, params, tries>>

(* Mutant of CallsBack: every try that fails.                              *)
Always(t) == TRUE

(* on_failure_callback: not while there are retries.                       *)
CallsBack(t) == tries[t] = Retries

(* Mutant of FailsAt: a retry does not count.                              *)
RetryForFree(t) ==
  /\ state' = [state EXCEPT ![t] = "retry"]
  /\ UNCHANGED tries

FailsAt(t) ==
  /\ state' = [state EXCEPT ![t] = IF tries[t] < Retries THEN "retry" ELSE "failed"]
  /\ tries' = [tries EXCEPT ![t] = @ + 1]

(* The callback's message comes last; the effect may or may not have been. *)
Fails(t) ==
  /\ state[t] = "running"
  /\ FailsAt(t)
  /\ LET told == IF CallsBack(t) THEN <<[kind |-> "failure", about |-> t]>> ELSE <<>>
     IN  \/ sent' = sent \o told /\ UNCHANGED <<samples, xcom, report>>
         \/ /\ t = T("generate_report")
            /\ report' = xcom
            /\ sent' = sent \o told /\ UNCHANGED <<samples, xcom>>
         \/ /\ Says(t) # <<>>
            /\ sent' = sent \o Says(t) \o told
            /\ UNCHANGED <<samples, xcom, report>>
  /\ UNCHANGED <<dag, params>>

-----------------------------------------------------------------------------
Next ==
  \/ Trigger
  \/ \E t \in Tasks : Starts(t) \/ GivesUp(t) \/ Succeeds(t) \/ Fails(t)

Spec == Init /\ [][Next]_vars

(* The scheduler goes on, and tasks end.                                   *)
FairSpec == Spec /\ WF_vars(\E t \in Tasks : Starts(t) \/ GivesUp(t) \/ Succeeds(t) \/ Fails(t))

-----------------------------------------------------------------------------
Told(kind, t) == {i \in 1..Len(sent) : sent[i] = [kind |-> kind, about |-> t]}

(* A day on which an SLO was violated does not pass in silence: when the   *)
(* run is over an alert was handed over, or the failure of a task was.     *)
NoSilentViolation ==
  dag = "slo_daily_report" /\ Ended /\ xcom # None /\
  (xcom.metrics.data_freshness.slo_violated \/ xcom.metrics.platform_latency.slo_violated)
    => Told("slo", T("send_alert")) # {}
       \/ \E t \in Tasks : Told("failure", t) # {}

(* archive_report ends a run in which nothing failed, whichever way the    *)
(* branch took, and only such a run: its report is then what was measured, *)
(* and alerts were sent if and only if an SLO was violated.                *)
ArchiveMeansComplete ==
  dag = "slo_daily_report" /\ Ended =>
    LET archived == state[T("archive_report")] = "success"
    IN  /\ archived = (\A t \in Tasks : state[t] \notin Bad)
        /\ archived => /\ report = xcom
                       /\ xcom.any_violated = (Told("slo", T("send_alert")) # {})

(* Whoever is called back is called once, for a task that will not be      *)
(* tried again; and a run whose last task has not succeeded has told so.   *)
FailureToldOnce ==
  /\ \A t \in Tasks : Cardinality(Told("failure", t)) = IF state[t] = "failed" THEN 1 ELSE 0
  /\ Ended => (\E t \in Tasks : state[t] \in Bad) = (\E t \in Tasks : Told("failure", t) # {})

(* The verdict speaks of the slow samples, at the boundary of the          *)
(* threshold, for few samples and in whatever order they come: if it is    *)
(* violated the slowest 5% (at least one sample) are above the threshold,  *)
(* and if not those below the percentile are not; the percentiles are in   *)
(* order.  A percentile on the threshold keeps the SLO, as in              *)
(* summarize_one; the documentation, "P95 < 45m", would have it violated.  *)
VerdictIsTail ==
  samples # None =>
    \A m \in {<<samples.freshness, xcom.metrics.data_freshness, SLO_DATA_FRESHNESS_SECONDS>>,
              <<samples.latency, xcom.metrics.platform_latency, SLO_PLATFORM_LATENCY_SECONDS>>} :
      LET n == Len(m[1])
          above == Cardinality({i \in 1..n : m[1][i] > m[3]})
      IN  /\ m[2].slo_violated => 20 * above >= n
          /\ ~m[2].slo_violated => 20 * above <= n + 18
          /\ m[2].p50 <= m[2].p95 /\ m[2].p95 <= m[2].p99 /\ m[2].p99 <= m[2].max

(* The hours of a backfill: none is missing but the last, and that only if *)
(* start is not on the hour and end is in an hour that the steps miss.     *)
HoursCovered ==
  dag = "backfill_silver_from_bronze" /\ state[T("verify_silver_row_count")] = "success" =>
    LET done == {t[2] : t \in {u \in Tasks : u[1] = "process_partition" /\ state[u] = "success"}}
        last == (params.end - 1) \div 60
        wanted == (params.start \div 60)..last
    IN  /\ done \subseteq wanted
        /\ wanted \ done \subseteq {last}
        /\ last \notin done => params.end % 60 \in 1..(params.start % 60)

(* Every run comes to an end, so that max_active_runs=1 does not keep the  *)
(* next one waiting for ever.                                              *)
RunsEnd == []<>Ended
=============================================================================
