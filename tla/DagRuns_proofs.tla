---------------------------- MODULE DagRuns_proofs ----------------------------
(* For any samples, any hours and whatever fails: what the runs of the DAGs *)
(* tell of failures and of SLOs is what happened, and a backfill that is    *)
(* through has done its hours.                                              *)
EXTENDS DagRuns, FiniteSetTheorems, SequenceTheorems, WellFoundedInduction, TLAPS

Collect == T("collect_slo_metrics")
Generate == T("generate_report")
Branch == T("branch_on_slo_violation")
Send == T("send_alert")
Skip == T("skip_alert")
Archive == T("archive_report")

Validate == T("validate_params")
Partitions == T("generate_hourly_partitions")
Verify == T("verify_silver_row_count")

Started == {"running", "retry", "success", "failed"}
States == {"none", "running", "retry"} \union Over

Message == [kind : {"slo", "compaction", "failure"}, about : Tasks]

(* One task goes on.                                                        *)
Step(t) == Starts(t) \/ GivesUp(t) \/ Succeeds(t) \/ Fails(t)

TypeOK ==
  /\ dag \in Dags /\ params \in ParamsOf(dag)
  /\ state \in [Tasks -> States]
  /\ tries \in [Tasks -> Nat]
  /\ sent \in Seq(Message)

-----------------------------------------------------------------------------
(* The shape of the DAGs.                                                   *)
LEMMA Shape ==
  ASSUME Len(Layers(dag, params)) \in Nat \ {0}
  PROVE  /\ \A t : t \in Tasks <=>
              \E i \in 1..Len(Layers(dag, params)) : t \in Layers(dag, params)[i]
         /\ \A t, u : u \in Upstream(t) <=>
              \E j \in 1..(Len(Layers(dag, params)) - 1) :
                t \in Layers(dag, params)[j + 1] /\ u \in Layers(dag, params)[j]
         /\ \A t : Upstream(t) \subseteq Tasks
<1> DEFINE L == Layers(dag, params)
<1> DEFINE n == Len(L)
<1> HIDE DEF L
<1>1. \A t : t \in Tasks <=> \E i \in 1..n : t \in L[i]
  BY DEF Tasks, L
<1>2. ASSUME NEW t, NEW u
      PROVE  u \in Upstream(t) <=> \E j \in 1..(n - 1) : t \in L[j + 1] /\ u \in L[j]
  <2>1. Upstream(t) = UNION {L[i] : i \in {j \in 1..(n - 1) : t \in L[j + 1]}}
    BY DEF Upstream, L
  <2> QED
    BY <2>1
<1>3. \A j \in 1..(n - 1) : j \in 1..n
  BY DEF L
<1> QED
  BY <1>1, <1>2, <1>3 DEF L

LEMMA SloShape ==
  ASSUME dag = "slo_daily_report"
  PROVE  /\ Tasks = {Collect, Generate, Branch, Send, Skip, Archive}
         /\ \A t, u : u \in Upstream(t) <=>
              \/ (t = Generate /\ u = Collect)
              \/ (t = Branch /\ u = Generate)
              \/ (t \in {Send, Skip} /\ u = Branch)
              \/ (t = Archive /\ u \in {Send, Skip})
<1> DEFINE L == Layers(dag, params)
<1>1. /\ Len(L) = 5 /\ L[1] = {Collect} /\ L[2] = {Generate} /\ L[3] = {Branch}
      /\ L[4] = {Send, Skip} /\ L[5] = {Archive}
  BY DEF Layers, Collect, Generate, Branch, Send, Skip, Archive
<1>2. /\ \A t : t \in Tasks <=> \E i \in 1..Len(L) : t \in L[i]
      /\ \A t, u : u \in Upstream(t) <=> \E j \in 1..(Len(L) - 1) : t \in L[j + 1] /\ u \in L[j]
  BY <1>1, Shape
<1> HIDE DEF L
<1>3. \A i \in 1..5 : i = 1 \/ i = 2 \/ i = 3 \/ i = 4 \/ i = 5
  OBVIOUS
<1>4. Tasks = {Collect, Generate, Branch, Send, Skip, Archive}
  <2>1. \A t : t \in Tasks <=> \E i \in 1..5 : t \in L[i]
    BY <1>1, <1>2
  <2>2. 1 \in 1..5 /\ 2 \in 1..5 /\ 3 \in 1..5 /\ 4 \in 1..5 /\ 5 \in 1..5
    OBVIOUS
  <2>3. ASSUME NEW t
        PROVE  t \in Tasks <=> t \in L[1] \/ t \in L[2] \/ t \in L[3] \/ t \in L[4] \/ t \in L[5]
    BY <1>3, <2>1, <2>2
  <2> QED
    BY <1>1, <2>3
<1>5. ASSUME NEW t, NEW u
      PROVE  u \in Upstream(t) <=> \/ (t \in L[2] /\ u \in L[1])
                                  \/ (t \in L[3] /\ u \in L[2])
                                  \/ (t \in L[4] /\ u \in L[3])
                                  \/ (t \in L[5] /\ u \in L[4])
  <2>1. \A j \in 1..(5 - 1) : j = 1 \/ j = 2 \/ j = 3 \/ j = 4
    OBVIOUS
  <2>2. /\ 1 \in 1..(5 - 1) /\ 2 \in 1..(5 - 1) /\ 3 \in 1..(5 - 1) /\ 4 \in 1..(5 - 1)
        /\ 1 + 1 = 2 /\ 2 + 1 = 3 /\ 3 + 1 = 4 /\ 4 + 1 = 5
    OBVIOUS
  <2>3. u \in Upstream(t) <=> \E j \in 1..(5 - 1) : t \in L[j + 1] /\ u \in L[j]
    BY <1>1, <1>2
  <2> QED
    BY <2>1, <2>2, <2>3
<1> QED
  BY <1>1, <1>4, <1>5

LEMMA BackfillShape ==
  ASSUME dag = "backfill_silver_from_bronze"
  PROVE  /\ {Validate, Partitions, Verify} \union Mapped(params) \subseteq Tasks
         /\ Tasks \subseteq {Validate, Partitions, Verify, T("post_backfill_summary")}
                              \union Mapped(params)
         /\ Validate \in Upstream(Partitions)
         /\ \A t \in Mapped(params) : Partitions \in Upstream(t) /\ t \in Upstream(Verify)
<1> DEFINE L == Layers(dag, params)
<1>1. /\ Len(L) = 5 /\ L[1] = {Validate} /\ L[2] = {Partitions} /\ L[3] = Mapped(params)
      /\ L[4] = {Verify} /\ L[5] = {T("post_backfill_summary")}
  BY DEF Layers, Validate, Partitions, Verify
<1>2. /\ \A t : t \in Tasks <=> \E i \in 1..Len(L) : t \in L[i]
      /\ \A t, u : u \in Upstream(t) <=> \E j \in 1..(Len(L) - 1) : t \in L[j + 1] /\ u \in L[j]
  BY <1>1, Shape
<1> HIDE DEF L
<1>3. \A i \in 1..5 : i = 1 \/ i = 2 \/ i = 3 \/ i = 4 \/ i = 5
  OBVIOUS
<1>4. \A t : t \in Tasks <=> \E i \in 1..5 : t \in L[i]
  BY <1>1, <1>2
<1>5. \A t, u : u \in Upstream(t) <=> \E j \in 1..(5 - 1) : t \in L[j + 1] /\ u \in L[j]
  BY <1>1, <1>2
<1>6. /\ 1 \in 1..(5 - 1) /\ 2 \in 1..(5 - 1) /\ 3 \in 1..(5 - 1)
      /\ 1 + 1 = 2 /\ 2 + 1 = 3 /\ 3 + 1 = 4
      /\ 1 \in 1..5 /\ 2 \in 1..5 /\ 3 \in 1..5 /\ 4 \in 1..5
  OBVIOUS
<1>7. {Validate, Partitions, Verify} \union Mapped(params) \subseteq Tasks
  BY <1>1, <1>4, <1>6
<1>8. Tasks \subseteq {Validate, Partitions, Verify, T("post_backfill_summary")}
                        \union Mapped(params)
  BY <1>1, <1>3, <1>4
<1>9. Validate \in Upstream(Partitions)
  BY <1>1, <1>5, <1>6
<1>10. \A t \in Mapped(params) : Partitions \in Upstream(t) /\ t \in Upstream(Verify)
  BY <1>1, <1>5, <1>6
<1> QED
  BY <1>7, <1>8, <1>9, <1>10

LEMMA UpstreamTasks == ASSUME dag \in Dags PROVE \A t : Upstream(t) \subseteq Tasks
<1>1. Len(Layers(dag, params)) \in Nat \ {0}
  BY DEF Dags, Layers
<1> QED
  BY <1>1, Shape

(* Only one DAG branches.                                                   *)
LEMMA BranchOfSlo ==
  ASSUME dag \in Dags, Branch \in Tasks PROVE dag = "slo_daily_report"
<1> DEFINE L == Layers(dag, params)
<1>1. CASE dag = "iceberg_maintenance"
  <2>1. /\ Len(L) = 6
        /\ L[1] = {T("snapshot_metrics_before")}
        /\ L[2] = {T("rewrite_silver"), T("rewrite_gold")}
        /\ L[3] = {T("expire_snapshots")} /\ L[4] = {T("remove_orphan_files")}
        /\ L[5] = {T("snapshot_metrics_after")} /\ L[6] = {T("post_compaction_report")}
    BY <1>1 DEF Layers
  <2>2. PICK i \in 1..6 : Branch \in L[i]
    BY <2>1, Shape
  <2>3. i = 1 \/ i = 2 \/ i = 3 \/ i = 4 \/ i = 5 \/ i = 6
    OBVIOUS
  <2> HIDE DEF L
  <2> QED
    BY <2>1, <2>2, <2>3 DEF Branch, T
<1>2. CASE dag = "dbt_full_run"
  <2>1. /\ Len(L) = 4
        /\ L[1] = {T("dbt_run_staging")} /\ L[2] = {T("dbt_test_staging")}
        /\ L[3] = {T("dbt_run_marts")} /\ L[4] = {T("dbt_test_marts")}
    BY <1>2 DEF Layers
  <2>2. PICK i \in 1..4 : Branch \in L[i]
    BY <2>1, Shape
  <2>3. i = 1 \/ i = 2 \/ i = 3 \/ i = 4
    OBVIOUS
  <2> HIDE DEF L
  <2> QED
    BY <2>1, <2>2, <2>3 DEF Branch, T
<1>3. CASE dag = "backfill_silver_from_bronze"
  BY <1>3, BackfillShape DEF Branch, Validate, Partitions, Verify, Mapped, T
<1> QED
  BY <1>1, <1>2, <1>3 DEF Dags

-----------------------------------------------------------------------------
(* A task that was started found what it waits for done.                    *)
Ordered ==
  \A t \in Tasks : state[t] \in Started =>
    \A u \in Upstream(t) :
      state[u] \in {"success", "skipped"} /\ (t # Archive => state[u] = "success")

(* What a step does to the states: of tasks other than its own it changes   *)
(* only those that the branch skips, which were not started.                *)
LEMMA StateStep ==
  ASSUME TypeOK, Ordered, NEW t \in Tasks, Step(t)
  PROVE  /\ dag' = dag /\ params' = params
         /\ state' \in [Tasks -> States]
         /\ state[t] \in {"none", "running", "retry"}
         /\ \A u \in Tasks : u # t =>
              \/ state'[u] = state[u]
              \/ /\ t = Branch /\ state[Branch] = "running" /\ state'[Branch] = "success"
                 /\ Branch \in Upstream(u) /\ u # branch_on_slo_violation
                 /\ state[u] \notin Started /\ state'[u] = "skipped"
<1>1. state \in [Tasks -> States] /\ Tasks' = Tasks
  <2>1. dag' = dag /\ params' = params
    BY DEF Step, Starts, GivesUp, Succeeds, Fails
  <2> QED
    BY <2>1 DEF TypeOK, Tasks
<1>2. dag' = dag /\ params' = params
  BY DEF Step, Starts, GivesUp, Succeeds, Fails
<1>3. CASE Starts(t)
  BY <1>1, <1>2, <1>3 DEF Starts, Ready, States
<1>4. CASE GivesUp(t)
  BY <1>1, <1>2, <1>4 DEF GivesUp, States, Over
<1>5. CASE Succeeds(t)
  <2>1. /\ state[t] = "running"
        /\ state' = [u \in Tasks |->
             IF u = t THEN "success"
             ELSE IF t = Branch /\ t \in Upstream(u) /\ u # branch_on_slo_violation
                  THEN "skipped"
             ELSE state[u]]
    BY <1>5 DEF Succeeds, Branch
  <2>2. ASSUME NEW u \in Tasks, t \in Upstream(u) PROVE state[u] \notin Started
    BY <2>1, <2>2 DEF Ordered
  <2>3. state'[t] = "success" /\ state' \in [Tasks -> States]
    BY <1>1, <2>1 DEF States, Over
  <2>4. ASSUME NEW u \in Tasks, u # t
        PROVE  \/ state'[u] = state[u]
               \/ /\ t = Branch /\ t \in Upstream(u) /\ u # branch_on_slo_violation
                  /\ state'[u] = "skipped"
    BY <2>1, <2>4
  <2> QED
    BY <1>2, <2>1, <2>2, <2>3, <2>4
<1>6. CASE Fails(t)
  <2>1. state[t] = "running" /\ (state' = [state EXCEPT ![t] = "retry"]
                                 \/ state' = [state EXCEPT ![t] = "failed"])
    BY <1>6 DEF Fails, FailsAt
  <2> QED
    BY <1>1, <1>2, <2>1 DEF States, Over
<1> QED
  BY <1>3, <1>4, <1>5, <1>6 DEF Step

LEMMA OrderStep ==
  ASSUME TypeOK, Ordered, NEW t \in Tasks, Step(t) PROVE Ordered'
<1>1. /\ dag' = dag /\ params' = params
      /\ state[t] \in {"none", "running", "retry"}
      /\ \A u \in Tasks : u # t =>
           \/ state'[u] = state[u]
           \/ state[u] \notin Started /\ state'[u] = "skipped"
  BY StateStep
<1>2. Tasks' = Tasks /\ \A u : Upstream(u)' = Upstream(u) /\ Upstream(u) \subseteq Tasks
  BY <1>1, UpstreamTasks DEF Tasks, Upstream, TypeOK
<1>3. ASSUME NEW u \in Tasks, state'[u] \in Started, NEW v \in Upstream(u)
      PROVE  state'[v] \in {"success", "skipped"} /\ (u # Archive => state'[v] = "success")
  <2>1. state[v] \in {"success", "skipped"} /\ (u # Archive => state[v] = "success")
    <3>1. CASE u # t
      BY <1>1, <1>3, <3>1 DEF Ordered, Started
    <3>2. CASE u = t /\ Starts(t)
      <4>1. state[v] \in Before(u)
        BY DEF Before
      <4> QED
        BY <3>2, <4>1 DEF Starts, Ready, NoneFailedMinOneSuccess, Archive
    <3>3. CASE u = t /\ (Succeeds(t) \/ Fails(t))
      BY <3>3 DEF Succeeds, Fails, Ordered, Started
    <3>4. CASE u = t /\ GivesUp(t)
      <4>1. state'[t] \in {"upstream_failed", "skipped"}
        BY <3>4 DEF GivesUp, TypeOK
      <4> QED
        BY <1>3, <3>4, <4>1 DEF Started
    <3> QED
      BY <3>1, <3>2, <3>3, <3>4 DEF Step
  <2>2. v \in Tasks /\ v # t
    BY <1>1, <1>2, <2>1
  <2> QED
    BY <1>1, <2>1, <2>2 DEF Started
<1> QED
  BY <1>2, <1>3 DEF Ordered

-----------------------------------------------------------------------------
(* The messages handed over.                                                *)
Tell(s, kind, t) == {i \in 1..Len(s) : s[i] = [kind |-> kind, about |-> t]}

LEMMA TellFinite ==
  ASSUME NEW s \in Seq(Message), NEW kind, NEW t
  PROVE  IsFiniteSet(Tell(s, kind, t)) /\ Cardinality(Tell(s, kind, t)) \in Nat
<1>1. IsFiniteSet(1..Len(s))
  BY FS_Interval
<1>2. Tell(s, kind, t) \subseteq 1..Len(s)
  BY DEF Tell
<1>3. IsFiniteSet(Tell(s, kind, t))
  BY <1>1, <1>2, FS_Subset
<1> QED
  BY <1>3, FS_CardinalityType

LEMMA TellAppend ==
  ASSUME NEW s \in Seq(Message), NEW m \in Message, NEW kind, NEW t
  PROVE  /\ m = [kind |-> kind, about |-> t] =>
              /\ Tell(Append(s, m), kind, t) # {}
              /\ Cardinality(Tell(Append(s, m), kind, t)) = Cardinality(Tell(s, kind, t)) + 1
         /\ m # [kind |-> kind, about |-> t] =>
              Tell(Append(s, m), kind, t) = Tell(s, kind, t)
<1> DEFINE n == Len(s) + 1
<1>1. /\ Len(Append(s, m)) = n /\ Append(s, m)[n] = m
      /\ \A i \in 1..Len(s) : Append(s, m)[i] = s[i]
  BY AppendProperties
<1>2. Len(s) \in Nat
  OBVIOUS
<1>3. 1..n = (1..Len(s)) \union {n} /\ n \notin 1..Len(s)
  BY <1>2
<1>4. CASE m = [kind |-> kind, about |-> t]
  <2>1. Tell(Append(s, m), kind, t) = Tell(s, kind, t) \union {n} /\ n \notin Tell(s, kind, t)
    BY <1>1, <1>3, <1>4 DEF Tell
  <2>2. Cardinality(Tell(s, kind, t) \union {n}) = Cardinality(Tell(s, kind, t)) + 1
    BY <2>1, TellFinite, FS_AddElement
  <2> QED
    BY <1>4, <2>1, <2>2
<1>5. CASE m # [kind |-> kind, about |-> t]
  BY <1>1, <1>3, <1>5 DEF Tell
<1> QED
  BY <1>4, <1>5

(* What send_alert and post_compaction_report say.                          *)
LEMMA SaysOne ==
  ASSUME NEW t \in Tasks
  PROVE  \/ Says(t) = <<>> /\ t # Send
         \/ \E m \in Message :
              /\ Says(t) = <<m>> /\ m.kind # "failure" /\ (m.kind = "slo" => m.about = Send)
              /\ (t = Send => m = [kind |-> "slo", about |-> Send])
              /\ (m.kind = "slo" => t = Send)
<1>1. CASE t = Send
  <2>1. Says(t) = <<[kind |-> "slo", about |-> Send]>>
    BY <1>1 DEF Says, Send, T
  <2>2. [kind |-> "slo", about |-> Send] \in Message
    BY <1>1 DEF Message
  <2> QED
    BY <1>1, <2>1, <2>2
<1>2. CASE t = T("post_compaction_report")
  <2>1. t # Send
    BY <1>2 DEF Send, T
  <2>2. Says(t) = <<[kind |-> "compaction", about |-> t]>>
    BY <1>2, <2>1 DEF Says, Send
  <2>3. [kind |-> "compaction", about |-> t] \in Message
    BY DEF Message
  <2> QED
    BY <2>1, <2>2, <2>3
<1>3. CASE t # Send /\ t # T("post_compaction_report")
  BY <1>3 DEF Says, Send
<1> QED
  BY <1>1, <1>2, <1>3

(* What a step adds: what its task says, then that it failed.               *)
LEMMA SentStep ==
  ASSUME TypeOK, NEW t \in Tasks, Step(t)
  PROVE  \E s \in Seq(Message) :
           /\ \/ s = sent /\ ~(t = Send /\ Succeeds(t))
              \/ \E m \in Message :
                   /\ s = Append(sent, m) /\ m.kind # "failure" /\ state[t] = "running"
                   /\ (t = Send => m = [kind |-> "slo", about |-> Send])
                   /\ (m.kind = "slo" => t = Send)
           /\ \/ sent' = s /\ ~(Fails(t) /\ CallsBack(t))
              \/ /\ sent' = Append(s, [kind |-> "failure", about |-> t])
                 /\ Fails(t) /\ CallsBack(t)
<1> DEFINE fail == [kind |-> "failure", about |-> t]
<1>1. /\ sent \in Seq(Message) /\ fail \in Message
      /\ \A s \in Seq(Message), m \in Message :
           s \o <<>> = s /\ s \o <<m>> = Append(s, m) /\ Append(s, m) \in Seq(Message)
  <2>1. ASSUME NEW s \in Seq(Message), NEW m \in Message
        PROVE  s \o <<>> = s /\ s \o <<m>> = Append(s, m) /\ Append(s, m) \in Seq(Message)
    OBVIOUS
  <2> QED
    BY <2>1 DEF TypeOK, Message
<1>2. Fails(t) => state'[t] \in {"retry", "failed"}
  BY DEF Fails, FailsAt, TypeOK
<1>3. CASE Starts(t) \/ GivesUp(t)
  <2>1. sent' = sent /\ state'[t] \in {"running", "upstream_failed", "skipped"}
    BY <1>3 DEF Starts, GivesUp, TypeOK
  <2>2. ~Succeeds(t)
    <3>1. Succeeds(t) => state'[t] = "success"
      BY DEF Succeeds
    <3> QED
      BY <2>1, <3>1
  <2> QED
    BY <1>1, <1>2, <2>1, <2>2
<1>4. CASE Succeeds(t)
  <2>1. state[t] = "running" /\ state'[t] = "success"
    BY <1>4 DEF Succeeds
  <2>2. (sent' = sent /\ t # Send) \/ sent' = sent \o Says(t)
    <3>1. Effect(t) /\ Collect # Send /\ Generate # Send
      BY <1>4 DEF Succeeds, Collect, Generate, Send, T
    <3> QED
      BY <3>1 DEF Effect, CollectSloMetrics, Collect, Generate
  <2>3. \/ sent' = sent /\ t # Send
        \/ \E m \in Message :
             /\ sent' = Append(sent, m) /\ m.kind # "failure"
             /\ (t = Send => m = [kind |-> "slo", about |-> Send])
             /\ (m.kind = "slo" => t = Send)
    BY <1>1, <2>2, SaysOne
  <2> QED
    BY <1>1, <1>2, <2>1, <2>3
<1>5. CASE Fails(t)
  <2>1. state[t] = "running" /\ ~Succeeds(t)
    <3>1. Succeeds(t) => state'[t] = "success"
      BY DEF Succeeds
    <3> QED
      BY <1>2, <1>5, <3>1 DEF Fails
  <2> DEFINE told == IF CallsBack(t) THEN <<fail>> ELSE <<>>
  <2>2. sent' = sent \o told \/ (Says(t) # <<>> /\ sent' = sent \o Says(t) \o told)
    BY <1>5 DEF Fails
  <2>3. \E s \in Seq(Message) :
          /\ \/ s = sent
             \/ \E m \in Message :
                  /\ s = Append(sent, m) /\ m.kind # "failure"
                  /\ (t = Send => m = [kind |-> "slo", about |-> Send])
                  /\ (m.kind = "slo" => t = Send)
          /\ sent' = s \o told
    <3>1. CASE sent' = sent \o told
      BY <1>1, <3>1
    <3>2. CASE Says(t) # <<>> /\ sent' = sent \o Says(t) \o told
      <4>1. PICK m \in Message :
              /\ Says(t) = <<m>> /\ m.kind # "failure"
              /\ (t = Send => m = [kind |-> "slo", about |-> Send])
              /\ (m.kind = "slo" => t = Send)
        BY <3>2, SaysOne
      <4>2. sent \o Says(t) = Append(sent, m) /\ Append(sent, m) \in Seq(Message)
        BY <1>1, <4>1
      <4> QED
        BY <3>2, <4>1, <4>2
    <3> QED
      BY <2>2, <3>1, <3>2
  <2>4. \A s \in Seq(Message) : s \o told = IF CallsBack(t) THEN Append(s, fail) ELSE s
    BY <1>1
  <2> HIDE DEF told
  <2> QED
    BY <1>1, <1>5, <2>1, <2>3, <2>4
<1> QED
  BY <1>3, <1>4, <1>5 DEF Step

(* What a step adds to what was told.                                       *)
LEMMA TellStep ==
  ASSUME TypeOK, NEW t \in Tasks, Step(t)
  PROVE  /\ sent' \in Seq(Message)
         /\ \A u \in Tasks :
              Cardinality(Tell(sent', "failure", u)) =
                Cardinality(Tell(sent, "failure", u))
                  + (IF u = t /\ Fails(t) /\ CallsBack(t) THEN 1 ELSE 0)
         /\ t = Send /\ Succeeds(t) => Tell(sent', "slo", Send) # {}
         /\ Tell(sent, "slo", Send) # {} => Tell(sent', "slo", Send) # {}
         /\ Tell(sent', "slo", Send) # {} =>
              Tell(sent, "slo", Send) # {} \/ (t = Send /\ state[t] = "running")
<1> DEFINE fail == [kind |-> "failure", about |-> t]
<1>1. PICK s \in Seq(Message) :
        /\ \/ s = sent /\ ~(t = Send /\ Succeeds(t))
           \/ \E m \in Message :
                /\ s = Append(sent, m) /\ m.kind # "failure" /\ state[t] = "running"
                /\ (t = Send => m = [kind |-> "slo", about |-> Send])
                /\ (m.kind = "slo" => t = Send)
        /\ \/ sent' = s /\ ~(Fails(t) /\ CallsBack(t))
           \/ sent' = Append(s, fail) /\ Fails(t) /\ CallsBack(t)
  BY SentStep
<1>2. sent \in Seq(Message) /\ fail \in Message
  BY DEF TypeOK, Message
<1>3. /\ \A u \in Tasks : Tell(s, "failure", u) = Tell(sent, "failure", u)
      /\ t = Send /\ Succeeds(t) => Tell(s, "slo", Send) # {}
      /\ Tell(sent, "slo", Send) # {} => Tell(s, "slo", Send) # {}
      /\ Tell(s, "slo", Send) # {} =>
           Tell(sent, "slo", Send) # {} \/ (t = Send /\ state[t] = "running")
  <2>1. CASE s = sent /\ ~(t = Send /\ Succeeds(t))
    BY <2>1
  <2>2. ASSUME NEW m \in Message, s = Append(sent, m), m.kind # "failure",
               state[t] = "running", t = Send => m = [kind |-> "slo", about |-> Send],
               m.kind = "slo" => t = Send
        PROVE  /\ \A u \in Tasks : Tell(s, "failure", u) = Tell(sent, "failure", u)
               /\ t = Send /\ Succeeds(t) => Tell(s, "slo", Send) # {}
               /\ Tell(sent, "slo", Send) # {} => Tell(s, "slo", Send) # {}
               /\ Tell(s, "slo", Send) # {} =>
                    Tell(sent, "slo", Send) # {} \/ (t = Send /\ state[t] = "running")
    <3>1. \A u \in Tasks : Tell(s, "failure", u) = Tell(sent, "failure", u)
      <4>1. ASSUME NEW u \in Tasks PROVE m # [kind |-> "failure", about |-> u]
        BY <2>2
      <4> QED
        BY <1>2, <2>2, <4>1, TellAppend
    <3>2. CASE m = [kind |-> "slo", about |-> Send]
      <4>1. t = Send
        BY <2>2, <3>2
      <4>2. Tell(s, "slo", Send) # {}
        BY <1>2, <2>2, <3>2, TellAppend
      <4> QED
        BY <2>2, <3>1, <4>1, <4>2
    <3>3. CASE m # [kind |-> "slo", about |-> Send]
      <4>1. Tell(s, "slo", Send) = Tell(sent, "slo", Send) /\ t # Send
        BY <1>2, <2>2, <3>3, TellAppend
      <4> QED
        BY <3>1, <4>1
    <3> QED
      BY <3>2, <3>3
  <2> QED
    BY <1>1, <2>1, <2>2
<1>4. CASE sent' = s /\ ~(Fails(t) /\ CallsBack(t))
  <2>1. \A u \in Tasks : Cardinality(Tell(sent, "failure", u)) \in Nat
    BY <1>2, TellFinite
  <2>2. \A u \in Tasks :
          Cardinality(Tell(sent', "failure", u)) = Cardinality(Tell(sent, "failure", u)) + 0
    BY <1>3, <1>4, <2>1
  <2> QED
    BY <1>3, <1>4, <2>2
<1>5. CASE sent' = Append(s, fail) /\ Fails(t) /\ CallsBack(t)
  <2>1. sent' \in Seq(Message) /\ fail # [kind |-> "slo", about |-> Send]
    BY <1>2, <1>5
  <2>2. Tell(sent', "slo", Send) = Tell(s, "slo", Send)
    BY <1>2, <1>5, <2>1, TellAppend
  <2>3. ASSUME NEW u \in Tasks
        PROVE  Cardinality(Tell(sent', "failure", u)) =
                 Cardinality(Tell(s, "failure", u)) + (IF u = t THEN 1 ELSE 0)
    <3>1. Cardinality(Tell(s, "failure", u)) \in Nat
      BY TellFinite
    <3>2. CASE u = t
      BY <1>2, <1>5, <3>2, TellAppend
    <3>3. CASE u # t
      <4>1. fail # [kind |-> "failure", about |-> u]
        BY <3>3
      <4> QED
        BY <1>2, <1>5, <3>1, <3>3, <4>1, TellAppend
    <3> QED
      BY <3>2, <3>3
  <2> QED
    BY <1>3, <1>5, <2>1, <2>2, <2>3
<1> QED
  BY <1>1, <1>4, <1>5
-----------------------------------------------------------------------------
(* Types, and the order of the tasks.                                       *)
Fresh ==
  /\ dag \in Dags /\ params \in ParamsOf(dag)
  /\ state = [t \in Tasks |-> "none"] /\ tries = [t \in Tasks |-> 0]
  /\ xcom = None /\ report = None /\ samples = None /\ sent = <<>>

LEMMA InitFresh == Init => Fresh
BY DEF Init, Triggered, Fresh, Tasks

LEMMA TriggerFresh == Trigger => Fresh'
BY DEF Trigger, Triggered, Fresh, Tasks

LEMMA FreshNothing ==
  Fresh => /\ TypeOK /\ Ordered
           /\ \A t \in Tasks : state[t] = "none"
           /\ \A kind, t : Tell(sent, kind, t) = {}
<1>1. ASSUME Fresh PROVE TypeOK
  <2>1. sent \in Seq(Message)
    BY <1>1 DEF Fresh
  <2> QED
    BY <1>1, <2>1 DEF Fresh, TypeOK, States
<1>2. ASSUME Fresh PROVE Ordered
  BY <1>2 DEF Fresh, Ordered, Started
<1>3. ASSUME Fresh PROVE \A kind, t : Tell(sent, kind, t) = {}
  BY <1>3 DEF Fresh, Tell
<1> QED
  BY <1>1, <1>2, <1>3 DEF Fresh

LEMMA TypeStep ==
  ASSUME TypeOK, Ordered, NEW t \in Tasks, Step(t) PROVE TypeOK'
<1>1. dag' = dag /\ params' = params /\ state' \in [Tasks -> States]
  BY StateStep
<1>2. Tasks' = Tasks /\ Message' = Message
  BY <1>1 DEF Tasks, Message
<1>3. sent' \in Seq(Message)
  BY TellStep
<1>4. tries' \in [Tasks -> Nat]
  <2>1. tries' = tries \/ tries' = [tries EXCEPT ![t] = @ + 1]
    BY DEF Step, Starts, GivesUp, Succeeds, Fails, FailsAt
  <2> QED
    BY <2>1 DEF TypeOK
<1> QED
  BY <1>1, <1>2, <1>3, <1>4 DEF TypeOK

LEMMA Types == Spec => [](TypeOK /\ Ordered)
<1>1. Init => Fresh
  BY InitFresh
<1>2. Fresh => TypeOK /\ Ordered
  BY FreshNothing
<1>3. TypeOK /\ Ordered /\ [Next]_vars => (TypeOK /\ Ordered)' \/ Fresh'
  <2> SUFFICES ASSUME TypeOK, Ordered, [Next]_vars PROVE (TypeOK /\ Ordered)' \/ Fresh'
    OBVIOUS
  <2>1. CASE Trigger
    BY <2>1, TriggerFresh
  <2>2. ASSUME NEW t \in Tasks, Step(t) PROVE (TypeOK /\ Ordered)'
    BY <2>2, TypeStep, OrderStep
  <2>3. CASE UNCHANGED vars
    <3>1. TypeOK'
      BY <2>3 DEF vars, TypeOK, Tasks, Message
    <3>2. Ordered'
      BY <2>3 DEF vars, Ordered, Tasks, Upstream
    <3> QED
      BY <3>1, <3>2
  <2> QED
    BY <2>1, <2>2, <2>3 DEF Next, Step
<1> QED
  BY <1>1, <1>2, <1>3, PTL DEF Spec

-----------------------------------------------------------------------------
(* What is told of failures.                                                *)
TriesLeft ==
  \A t \in Tasks : state[t] \in {"none", "running", "retry"} => tries[t] <= Retries

GivenUp ==
  (\E t \in Tasks : state[t] = "upstream_failed") => \E t \in Tasks : state[t] = "failed"

Counted ==
  \A t \in Tasks :
    Cardinality(Tell(sent, "failure", t)) = IF state[t] = "failed" THEN 1 ELSE 0

LEMMA RetriesNat == Retries \in Nat
BY DEF Retries

(* A task that fails for good does so in the step that calls back.          *)
LEMMA LastTry ==
  ASSUME TypeOK, TriesLeft, NEW t \in Tasks, Fails(t)
  PROVE  /\ CallsBack(t) => state'[t] = "failed"
         /\ ~CallsBack(t) => state'[t] = "retry" /\ tries'[t] <= Retries
<1>1. /\ state[t] = "running" /\ tries[t] \in Nat /\ tries[t] <= Retries
      /\ state'[t] = (IF tries[t] < Retries THEN "retry" ELSE "failed")
      /\ tries'[t] = tries[t] + 1
  BY DEF Fails, FailsAt, TypeOK, TriesLeft
<1> QED
  BY <1>1, RetriesNat DEF CallsBack

LEMMA ToldStep ==
  ASSUME TypeOK, Ordered, TriesLeft, GivenUp, Counted, NEW t \in Tasks, Step(t)
  PROVE  (TriesLeft /\ GivenUp /\ Counted)'
<1>1. /\ dag' = dag /\ params' = params
      /\ state' \in [Tasks -> States] /\ state[t] \in {"none", "running", "retry"}
      /\ \A u \in Tasks : u # t =>
           \/ state'[u] = state[u]
           \/ state[u] \notin Started /\ state'[u] = "skipped"
  BY StateStep
<1>2. Tasks' = Tasks /\ Retries' = Retries
  BY <1>1 DEF Tasks, Retries
<1>3. TriesLeft'
  <2>1. \A u \in Tasks : u # t => tries'[u] = tries[u]
    BY DEF Step, Starts, GivesUp, Succeeds, Fails, FailsAt, TypeOK
  <2>2. state'[t] \in {"none", "running", "retry"} => tries'[t] <= Retries
    <3>1. CASE Fails(t)
      BY <3>1, LastTry
    <3>2. CASE Starts(t) \/ GivesUp(t) \/ Succeeds(t)
      BY <1>1, <3>2 DEF Starts, GivesUp, Succeeds, TriesLeft
    <3> QED
      BY <3>1, <3>2 DEF Step
  <2> QED
    BY <1>1, <1>2, <2>1, <2>2 DEF TriesLeft
<1>4. GivenUp'
  <2>1. \A u \in Tasks : state[u] = "failed" => state'[u] = "failed"
    BY <1>1 DEF Started
  <2>2. ASSUME state'[t] = "upstream_failed" PROVE \E u \in Tasks : state[u] = "failed"
    <3>1. GivesUp(t)
      BY <2>2 DEF Step, Starts, Succeeds, Fails, FailsAt, TypeOK
    <3>2. Before(t) \cap Bad # {}
      BY <2>2, <3>1 DEF GivesUp, TypeOK
    <3>3. PICK u \in Upstream(t) : state[u] \in Bad
      BY <3>2 DEF Before
    <3>4. u \in Tasks
      BY UpstreamTasks DEF TypeOK
    <3> QED
      BY <3>3, <3>4 DEF Bad, GivenUp
  <2> QED
    BY <1>1, <1>2, <2>1, <2>2 DEF GivenUp
<1>5. Counted'
  <2>1. ASSUME NEW u \in Tasks
        PROVE  Cardinality(Tell(sent', "failure", u)) =
                 Cardinality(Tell(sent, "failure", u))
                   + (IF u = t /\ Fails(t) /\ CallsBack(t) THEN 1 ELSE 0)
    BY TellStep
  <2>2. ASSUME NEW u \in Tasks
        PROVE  Cardinality(Tell(sent', "failure", u)) = IF state'[u] = "failed" THEN 1 ELSE 0
    <3>1. CASE u # t
      <4>1. (state'[u] = "failed") = (state[u] = "failed")
        BY <1>1, <3>1 DEF Started
      <4> QED
        BY <2>1, <3>1, <4>1 DEF Counted
    <3>2. CASE u = t
      <4>1. (state'[t] = "failed") = (Fails(t) /\ CallsBack(t))
        <5>1. CASE Fails(t)
          BY <5>1, LastTry
        <5>2. CASE ~Fails(t)
          BY <1>1, <5>2 DEF Step, Starts, GivesUp, Succeeds, TypeOK
        <5> QED
          BY <5>1, <5>2
      <4>2. Cardinality(Tell(sent, "failure", t)) = 0
        BY <1>1 DEF Counted
      <4> QED
        BY <2>1, <3>2, <4>1, <4>2
    <3> QED
      BY <3>1, <3>2
  <2> QED
    BY <1>2, <2>2 DEF Counted
<1> QED
  BY <1>3, <1>4, <1>5

LEMMA ToldOnce == Spec => [](TriesLeft /\ GivenUp /\ Counted)
<1> DEFINE I == TriesLeft /\ GivenUp /\ Counted
<1>1. Fresh => I
  <2> SUFFICES ASSUME Fresh PROVE I
    OBVIOUS
  <2>1. /\ \A t \in Tasks : state[t] = "none" /\ tries[t] = 0
        /\ \A t : Tell(sent, "failure", t) = {}
    BY FreshNothing DEF Fresh
  <2>2. TriesLeft
    BY <2>1, RetriesNat DEF TriesLeft
  <2>3. Counted
    BY <2>1, FS_EmptySet DEF Counted
  <2> QED
    BY <2>1, <2>2, <2>3 DEF GivenUp
<1>2. TypeOK /\ Ordered /\ I /\ [Next]_vars => I' \/ Fresh'
  <2> SUFFICES ASSUME TypeOK, Ordered, I, [Next]_vars PROVE I' \/ Fresh'
    OBVIOUS
  <2>1. CASE Trigger
    BY <2>1, TriggerFresh
  <2>2. ASSUME NEW t \in Tasks, Step(t) PROVE I'
    BY <2>2, ToldStep
  <2>3. CASE UNCHANGED vars
    BY <2>3 DEF vars, TriesLeft, GivenUp, Counted, Tasks, Retries, Tell
  <2> QED
    BY <2>1, <2>2, <2>3 DEF Next, Step
<1>3. Init => Fresh
  BY InitFresh
<1> QED
  BY <1>1, <1>2, <1>3, Types, PTL DEF Spec

(* Whatever fails, and however often: one callback for every task that      *)
(* failed for good, none for another, and a run in which something failed   *)
(* has told so.                                                             *)
THEOREM OneCallback == Spec => []FailureToldOnce
<1>1. ASSUME TypeOK, GivenUp, Counted PROVE FailureToldOnce
  <2>1. \A t : Told("failure", t) = Tell(sent, "failure", t)
    BY DEF Told, Tell
  <2>2. ASSUME NEW t \in Tasks
        PROVE  Cardinality(Told("failure", t)) = IF state[t] = "failed" THEN 1 ELSE 0
    BY <1>1, <2>1 DEF Counted
  <2>3. ASSUME NEW t \in Tasks PROVE (Told("failure", t) # {}) = (state[t] = "failed")
    <3>1. IsFiniteSet(Told("failure", t))
      BY <1>1, <2>1, TellFinite DEF TypeOK
    <3>2. (Cardinality(Told("failure", t)) = 0) <=> (Told("failure", t) = {})
      BY <3>1, FS_EmptySet
    <3> QED
      BY <2>2, <3>2
  <2>4. (\E t \in Tasks : state[t] \in Bad) = (\E t \in Tasks : state[t] = "failed")
    BY <1>1 DEF GivenUp, Bad
  <2> QED
    BY <2>2, <2>3, <2>4 DEF FailureToldOnce
<1> QED
  BY <1>1, Types, ToldOnce, PTL
-----------------------------------------------------------------------------
(* The report of a day.                                                     *)
SkippedByBranch ==
  \A t \in Tasks : state[t] = "skipped" => t \in {Send, Skip} /\ state[Branch] = "success"

Branched ==
  state[Branch] = "success" =>
    /\ state[branch_on_slo_violation] # "skipped"
    /\ \A t \in {Send, Skip} : t # branch_on_slo_violation => state[t] = "skipped"

Collected ==
  /\ state[Collect] # "success" => xcom = None
  /\ state[Collect] = "success" => xcom.any_violated = any_violated(xcom.metrics)

Reported == state[Generate] = "success" => report = xcom

Alerted ==
  /\ state[Send] = "success" => Tell(sent, "slo", Send) # {}
  /\ Tell(sent, "slo", Send) # {} => state[Send] \in Started

SloInv ==
  dag = "slo_daily_report" =>
    SkippedByBranch /\ Branched /\ Collected /\ Reported /\ Alerted

LEMMA SloNames ==
  /\ Collect \notin {Generate, Branch, Send, Skip, Archive}
  /\ Generate \notin {Branch, Send, Skip, Archive}
  /\ Branch \notin {Send, Skip, Archive}
  /\ Send \notin {Skip, Archive} /\ Skip # Archive
BY DEF Collect, Generate, Branch, Send, Skip, Archive, T

LEMMA BranchesTo == branch_on_slo_violation \in {Send, Skip}
BY DEF branch_on_slo_violation, Send, Skip

(* Which tasks write what.                                                  *)
LEMMA SloWrites ==
  ASSUME TypeOK, NEW t \in Tasks, Step(t)
  PROVE  /\ xcom' = xcom \/ (t = Collect /\ Succeeds(t))
         /\ report' = report \/ (t = Generate /\ state[t] = "running")
         /\ t = Generate /\ Succeeds(t) => report' = xcom
         /\ t = Collect /\ Succeeds(t) => xcom'.any_violated = any_violated(xcom'.metrics)
<1>1. CASE Starts(t) \/ GivesUp(t)
  <2>1. xcom' = xcom /\ report' = report /\ state[t] \in {"none", "retry"}
    BY <1>1 DEF Starts, GivesUp, Ready
  <2>2. ~Succeeds(t)
    BY <2>1 DEF Succeeds
  <2> QED
    BY <2>1, <2>2
<1>2. CASE Fails(t)
  <2>1. /\ xcom' = xcom /\ state[t] = "running"
        /\ report' = report \/ (t = Generate /\ report' = xcom)
    BY <1>2 DEF Fails, Generate
  <2>2. ~Succeeds(t) \/ state \notin [Tasks -> States]
    BY <1>2 DEF Fails, FailsAt, Succeeds
  <2> QED
    BY <2>1, <2>2, SloNames DEF TypeOK
<1>3. CASE Succeeds(t)
  <2>1. Effect(t) /\ state[t] = "running"
    BY <1>3 DEF Succeeds
  <2>2. CASE t = Collect
    <3>1. CollectSloMetrics
      BY <2>1, <2>2 DEF Effect, Collect, T
    <3>2. PICK f \in FreshnessSamples, l \in LatencySamples :
            xcom' = [metrics |-> summarize_dual(f, l),
                     any_violated |-> any_violated(summarize_dual(f, l))]
      BY <3>1 DEF CollectSloMetrics
    <3>3. report' = report /\ xcom'.any_violated = any_violated(xcom'.metrics)
      BY <3>1, <3>2 DEF CollectSloMetrics
    <3> QED
      BY <1>3, <2>2, <3>3, SloNames
  <2>3. CASE t = Generate
    <3>1. report' = xcom /\ xcom' = xcom
      BY <2>1, <2>3 DEF Effect, Generate, T
    <3> QED
      BY <2>1, <2>3, <3>1, SloNames
  <2>4. CASE t \notin {Collect, Generate}
    BY <2>1, <2>4 DEF Effect, Collect, Generate
  <2> QED
    BY <2>2, <2>3, <2>4
<1> QED
  BY <1>1, <1>2, <1>3 DEF Step

LEMMA SloMapsNothing ==
  ASSUME dag = "slo_daily_report", NEW t \in Tasks
  PROVE  ~NothingToMap(t)
<1>1. t \in {Collect, Generate, Branch, Send, Skip, Archive}
  BY SloShape
<1> QED
  BY <1>1 DEF NothingToMap, Collect, Generate, Branch, Send, Skip, Archive, T

LEMMA SloStep ==
  ASSUME TypeOK, Ordered, dag = "slo_daily_report", SloInv, NEW t \in Tasks, Step(t)
  PROVE  (SkippedByBranch /\ Branched /\ Collected /\ Reported /\ Alerted)'
<1>1. /\ dag' = dag /\ params' = params
      /\ state' \in [Tasks -> States] /\ state[t] \in {"none", "running", "retry"}
      /\ \A u \in Tasks : u # t =>
           \/ state'[u] = state[u]
           \/ /\ t = Branch /\ state[Branch] = "running" /\ state'[Branch] = "success"
              /\ Branch \in Upstream(u) /\ u # branch_on_slo_violation
              /\ state[u] \notin Started /\ state'[u] = "skipped"
  BY StateStep
<1>2. /\ Tasks = {Collect, Generate, Branch, Send, Skip, Archive}
      /\ \A v, u : u \in Upstream(v) <=>
           \/ (v = Generate /\ u = Collect)
           \/ (v = Branch /\ u = Generate)
           \/ (v \in {Send, Skip} /\ u = Branch)
           \/ (v = Archive /\ u \in {Send, Skip})
  BY SloShape
<1>3. Tasks' = Tasks
  BY <1>1 DEF Tasks
<1>4. /\ SkippedByBranch /\ Branched /\ Collected /\ Reported /\ Alerted
      /\ branch_on_slo_violation \in {Send, Skip}
  BY BranchesTo DEF SloInv
<1>5. /\ state[t] # "success" /\ state'[t] = "success" => Succeeds(t)
      /\ state[t] \in Started => state'[t] \in Started
      /\ state'[t] = "skipped" => GivesUp(t) /\ state[t] = "none"
  BY <1>1 DEF Step, Starts, GivesUp, Succeeds, Fails, FailsAt, TypeOK, Started
(* What the branch skips is what it did not choose.                         *)
<1>6. ASSUME NEW u \in Tasks, u \notin {t, Send, Skip} PROVE state'[u] = state[u]
  BY <1>1, <1>2, <1>6, SloNames
<1>7. state[Branch] = "success" => t \notin {Collect, Generate, Branch}
  BY <1>1, <1>2, SloNames DEF Ordered, Started
<1>8. xcom' = xcom \/ t = Collect
  BY SloWrites
<1>9. state[Branch] = "success" => branch_on_slo_violation' = branch_on_slo_violation
  BY <1>7, <1>8 DEF branch_on_slo_violation
<1>10. ASSUME state'[t] = "skipped" PROVE t \in {Send, Skip} /\ state[Branch] = "success"
  <2>1. /\ Before(t) \cap Bad = {}
        /\ IF NoneFailedMinOneSuccess(t) THEN Before(t) = {"skipped"}
           ELSE "skipped" \in Before(t)
    BY <1>5, <1>10, SloMapsNothing DEF GivesUp, TypeOK
  <2>2. CASE t = Archive
    <3>1. Before(t) = {"skipped"}
      BY <2>1, <2>2 DEF NoneFailedMinOneSuccess, Archive
    <3>2. state[Send] = "skipped" /\ state[Skip] = "skipped"
      BY <1>2, <2>2, <3>1 DEF Before
    <3>3. state[Branch] = "success"
      BY <1>2, <1>4, <3>2 DEF SkippedByBranch
    <3> QED
      BY <1>4, <3>2, <3>3 DEF Branched
  <2>3. CASE t # Archive
    <3>1. PICK u \in Upstream(t) : state[u] = "skipped"
      BY <2>1, <2>3 DEF NoneFailedMinOneSuccess, Archive, Before
    <3> QED
      BY <1>2, <1>4, <2>3, <3>1, SloNames DEF SkippedByBranch
  <2> QED
    BY <2>2, <2>3
<1>11. SkippedByBranch'
  <2>1. ASSUME NEW u \in Tasks, state'[u] = "skipped"
        PROVE  u \in {Send, Skip} /\ state'[Branch] = "success"
    <3>1. CASE u = t
      BY <1>2, <1>6, <1>7, <1>10, <2>1, <3>1, SloNames
    <3>2. CASE u # t /\ state'[u] = state[u]
      BY <1>2, <1>4, <1>6, <1>7, <2>1, <3>2, SloNames DEF SkippedByBranch
    <3>3. CASE u # t /\ state'[u] # state[u]
      BY <1>1, <1>2, <3>3, SloNames
    <3> QED
      BY <3>1, <3>2, <3>3
  <2> QED
    BY <1>3, <2>1 DEF SkippedByBranch
<1>12. Branched'
  <2> SUFFICES ASSUME state'[Branch] = "success" PROVE Branched'
    BY DEF Branched
  <2>1. CASE state[Branch] = "success"
    <3>1. /\ state[branch_on_slo_violation] # "skipped"
          /\ \A u \in {Send, Skip} : u # branch_on_slo_violation => state[u] = "skipped"
      BY <1>4, <2>1 DEF Branched
    <3>2. \A u \in {Send, Skip} : u # t => state'[u] = state[u]
      BY <1>1, <1>2, <1>7, <2>1
    <3>3. t \in {Send, Skip} => t = branch_on_slo_violation
      BY <1>1, <3>1
    <3>4. state'[branch_on_slo_violation] # "skipped"
      <4>1. CASE t = branch_on_slo_violation
        <5>1. ASSUME state'[t] = "skipped" PROVE FALSE
          <6>1. "skipped" \in Before(t)
            BY <1>4, <1>5, <4>1, <5>1, SloNames, SloMapsNothing
               DEF GivesUp, TypeOK, NoneFailedMinOneSuccess, Archive
          <6>2. Before(t) \subseteq {"success"}
            BY <1>2, <1>4, <2>1, <4>1, SloNames DEF Before
          <6> QED
            BY <6>1, <6>2
        <5> QED
          BY <4>1, <5>1
      <4>2. CASE t # branch_on_slo_violation
        BY <1>4, <3>1, <3>2, <4>2
      <4> QED
        BY <4>1, <4>2
    <3>5. \A u \in {Send, Skip} : u # branch_on_slo_violation => state'[u] = "skipped"
      BY <3>1, <3>2, <3>3
    <3> QED
      BY <1>9, <2>1, <3>4, <3>5 DEF Branched
  <2>2. CASE state[Branch] # "success"
    <3>1. t = Branch /\ Succeeds(t)
      BY <1>2, <1>5, <1>6, <2>2, SloNames
    <3>2. \A u \in Tasks : state'[u] =
            (IF u = t THEN "success"
             ELSE IF t = Branch /\ t \in Upstream(u) /\ u # branch_on_slo_violation
                  THEN "skipped"
             ELSE state[u])
      BY <3>1 DEF Succeeds, Branch
    <3>3. \A u \in {Send, Skip} : u # branch_on_slo_violation => state'[u] = "skipped"
      BY <1>2, <3>1, <3>2, SloNames
    <3>4. state'[branch_on_slo_violation] = state[branch_on_slo_violation]
      BY <1>2, <1>4, <3>1, <3>2, SloNames
    <3>5. state[branch_on_slo_violation] # "skipped"
      BY <1>2, <1>4, <2>2 DEF SkippedByBranch
    <3>6. branch_on_slo_violation' = branch_on_slo_violation
      BY <1>8, <3>1, SloNames DEF branch_on_slo_violation
    <3> QED
      BY <3>3, <3>4, <3>5, <3>6 DEF Branched
  <2> QED
    BY <2>1, <2>2
<1>13. Collected'
  <2>1. CASE t = Collect
    <3>1. Succeeds(t) => state'[t] = "success" /\ xcom'.any_violated = any_violated(xcom'.metrics)
      BY <2>1, SloWrites DEF Succeeds
    <3>2. ~Succeeds(t) => state'[t] # "success" /\ xcom' = xcom
      BY <1>1, <1>5, SloWrites
    <3> QED
      BY <1>1, <1>4, <2>1, <3>1, <3>2 DEF Collected, any_violated
  <2>2. CASE t # Collect
    BY <1>2, <1>4, <1>6, <1>8, <2>2, SloNames DEF Collected
  <2> QED
    BY <2>1, <2>2
<1>14. Reported'
  <2>1. CASE t = Collect
    <3>1. state[Generate] # "success"
      BY <1>1, <1>2, <2>1 DEF Ordered, Started
    <3> QED
      BY <1>2, <1>6, <2>1, <3>1, SloNames DEF Reported
  <2>2. CASE t = Generate
    BY <1>1, <1>5, <2>2, SloWrites, SloNames DEF Reported
  <2>3. CASE t \notin {Collect, Generate}
    BY <1>2, <1>4, <1>6, <2>3, SloWrites, SloNames DEF Reported
  <2> QED
    BY <2>1, <2>2, <2>3
<1>15. Alerted'
  <2>1. /\ t = Send /\ Succeeds(t) => Tell(sent', "slo", Send) # {}
        /\ Tell(sent, "slo", Send) # {} => Tell(sent', "slo", Send) # {}
        /\ Tell(sent', "slo", Send) # {} =>
             Tell(sent, "slo", Send) # {} \/ (t = Send /\ state[t] = "running")
    BY TellStep
  <2>2. state'[Send] = "success" => Tell(sent', "slo", Send) # {}
    BY <1>1, <1>2, <1>4, <1>5, <2>1 DEF Alerted
  <2>3. Tell(sent', "slo", Send) # {} => state'[Send] \in Started
    BY <1>1, <1>2, <1>4, <1>5, <2>1 DEF Alerted, Started
  <2> QED
    BY <2>2, <2>3 DEF Alerted
<1> QED
  BY <1>11, <1>12, <1>13, <1>14, <1>15

LEMMA SloAlways == Spec => []SloInv
<1>1. Fresh => SloInv
  <2> SUFFICES ASSUME Fresh, dag = "slo_daily_report"
               PROVE  SkippedByBranch /\ Branched /\ Collected /\ Reported /\ Alerted
    BY DEF SloInv
  <2>1. /\ \A t \in Tasks : state[t] = "none"
        /\ Tell(sent, "slo", Send) = {} /\ xcom = None
    BY FreshNothing DEF Fresh
  <2>2. {Collect, Generate, Branch, Send, Skip} \subseteq Tasks
    BY SloShape
  <2> QED
    BY <2>1, <2>2 DEF SkippedByBranch, Branched, Collected, Reported, Alerted
<1>2. TypeOK /\ Ordered /\ SloInv /\ [Next]_vars => SloInv' \/ Fresh'
  <2> SUFFICES ASSUME TypeOK, Ordered, SloInv, [Next]_vars PROVE SloInv' \/ Fresh'
    OBVIOUS
  <2>1. CASE Trigger
    BY <2>1, TriggerFresh
  <2>2. ASSUME NEW t \in Tasks, Step(t) PROVE SloInv'
    <3>1. dag' = dag
      BY <2>2, StateStep
    <3> QED
      BY <2>2, <3>1, SloStep DEF SloInv
  <2>3. CASE UNCHANGED vars
    BY <2>3 DEF vars, SloInv, SkippedByBranch, Branched, Collected, Reported, Alerted, Tasks,
                Tell, branch_on_slo_violation, any_violated
  <2> QED
    BY <2>1, <2>2, <2>3 DEF Next, Step
<1>3. Init => Fresh
  BY InitFresh
<1> QED
  BY <1>1, <1>2, <1>3, Types, PTL DEF Spec

(* What the end of a run means.                                             *)
LEMMA SloEnd ==
  ASSUME TypeOK, Ordered, GivenUp, SloInv, dag = "slo_daily_report", Ended
  PROVE  /\ (\A t \in Tasks : state[t] \notin Bad) => state[Archive] = "success"
         /\ state[Archive] = "success" =>
              \A t \in Tasks : state[t] \in {"success", "skipped"}
         /\ (\A t \in Tasks : state[t] \in {"success", "skipped"}) =>
              /\ report = xcom
              /\ xcom.any_violated = any_violated(xcom.metrics)
              /\ any_violated(xcom.metrics) <=> Tell(sent, "slo", Send) # {}
<1>1. /\ Tasks = {Collect, Generate, Branch, Send, Skip, Archive}
      /\ \A v, u : u \in Upstream(v) <=>
           \/ (v = Generate /\ u = Collect)
           \/ (v = Branch /\ u = Generate)
           \/ (v \in {Send, Skip} /\ u = Branch)
           \/ (v = Archive /\ u \in {Send, Skip})
  BY SloShape
<1>2. SkippedByBranch /\ Branched /\ Collected /\ Reported /\ Alerted
  BY DEF SloInv
<1>3. /\ \A t \in Tasks : state[t] \in {"success", "failed", "upstream_failed", "skipped"}
      /\ \A t \in {Collect, Generate, Branch, Archive} : state[t] # "skipped"
  BY <1>1, <1>2, SloNames DEF Ended, Over, SkippedByBranch
<1>4. (\A t \in Tasks : state[t] \notin Bad) => state[Archive] = "success"
  BY <1>1, <1>3 DEF Bad
<1>5. ASSUME state[Archive] = "success"
      PROVE  \A t \in Tasks : state[t] \in {"success", "skipped"}
  <2>1. state[Send] \in {"success", "skipped"} /\ state[Skip] \in {"success", "skipped"}
    BY <1>1, <1>5 DEF Ordered, Started
  <2>2. state[Branch] = "success"
    BY <1>1, <1>2, <2>1, SloNames DEF Ordered, Started, SkippedByBranch
  <2>3. state[Generate] = "success"
    BY <1>1, <2>2, SloNames DEF Ordered, Started
  <2>4. state[Collect] = "success"
    BY <1>1, <2>3, SloNames DEF Ordered, Started
  <2> QED
    BY <1>1, <1>5, <2>1, <2>2, <2>3, <2>4
<1>6. ASSUME \A t \in Tasks : state[t] \in {"success", "skipped"}
      PROVE  /\ report = xcom
             /\ xcom.any_violated = any_violated(xcom.metrics)
             /\ any_violated(xcom.metrics) <=> Tell(sent, "slo", Send) # {}
  <2>1. \A t \in {Collect, Generate, Branch} : state[t] = "success"
    BY <1>1, <1>3, <1>6
  <2>2. report = xcom /\ xcom.any_violated = any_violated(xcom.metrics)
    BY <1>2, <2>1 DEF Collected, Reported
  <2>3. CASE any_violated(xcom.metrics)
    <3>1. branch_on_slo_violation = Send
      BY <2>2, <2>3 DEF branch_on_slo_violation, Send, any_violated
    <3>2. state[Send] = "success"
      BY <1>1, <1>2, <1>6, <2>1, <3>1 DEF Branched
    <3> QED
      BY <1>2, <2>2, <2>3, <3>2 DEF Alerted
  <2>4. CASE ~any_violated(xcom.metrics)
    <3>1. branch_on_slo_violation = Skip
      BY <2>2, <2>4 DEF branch_on_slo_violation, Skip, any_violated
    <3>2. state[Send] = "skipped"
      BY <1>2, <2>1, <3>1, SloNames DEF Branched
    <3> QED
      BY <1>2, <2>2, <2>4, <3>2 DEF Alerted, Started
  <2> QED
    BY <2>3, <2>4
<1> QED
  BY <1>4, <1>5, <1>6

(* Whatever fails: a day with a violation ends with an alert handed over or *)
(* the failure of a task told.                                              *)
THEOREM ViolationsTold == Spec => []NoSilentViolation
<1>1. ASSUME TypeOK, Ordered, GivenUp, Counted, SloInv PROVE NoSilentViolation
  <2> SUFFICES ASSUME dag = "slo_daily_report", Ended, any_violated(xcom.metrics),
                      \A t \in Tasks : Told("failure", t) = {}
               PROVE  Told("slo", Send) # {}
    BY DEF NoSilentViolation, any_violated, Send
  <2>1. \A kind, t : Told(kind, t) = Tell(sent, kind, t)
    BY DEF Told, Tell
  <2>2. \A t \in Tasks : state[t] # "failed"
    BY <1>1, <2>1, FS_EmptySet DEF Counted
  <2>3. \A t \in Tasks : state[t] \in {"success", "skipped"}
    BY <1>1, <2>2 DEF GivenUp, Ended, Over
  <2>4. any_violated(xcom.metrics) <=> Tell(sent, "slo", Send) # {}
    BY <1>1, <2>3, SloEnd
  <2> QED
    BY <2>1, <2>4
<1> QED
  BY <1>1, Types, ToldOnce, SloAlways, PTL

(* archive_report ends the runs in which nothing failed and no others, and  *)
(* then the report and the alert are those of what was measured.            *)
THEOREM ArchivedComplete == Spec => []ArchiveMeansComplete
<1>1. ASSUME TypeOK, Ordered, GivenUp, SloInv PROVE ArchiveMeansComplete
  <2> SUFFICES ASSUME dag = "slo_daily_report", Ended
               PROVE  /\ (state[Archive] = "success") = (\A t \in Tasks : state[t] \notin Bad)
                      /\ state[Archive] = "success" =>
                           /\ report = xcom
                           /\ xcom.any_violated = (Told("slo", Send) # {})
    BY DEF ArchiveMeansComplete, Archive, Send
  <2>1. /\ (\A t \in Tasks : state[t] \notin Bad) => state[Archive] = "success"
        /\ state[Archive] = "success" =>
             \A t \in Tasks : state[t] \in {"success", "skipped"}
    BY <1>1, SloEnd
  <2>2. state[Archive] = "success" =>
          /\ report = xcom
          /\ xcom.any_violated = any_violated(xcom.metrics)
          /\ any_violated(xcom.metrics) <=> Tell(sent, "slo", Send) # {}
    BY <1>1, <2>1, SloEnd
  <2>3. Told("slo", Send) = Tell(sent, "slo", Send)
    BY DEF Told, Tell
  <2>4. any_violated(xcom.metrics) \in BOOLEAN
    BY DEF any_violated
  <2>5. (state[Archive] = "success") = (\A t \in Tasks : state[t] \notin Bad)
    BY <2>1 DEF Bad
  <2>6. state[Archive] = "success" => xcom.any_violated = (Told("slo", Send) # {})
    BY <2>2, <2>3, <2>4
  <2> QED
    BY <2>2, <2>5, <2>6
<1> QED
  BY <1>1, Types, ToldOnce, SloAlways, PTL
-----------------------------------------------------------------------------
(* The hours of a backfill.                                                 *)
LEMMA Div60 ==
  \A a \in Nat : /\ a \div 60 \in Nat /\ a % 60 \in 0..59
                 /\ a = 60 * (a \div 60) + (a % 60)
OBVIOUS

LEMMA Div60Is ==
  \A q \in Nat, r \in 0..59 : (60 * q + r) \div 60 = q /\ (60 * q + r) % 60 = r
OBVIOUS

(* The hours from that of start, one after the other.                       *)
LEMMA HourOf ==
  ASSUME NEW s \in Nat, NEW k \in Nat PROVE (s + 60 * k) \div 60 = s \div 60 + k
<1> DEFINE q == s \div 60
<1> DEFINE r == s % 60
<1>1. q \in Nat /\ r \in 0..59 /\ s = 60 * q + r
  BY Div60
<1> HIDE DEF q, r
<1>2. s + 60 * k = 60 * (q + k) + r /\ q + k \in Nat
  BY <1>1
<1> QED
  BY <1>1, <1>2, Div60Is DEF q

LEMMA Hours ==
  ASSUME NEW p, p.start \in Nat, p.end \in Nat, p.start < p.end
  PROVE  LET last == (p.end - 1) \div 60
             wanted == (p.start \div 60)..last
             done == generate_hourly_partitions(p)
         IN  /\ done # {} /\ done \subseteq wanted /\ wanted \ done \subseteq {last}
             /\ last \notin done => p.end % 60 \in 1..(p.start % 60)
<1> DEFINE done == generate_hourly_partitions(p)
<1>1. PICK s \in Nat : s = p.start
  OBVIOUS
<1>2. PICK e \in Nat : e = p.end
  OBVIOUS
<1>3. PICK q \in Nat, r \in 0..59 : q = s \div 60 /\ r = s % 60 /\ s = 60 * q + r
  BY Div60
<1>4. s < e /\ e - 1 \in Nat
  BY <1>1, <1>2
<1>5. PICK last \in Nat, x \in 0..59 : last = (e - 1) \div 60 /\ e - 1 = 60 * last + x
  BY <1>4, Div60
<1>6. \A h : h \in done <=> \E k \in 0..e : s + 60 * k < e /\ h = q + k
  <2>1. \A k \in 0..e : (s + 60 * k) \div 60 = q + k
    BY <1>3, HourOf
  <2>2. done = {(s + 60 * k) \div 60 : k \in {n \in 0..e : s + 60 * n < e}}
    BY <1>1, <1>2 DEF generate_hourly_partitions
  <2> HIDE DEF done
  <2> QED
    BY <2>1, <2>2
<1> HIDE DEF done
<1>7. q \in done
  <2>1. 0 \in 0..e /\ s + 60 * 0 < e /\ q = q + 0
    BY <1>4
  <2> QED
    BY <1>6, <2>1
<1>8. done \subseteq q..last
  <2>1. ASSUME NEW h \in done PROVE h \in q..last
    <3>1. PICK k \in 0..e : s + 60 * k < e /\ h = q + k
      BY <1>6
    <3>2. 60 * (q + k) + r <= 60 * last + x
      BY <1>3, <1>5, <3>1
    <3> QED
      BY <3>1, <3>2
  <2> QED
    BY <2>1
<1>9. ASSUME NEW h \in q..last, 60 * h + r <= e - 1 PROVE h \in done
  <2>1. PICK k \in Nat : h = q + k
    <3>1. h - q \in Nat /\ h = q + (h - q)
      OBVIOUS
    <3> QED
      BY <3>1
  <2>2. s + 60 * k = 60 * h + r
    BY <1>3, <2>1
  <2>3. k \in 0..e /\ s + 60 * k < e
    BY <1>9, <2>1, <2>2
  <2> QED
    BY <1>6, <2>1, <2>3
<1>10. (q..last) \ done \subseteq {last}
  <2>1. ASSUME NEW h \in q..last, h # last PROVE h \in done
    <3>1. h <= last - 1
      BY <2>1
    <3>2. 60 * h + r <= e - 1
      BY <1>5, <3>1
    <3> QED
      BY <1>9, <3>2
  <2> QED
    BY <2>1
<1>11. ASSUME last \notin done PROVE e % 60 \in 1..r
  <2>1. last \in q..last
    BY <1>7, <1>8
  <2>2. ~(60 * last + r <= e - 1)
    BY <1>9, <1>11, <2>1
  <2>3. x + 1 \in 1..r /\ x + 1 \in 0..59 /\ e = 60 * last + (x + 1)
    BY <1>5, <2>2
  <2>4. e % 60 = x + 1
    BY <2>3, Div60Is
  <2> QED
    BY <2>3, <2>4
<1> QED
  BY <1>1, <1>2, <1>3, <1>5, <1>7, <1>8, <1>10, <1>11 DEF done

(* The task that has nothing to expand is never started.                    *)
Mappable == \A t \in Tasks : NothingToMap(t) => state[t] \notin Started

LEMMA MappableAlways == Spec => []Mappable
<1>1. Fresh => Mappable
  BY FreshNothing DEF Mappable, Started
<1>2. TypeOK /\ Ordered /\ Mappable /\ [Next]_vars => Mappable' \/ Fresh'
  <2> SUFFICES ASSUME TypeOK, Ordered, Mappable, [Next]_vars PROVE Mappable' \/ Fresh'
    OBVIOUS
  <2>1. CASE Trigger
    BY <2>1, TriggerFresh
  <2>2. ASSUME NEW t \in Tasks, Step(t) PROVE Mappable'
    <3>1. /\ dag' = dag /\ params' = params
          /\ \A u \in Tasks : u # t => state'[u] = state[u] \/ state'[u] = "skipped"
      BY <2>2, StateStep
    <3>2. Tasks' = Tasks /\ \A u : NothingToMap(u)' = NothingToMap(u)
      BY <3>1 DEF Tasks, NothingToMap
    <3> SUFFICES ASSUME NEW u \in Tasks, NothingToMap(u) PROVE state'[u] \notin Started
      BY <3>2 DEF Mappable
    <3>3. state[u] \notin Started
      BY DEF Mappable
    <3>4. CASE u # t
      BY <3>1, <3>3, <3>4 DEF Started
    <3>5. CASE u = t
      <4>1. GivesUp(t)
        BY <2>2, <3>3, <3>5 DEF Step, Starts, Ready, Succeeds, Fails, Started
      <4> QED
        BY <3>5, <4>1 DEF GivesUp, TypeOK, Started
    <3> QED
      BY <3>4, <3>5
  <2>3. CASE UNCHANGED vars
    BY <2>3 DEF vars, Mappable, Tasks, NothingToMap
  <2> QED
    BY <2>1, <2>2, <2>3 DEF Next, Step
<1>3. Init => Fresh
  BY InitFresh
<1> QED
  BY <1>1, <1>2, <1>3, Types, PTL DEF Spec

(* For any start and end: of the hours asked for a verified backfill misses *)
(* at most the last, and this one only if start is later in its hour than   *)
(* end is.                                                                  *)
THEOREM HoursDone == Spec => []HoursCovered
<1>1. ASSUME TypeOK, Ordered, Mappable PROVE HoursCovered
  <2> DEFINE done == {t[2] : t \in {u \in Tasks : u[1] = "process_partition"
                                              /\ state[u] = "success"}}
  <2> SUFFICES ASSUME dag = "backfill_silver_from_bronze", state[Verify] = "success"
               PROVE  LET last == (params.end - 1) \div 60
                          wanted == (params.start \div 60)..last
                      IN  /\ done \subseteq wanted /\ wanted \ done \subseteq {last}
                          /\ last \notin done => params.end % 60 \in 1..(params.start % 60)
    BY DEF HoursCovered, Verify
  <2>1. /\ {Validate, Partitions, Verify} \union Mapped(params) \subseteq Tasks
        /\ Tasks \subseteq {Validate, Partitions, Verify, T("post_backfill_summary")}
                             \union Mapped(params)
        /\ Validate \in Upstream(Partitions)
        /\ \A t \in Mapped(params) : Partitions \in Upstream(t) /\ t \in Upstream(Verify)
    BY BackfillShape
  <2>2. \A t \in Mapped(params) : t[1] = "process_partition"
    BY DEF Mapped, T
  <2>3. Mapped(params) # {}
    BY DEF Mapped
  <2>4. \A t \in Mapped(params) : state[t] = "success"
    BY <1>1, <2>1 DEF Ordered, Started, Verify, Archive, T
  <2>5. generate_hourly_partitions(params) # {}
    <3> SUFFICES ASSUME generate_hourly_partitions(params) = {} PROVE FALSE
      OBVIOUS
    <3>1. T("process_partition") \in Mapped(params) /\ NothingToMap(T("process_partition"))
      BY DEF Mapped, NothingToMap
    <3> QED
      BY <1>1, <2>1, <2>4, <3>1 DEF Mappable, Started
  <2>6. params.start \in Nat /\ params.end \in Nat
    BY <1>1, ConstantsAssumption DEF TypeOK, ParamsOf
  <2>7. params.start < params.end
    <3>1. PICK k \in 0..params.end : params.start + 60 * k < params.end
      BY <2>5 DEF generate_hourly_partitions
    <3> QED
      BY <2>6, <3>1
  <2>9. done = generate_hourly_partitions(params)
    <3>1. {u \in Tasks : u[1] = "process_partition" /\ state[u] = "success"} = Mapped(params)
      BY <2>1, <2>2, <2>4 DEF Validate, Partitions, Verify, T
    <3>2. Mapped(params) = {<<"process_partition", h>> : h \in generate_hourly_partitions(params)}
      BY <2>5 DEF Mapped
    <3> HIDE DEF done
    <3>3. done = {t[2] : t \in Mapped(params)}
      BY <3>1 DEF done
    <3>4. \A h : <<"process_partition", h>>[2] = h
      OBVIOUS
    <3>5. ASSUME NEW h \in generate_hourly_partitions(params) PROVE h \in done
      <4>1. <<"process_partition", h>> \in Mapped(params)
        BY <3>2
      <4> QED
        BY <3>3, <3>4, <4>1
    <3>6. ASSUME NEW h \in done PROVE h \in generate_hourly_partitions(params)
      <4>1. PICK t \in Mapped(params) : h = t[2]
        BY <3>3
      <4>2. PICK g \in generate_hourly_partitions(params) : t = <<"process_partition", g>>
        BY <3>2, <4>1
      <4> QED
        BY <3>4, <4>1, <4>2
    <3> QED
      BY <3>5, <3>6
  <2> HIDE DEF done
  <2> QED
    BY <2>6, <2>7, <2>9, Hours
<1> QED
  BY <1>1, Types, MappableAlways, PTL
-----------------------------------------------------------------------------
(* Least elements, and induction from them.                                 *)
LEMMA LeastOf ==
  ASSUME NEW S \in SUBSET Nat, S # {}
  PROVE  \E x \in S : \A y \in S : x <= y
<1>1. \E x \in S : \A y \in S : ~(<<y, x>> \in OpToRel(<, Nat))
  BY NatLessThanWellFounded, WFMin, Zenon
<1>2. PICK x \in S : \A y \in S : ~(<<y, x>> \in OpToRel(<, Nat))
  BY <1>1
<1>3. ASSUME NEW y \in S PROVE x <= y
  <2>1. x \in Nat /\ y \in Nat
    OBVIOUS
  <2>2. <<y, x>> \in Nat \X Nat /\ <<y, x>>[1] = y /\ <<y, x>>[2] = x
    BY <2>1
  <2>3. y < x => <<y, x>> \in OpToRel(<, Nat)
    BY <2>2 DEF OpToRel
  <2>4. ~(<<y, x>> \in OpToRel(<, Nat))
    BY <1>2, Zenon
  <2>5. ~(y < x)
    BY <2>3, <2>4, Zenon
  <2> QED
    BY <2>1, <2>5
<1> QED
  BY <1>3

LEMMA Induct ==
  ASSUME NEW S, 0 \in S, \A n \in Nat : n \in S => n + 1 \in S
  PROVE  Nat \subseteq S
<1> SUFFICES ASSUME Nat \ S # {} PROVE FALSE
  OBVIOUS
<1>1. PICK x \in Nat \ S : \A y \in Nat \ S : x <= y
  BY LeastOf
<1>2. x # 0 /\ x - 1 \in Nat /\ x - 1 \notin Nat \ S
  BY <1>1
<1> QED
  BY <1>1, <1>2

-----------------------------------------------------------------------------
(* The sorted samples.                                                      *)
LEMMA UpToBounds ==
  ASSUME NEW s \in Seq(Nat), NEW v \in Int
  PROVE  /\ UpTo(s, v) \in 0..Len(s)
         /\ Cardinality({j \in 1..Len(s) : s[j] > v}) = Len(s) - UpTo(s, v)
         /\ (\A j \in 1..Len(s) : s[j] > v) => UpTo(s, v) = 0
         /\ (\A j \in 1..Len(s) : s[j] <= v) => UpTo(s, v) = Len(s)
<1> DEFINE D == 1..Len(s)
<1> DEFINE A == {j \in D : s[j] <= v}
<1> DEFINE B == {j \in D : s[j] > v}
<1>1. IsFiniteSet(D) /\ Cardinality(D) = Len(s) /\ Len(s) \in Nat
  <2>1. PICK n \in Nat : n = Len(s)
    OBVIOUS
  <2>2. 1 \in Int /\ n \in Int
    BY <2>1
  <2>3. IsFiniteSet(1..n) /\ Cardinality(1..n) = IF 1 > n THEN 0 ELSE n - 1 + 1
    BY <2>2, FS_Interval, Zenon
  <2>4. n = (IF 1 > n THEN 0 ELSE n - 1 + 1)
    OBVIOUS
  <2> QED
    BY <2>1, <2>3, <2>4
<1>2. A \subseteq D /\ D \ A = B /\ D \cap A = A
  OBVIOUS
<1> HIDE DEF D, A, B
<1>3. IsFiniteSet(A) /\ Cardinality(A) \in Nat /\ Cardinality(A) <= Len(s)
  BY <1>1, <1>2, FS_Subset, FS_CardinalityType
<1>4. Cardinality(B) = Len(s) - Cardinality(A)
  <2>1. Cardinality(D \ A) = Cardinality(D) - Cardinality(D \cap A)
    BY <1>1, FS_Difference, Zenon
  <2> QED
    BY <1>1, <1>2, <2>1
<1>5. UpTo(s, v) = Cardinality(A)
  BY DEF UpTo, A, D
<1>6. (\A j \in 1..Len(s) : s[j] > v) => A = {}
  BY DEF A, D
<1>7. (\A j \in 1..Len(s) : s[j] <= v) => A = D
  BY DEF A, D
<1> QED
  BY <1>1, <1>3, <1>4, <1>5, <1>6, <1>7, FS_EmptySet DEF B, D

LEMMA UpToGrows ==
  ASSUME NEW s \in Seq(Nat), NEW v \in Int, NEW w \in Int, v <= w
  PROVE  UpTo(s, v) <= UpTo(s, w)
<1>1. {j \in 1..Len(s) : s[j] <= v} \subseteq {j \in 1..Len(s) : s[j] <= w}
  OBVIOUS
<1>2. IsFiniteSet(1..Len(s))
  BY FS_Interval
<1>3. IsFiniteSet({j \in 1..Len(s) : s[j] <= w})
  BY <1>2, FS_Subset
<1> QED
  BY <1>1, <1>3, FS_Subset DEF UpTo

LEMMA Bounded ==
  ASSUME NEW s \in Seq(Nat) PROVE \E b \in Nat : \A i \in 1..Len(s) : s[i] <= b
<1> DEFINE S == {n \in Nat : \E b \in Nat : \A i \in 1..Len(s) : i <= n => s[i] <= b}
<1>1. 0 \in S
  <2>1. \A i \in 1..Len(s) : i <= 0 => s[i] <= 0
    OBVIOUS
  <2> QED
    BY <2>1
<1>2. ASSUME NEW n \in Nat, n \in S PROVE n + 1 \in S
  <2>1. PICK b \in Nat : \A i \in 1..Len(s) : i <= n => s[i] <= b
    BY <1>2
  <2>2. CASE n + 1 \in 1..Len(s)
    <3>1. PICK c \in Nat : c >= b /\ c >= s[n + 1]
      <4>1. s[n + 1] \in Nat
        BY <2>2
      <4>2. b + s[n + 1] \in Nat /\ b + s[n + 1] >= b /\ b + s[n + 1] >= s[n + 1]
        BY <4>1
      <4> QED
        BY <4>2
    <3>2. ASSUME NEW i \in 1..Len(s), i <= n + 1 PROVE s[i] <= c
      <4>1. i = n + 1 \/ i <= n
        BY <3>2
      <4>2. s[i] \in Nat
        OBVIOUS
      <4>3. CASE i = n + 1
        BY <3>1, <4>3
      <4>4. CASE i <= n
        <5>1. s[i] <= b
          BY <2>1, <4>4
        <5> QED
          BY <3>1, <4>2, <5>1
      <4> QED
        BY <4>1, <4>3, <4>4
    <3>3. n + 1 \in Nat /\ \A i \in 1..Len(s) : i <= n + 1 => s[i] <= c
      BY <3>2
    <3> QED
      BY <3>3, Zenon
  <2>3. CASE n + 1 \notin 1..Len(s)
    <3>1. ASSUME NEW i \in 1..Len(s), i <= n + 1 PROVE s[i] <= b
      <4>1. i <= n
        BY <2>3, <3>1
      <4> QED
        BY <2>1, <4>1
    <3>2. n + 1 \in Nat /\ \A i \in 1..Len(s) : i <= n + 1 => s[i] <= b
      BY <3>1
    <3> QED
      BY <3>2, Zenon
  <2> QED
    BY <2>2, <2>3
<1> HIDE DEF S
<1>3. Len(s) \in S
  <2>1. Nat \subseteq S
    BY <1>1, <1>2, Induct
  <2> QED
    BY <2>1
<1>4. PICK b \in Nat : \A i \in 1..Len(s) : i <= Len(s) => s[i] <= b
  BY <1>3 DEF S
<1>5. \A i \in 1..Len(s) : i <= Len(s)
  OBVIOUS
<1> QED
  BY <1>4, <1>5, Zenon

LEMMA UpToNat == \A s \in Seq(Nat), v \in Int : UpTo(s, v) \in Nat
<1> SUFFICES ASSUME NEW s \in Seq(Nat), NEW v \in Int PROVE UpTo(s, v) \in Nat
  OBVIOUS
<1>1. UpTo(s, v) \in 0..Len(s)
  BY UpToBounds, Zenon
<1> QED
  BY <1>1

(* There is an i-th smallest.                                               *)
LEMMA Ith ==
  ASSUME NEW s \in Seq(Nat), NEW i \in 1..Len(s)
  PROVE  \E v \in {s[j] : j \in 1..Len(s)} : UpTo(s, v - 1) < i /\ i <= UpTo(s, v)
<1> DEFINE S == {v \in Nat : i <= UpTo(s, v)}
<1>1. PICK b \in Nat : \A j \in 1..Len(s) : s[j] <= b
  BY Bounded
<1>2. b \in S
  <2>1. b \in Int /\ i <= Len(s)
    OBVIOUS
  <2>2. UpTo(s, b) = Len(s)
    BY <1>1, <2>1, UpToBounds, Zenon
  <2> QED
    BY <2>1, <2>2
<1>3. PICK v \in S : \A w \in S : v <= w
  BY <1>2, LeastOf
<1>4. v \in Nat /\ i <= UpTo(s, v) /\ v - 1 \in Int /\ UpTo(s, v - 1) \in Nat
  <2>1. v \in Nat /\ i <= UpTo(s, v) /\ v - 1 \in Int
    BY <1>3
  <2> QED
    BY <2>1, UpToNat, Zenon
<1>5. UpTo(s, v - 1) < i
  <2>1. CASE v = 0
    <3>1. \A j \in 1..Len(s) : s[j] > v - 1
      BY <2>1
    <3>2. UpTo(s, v - 1) = 0
      BY <1>4, <3>1, UpToBounds, Zenon
    <3> QED
      BY <3>2
  <2>2. CASE v # 0
    <3>1. v - 1 \in Nat /\ ~(v <= v - 1)
      BY <1>4, <2>2
    <3>2. v - 1 \notin S
      BY <1>3, <3>1
    <3> QED
      BY <1>4, <3>1, <3>2
  <2> QED
    BY <2>1, <2>2
<1>6. \E j \in 1..Len(s) : s[j] = v
  <2> SUFFICES ASSUME \A j \in 1..Len(s) : s[j] # v PROVE FALSE
    OBVIOUS
  <2>1. \A j \in 1..Len(s) : s[j] <= v <=> s[j] <= v - 1
    BY <1>4
  <2>2. UpTo(s, v) = UpTo(s, v - 1)
    BY <2>1 DEF UpTo
  <2> QED
    BY <1>4, <1>5, <2>2
<1> QED
  BY <1>4, <1>5, <1>6

(* Sorted(s) is in order, and as many of it as of s are h or less.          *)
LEMMA SortedIs ==
  ASSUME NEW s \in Seq(Nat)
  PROVE  /\ Sorted(s) \in Seq(Nat) /\ Len(Sorted(s)) = Len(s)
         /\ \A i \in 1..Len(s), h \in Nat : Sorted(s)[i] <= h <=> i <= UpTo(s, h)
         /\ \A i, j \in 1..Len(s) : i <= j => Sorted(s)[i] <= Sorted(s)[j]
<1> DEFINE t == Sorted(s)
<1>1. t = [i \in 1..Len(s) |-> CHOOSE v \in {s[j] : j \in 1..Len(s)} :
                               UpTo(s, v - 1) < i /\ i <= UpTo(s, v)]
  BY DEF Sorted
<1> HIDE DEF t
<1>2. ASSUME NEW i \in 1..Len(s)
      PROVE  /\ t[i] \in {s[j] : j \in 1..Len(s)}
             /\ UpTo(s, t[i] - 1) < i /\ i <= UpTo(s, t[i])
  <2>1. t[i] = CHOOSE v \in {s[j] : j \in 1..Len(s)} : UpTo(s, v - 1) < i /\ i <= UpTo(s, v)
    BY <1>1
  <2> QED
    BY <2>1, Ith
<1>3. \A i \in 1..Len(s) : t[i] \in Nat
  BY <1>2
<1>4. t \in Seq(Nat) /\ Len(t) = Len(s)
  <2>1. PICK n \in Nat : n = Len(s)
    OBVIOUS
  <2>2. DOMAIN t = 1..n /\ \A i \in 1..n : t[i] \in Nat
    BY <1>1, <1>3, <2>1
  <2>3. t = [i \in 1..n |-> t[i]]
    BY <1>1, <2>1
  <2>4. t \in [1..n -> Nat]
    BY <2>2, <2>3
  <2> QED
    BY <2>1, <2>4
<1>5. ASSUME NEW i \in 1..Len(s), NEW h \in Nat PROVE t[i] <= h <=> i <= UpTo(s, h)
  <2>1. /\ t[i] \in Nat /\ UpTo(s, t[i] - 1) < i /\ i <= UpTo(s, t[i])
        /\ t[i] - 1 \in Int /\ t[i] \in Int /\ h \in Int
    BY <1>2, <1>3
  <2>2. /\ UpTo(s, t[i] - 1) \in Nat /\ UpTo(s, t[i]) \in Nat /\ UpTo(s, h) \in Nat
    BY <2>1, UpToNat, Zenon
  <2>3. t[i] <= h => UpTo(s, t[i]) <= UpTo(s, h)
    BY <2>1, UpToGrows
  <2>4. ~(t[i] <= h) => UpTo(s, h) <= UpTo(s, t[i] - 1)
    <3>1. ~(t[i] <= h) => h <= t[i] - 1
      BY <2>1
    <3> QED
      BY <2>1, <3>1, UpToGrows
  <2> QED
    BY <2>1, <2>2, <2>3, <2>4
<1>6. ASSUME NEW i \in 1..Len(s), NEW j \in 1..Len(s), i <= j PROVE t[i] <= t[j]
  <2>1. j <= UpTo(s, t[j]) /\ t[j] \in Nat
    BY <1>2, <1>3
  <2>2. UpTo(s, t[j]) \in Nat
    <3>1. t[j] \in Int
      BY <2>1
    <3> QED
      BY <3>1, UpToNat, Zenon
  <2> QED
    BY <1>5, <1>6, <2>1, <2>2
<1> QED
  BY <1>4, <1>5, <1>6 DEF t
-----------------------------------------------------------------------------
(* The percentiles.                                                         *)
LEMMA Div100 ==
  \A a \in Nat : /\ a \div 100 \in Nat /\ a % 100 \in 0..99
                 /\ a = 100 * (a \div 100) + (a % 100)
OBVIOUS

LEMMA Div100Is ==
  \A a \in Nat : \E q \in Nat, r \in 0..99 :
    q = a \div 100 /\ r = a % 100 /\ a = 100 * q + r
BY Div100

LEMMA RoundBetween ==
  ASSUME NEW v \in Nat
  PROVE  /\ Round(v, 100) \in Nat
         /\ v \div 100 <= Round(v, 100) /\ Round(v, 100) <= v \div 100 + 1
         /\ \A b \in Nat : v <= 100 * b => Round(v, 100) <= b
<1>1. PICK q \in Nat, r \in 0..99 : q = v \div 100 /\ r = v % 100 /\ v = 100 * q + r
  BY Div100Is, Zenon
<1>2. Round(v, 100) = IF 2 * r < 100 \/ (2 * r = 100 /\ q % 2 = 0) THEN q ELSE q + 1
  BY <1>1 DEF Round
<1>3. ASSUME NEW b \in Nat, v <= 100 * b PROVE Round(v, 100) <= b
  <2>1. q < b \/ (q = b /\ r = 0)
    BY <1>1, <1>3
  <2> QED
    BY <1>2, <2>1
<1> QED
  BY <1>1, <1>2, <1>3

LEMMA RoundGrows ==
  ASSUME NEW v \in Nat, NEW w \in Nat, v <= w PROVE Round(v, 100) <= Round(w, 100)
<1>1. PICK q \in Nat, r \in 0..99 : q = v \div 100 /\ r = v % 100 /\ v = 100 * q + r
  BY Div100Is, Zenon
<1>2. PICK p \in Nat, z \in 0..99 : p = w \div 100 /\ z = w % 100 /\ w = 100 * p + z
  BY Div100Is, Zenon
<1>3. /\ Round(v, 100) = IF 2 * r < 100 \/ (2 * r = 100 /\ q % 2 = 0) THEN q ELSE q + 1
      /\ Round(w, 100) = IF 2 * z < 100 \/ (2 * z = 100 /\ p % 2 = 0) THEN p ELSE p + 1
  BY <1>1, <1>2 DEF Round
<1>4. q < p \/ (q = p /\ r <= z)
  BY <1>1, <1>2
<1> QED
  BY <1>3, <1>4

(* Percentile with the rank of p given, in hundredths.                      *)
AtRank(s, r) ==
  IF r % 100 = 0 THEN s[r \div 100 + 1]
  ELSE Round(100 * s[r \div 100 + 1]
               + (s[r \div 100 + 2] - s[r \div 100 + 1]) * (r % 100), 100)

InOrder(s) == \A i, j \in 1..Len(s) : i <= j => s[i] <= s[j]

LEMMA Between ==
  ASSUME NEW a \in Nat, NEW b \in Nat, a <= b, NEW f \in 0..100, NEW g \in 0..100, f <= g
  PROVE  /\ 100 * a + (b - a) * f \in Nat
         /\ 100 * a <= 100 * a + (b - a) * f /\ 100 * a + (b - a) * f <= 100 * b
         /\ 100 * a + (b - a) * f <= 100 * a + (b - a) * g
<1>1. PICK d \in Nat : b = a + d /\ b - a = d
  <2>1. b - a \in Nat /\ b = a + (b - a)
    OBVIOUS
  <2> QED
    BY <2>1
<1>2. d * f \in Nat /\ d * f <= d * 100 /\ d * f <= d * g /\ d * g \in Nat
  OBVIOUS
<1>3. (b - a) * f = d * f /\ (b - a) * g = d * g
  BY <1>1
<1> QED
  BY <1>1, <1>2, <1>3

LEMMA AtRankBetween ==
  ASSUME NEW s \in Seq(Nat), InOrder(s), NEW r \in Nat, r <= 100 * (Len(s) - 1)
  PROVE  /\ AtRank(s, r) \in Nat /\ r \div 100 + 1 \in 1..Len(s)
         /\ s[r \div 100 + 1] <= AtRank(s, r)
         /\ r % 100 = 0 => AtRank(s, r) = s[r \div 100 + 1]
         /\ r % 100 # 0 => /\ r \div 100 + 2 \in 1..Len(s)
                           /\ AtRank(s, r) <= s[r \div 100 + 2]
<1>1. PICK n \in Nat : n = Len(s)
  OBVIOUS
<1>2. PICK lo \in Nat, f \in 0..99 : lo = r \div 100 /\ f = r % 100 /\ r = 100 * lo + f
  BY Div100Is, Zenon
<1>3. lo + 1 \in 1..n /\ (f # 0 => lo + 2 \in 1..n)
  BY <1>1, <1>2
<1>4. CASE f = 0
  <2>1. AtRank(s, r) = s[lo + 1]
    BY <1>2, <1>4 DEF AtRank
  <2>2. s[lo + 1] \in Nat
    BY <1>1, <1>3
  <2> QED
    BY <1>1, <1>2, <1>3, <1>4, <2>1, <2>2
<1>5. CASE f # 0
  <2>1. PICK a \in Nat, b \in Nat : a = s[lo + 1] /\ b = s[lo + 2] /\ a <= b
    <3>1. s[lo + 1] \in Nat /\ s[lo + 2] \in Nat
      BY <1>1, <1>3, <1>5
    <3>2. lo + 1 <= lo + 2
      OBVIOUS
    <3>3. s[lo + 1] <= s[lo + 2]
      BY <1>1, <1>3, <1>5, <3>2 DEF InOrder
    <3> QED
      BY <3>1, <3>3
  <2>2. AtRank(s, r) = Round(100 * a + (b - a) * f, 100)
    BY <1>2, <1>5, <2>1 DEF AtRank
  <2>3. PICK v \in Nat : v = 100 * a + (b - a) * f /\ 100 * a <= v /\ v <= 100 * b
    <3>1. f \in 0..100 /\ f <= f
      OBVIOUS
    <3> QED
      BY <2>1, <3>1, Between
  <2>4. a <= v \div 100
    BY <2>3
  <2>5. Round(v, 100) \in Nat /\ a <= Round(v, 100) /\ Round(v, 100) <= b
    <3>1. /\ Round(v, 100) \in Nat /\ v \div 100 <= Round(v, 100) /\ Round(v, 100) <= b
      BY <2>1, <2>3, RoundBetween, Zenon
    <3>2. v \div 100 \in Nat
      BY <2>3, Div100, Zenon
    <3> QED
      BY <2>1, <2>4, <3>1, <3>2
  <2> QED
    <3>1. AtRank(s, r) = Round(v, 100)
      BY <2>2, <2>3
    <3>2. AtRank(s, r) \in Nat /\ s[lo + 1] <= AtRank(s, r) /\ AtRank(s, r) <= s[lo + 2]
      BY <2>1, <2>5, <3>1, Zenon
    <3>3. r % 100 # 0 /\ lo + 1 \in 1..Len(s) /\ lo + 2 \in 1..Len(s)
      BY <1>1, <1>2, <1>3, <1>5
    <3> QED
      BY <1>2, <3>2, <3>3, Zenon
<1> QED
  BY <1>4, <1>5

LEMMA AtRankGrows ==
  ASSUME NEW s \in Seq(Nat), InOrder(s), NEW r \in Nat, NEW q \in Nat,
         r <= q, q <= 100 * (Len(s) - 1)
  PROVE  AtRank(s, r) <= AtRank(s, q)
<1>1. PICK n \in Nat : n = Len(s)
  OBVIOUS
<1>2. PICK lo \in Nat, f \in 0..99 : lo = r \div 100 /\ f = r % 100 /\ r = 100 * lo + f
  BY Div100Is, Zenon
<1>3. PICK hi \in Nat, g \in 0..99 : hi = q \div 100 /\ g = q % 100 /\ q = 100 * hi + g
  BY Div100Is, Zenon
<1>4. lo < hi \/ (lo = hi /\ f <= g)
  BY <1>2, <1>3
<1>5. /\ AtRank(s, r) \in Nat /\ lo + 1 \in 1..n
      /\ f = 0 => AtRank(s, r) = s[lo + 1]
      /\ f # 0 => lo + 2 \in 1..n /\ AtRank(s, r) <= s[lo + 2]
  <2>1. r <= 100 * (Len(s) - 1)
    BY <1>1
  <2> QED
    BY <1>1, <1>2, <2>1, AtRankBetween
<1>6. AtRank(s, q) \in Nat /\ hi + 1 \in 1..n /\ s[hi + 1] <= AtRank(s, q)
  BY <1>1, <1>3, AtRankBetween
<1>7. \A i \in 1..n : s[i] \in Nat
  BY <1>1
<1>8. CASE lo < hi
  <2>1. s[lo + 1] <= s[hi + 1] /\ (f # 0 => s[lo + 2] <= s[hi + 1])
    BY <1>1, <1>5, <1>6, <1>8 DEF InOrder
  <2>2. PICK x \in Nat, y \in Nat, c \in Nat :
          x = AtRank(s, r) /\ y = AtRank(s, q) /\ c = s[hi + 1] /\ c <= y
    BY <1>5, <1>6, <1>7
  <2>3. x <= c
    <3>1. CASE f = 0
      BY <1>5, <2>1, <2>2, <3>1
    <3>2. CASE f # 0
      <4>1. PICK b \in Nat : b = s[lo + 2] /\ x <= b
        BY <1>5, <1>7, <2>2, <3>2
      <4>2. b <= c
        BY <2>1, <2>2, <3>2, <4>1
      <4> QED
        BY <4>1, <4>2
    <3> QED
      BY <3>1, <3>2
  <2>4. x <= y
    BY <2>2, <2>3
  <2> QED
    BY <2>2, <2>4
<1>9. CASE lo = hi /\ f = 0
  BY <1>5, <1>6, <1>9
<1>10. CASE lo = hi /\ f <= g /\ f # 0
  <2>1. PICK a \in Nat, b \in Nat : a = s[lo + 1] /\ b = s[lo + 2] /\ a <= b
    <3>1. s[lo + 1] \in Nat /\ s[lo + 2] \in Nat
      BY <1>5, <1>7, <1>10
    <3>2. lo + 1 <= lo + 2
      OBVIOUS
    <3>3. s[lo + 1] <= s[lo + 2]
      BY <1>1, <1>5, <1>10, <3>2 DEF InOrder
    <3> QED
      BY <3>1, <3>3
  <2>2. /\ AtRank(s, r) = Round(100 * a + (b - a) * f, 100)
        /\ AtRank(s, q) = Round(100 * a + (b - a) * g, 100)
    BY <1>2, <1>3, <1>10, <2>1 DEF AtRank
  <2>3. /\ 100 * a + (b - a) * f \in Nat /\ 100 * a + (b - a) * g \in Nat
        /\ 100 * a + (b - a) * f <= 100 * a + (b - a) * g
    <3>1. f \in 0..100 /\ g \in 0..100 /\ g <= g
      OBVIOUS
    <3>2. f <= g
      BY <1>10
    <3>3. 100 * a + (b - a) * f <= 100 * a + (b - a) * g
      BY <2>1, <3>1, <3>2, Between, Zenon
    <3>4. 100 * a + (b - a) * f \in Nat /\ 100 * a + (b - a) * g \in Nat
      BY <2>1, <3>1, <3>2, Between, Zenon
    <3> QED
      BY <3>3, <3>4
  <2> QED
    BY <2>2, <2>3, RoundGrows
<1> QED
  BY <1>4, <1>8, <1>9, <1>10

(* The percentiles of the sorted samples, in order.                         *)
LEMMA PercentileAt ==
  ASSUME NEW s \in Seq(Nat), s # <<>>, NEW p \in 0..100
  PROVE  /\ Percentile(s, p) = AtRank(s, p * (Len(s) - 1))
         /\ p * (Len(s) - 1) \in Nat /\ p * (Len(s) - 1) <= 100 * (Len(s) - 1)
<1>1. PICK m \in Nat : m = Len(s) - 1
  <2>1. Len(s) - 1 \in Nat
    OBVIOUS
  <2> QED
    BY <2>1
<1>2. p * m \in Nat /\ p * m <= 100 * m
  OBVIOUS
<1>3. Percentile(s, p) = AtRank(s, p * (Len(s) - 1))
  BY DEF Percentile, AtRank
<1> QED
  BY <1>1, <1>2, <1>3

LEMMA PercentilesInOrder ==
  ASSUME NEW s \in Seq(Nat), s # <<>>, InOrder(s)
  PROVE  /\ Percentile(s, 50) <= Percentile(s, 95)
         /\ Percentile(s, 95) <= Percentile(s, 99)
         /\ Percentile(s, 99) <= s[Len(s)]
<1>1. PICK m \in Nat : m = Len(s) - 1 /\ Len(s) = m + 1
  <2>1. Len(s) - 1 \in Nat /\ Len(s) = (Len(s) - 1) + 1
    OBVIOUS
  <2> QED
    BY <2>1
<1>2. /\ Percentile(s, 50) = AtRank(s, 50 * m)
      /\ Percentile(s, 95) = AtRank(s, 95 * m)
      /\ Percentile(s, 99) = AtRank(s, 99 * m)
  <2>1. 50 \in 0..100 /\ 95 \in 0..100 /\ 99 \in 0..100
    OBVIOUS
  <2> QED
    BY <1>1, <2>1, PercentileAt, Zenon
<1>3. /\ 50 * m \in Nat /\ 95 * m \in Nat /\ 99 * m \in Nat /\ 100 * m \in Nat
      /\ 50 * m <= 95 * m /\ 95 * m <= 99 * m /\ 99 * m <= 100 * m
      /\ 95 * m <= 100 * m /\ 100 * m <= 100 * m
  OBVIOUS
<1>4. AtRank(s, 100 * m) = s[Len(s)]
  <2>1. (100 * m) % 100 = 0 /\ (100 * m) \div 100 = m
    OBVIOUS
  <2> QED
    BY <1>1, <2>1 DEF AtRank
<1>5. AtRank(s, 50 * m) <= AtRank(s, 95 * m)
  BY <1>1, <1>3, AtRankGrows, Zenon
<1>6. AtRank(s, 95 * m) <= AtRank(s, 99 * m)
  BY <1>1, <1>3, AtRankGrows, Zenon
<1>7. AtRank(s, 99 * m) <= AtRank(s, 100 * m)
  BY <1>1, <1>3, AtRankGrows, Zenon
<1> QED
  BY <1>2, <1>4, <1>5, <1>6, <1>7

(* What the 95th percentile being above h says of how many samples are.     *)
LEMMA TailOf ==
  ASSUME NEW s \in Seq(Nat), s # <<>>, NEW h \in Nat
  PROVE  LET p95 == Percentile(Sorted(s), 95)
             above == Len(s) - UpTo(s, h)
         IN  /\ p95 > h => 20 * above >= Len(s)
             /\ ~(p95 > h) => 20 * above <= Len(s) + 18
<1> DEFINE t == Sorted(s)
<1> DEFINE p95 == Percentile(t, 95)
<1>1. /\ t \in Seq(Nat) /\ Len(t) = Len(s)
      /\ \A i \in 1..Len(s) : t[i] <= h <=> i <= UpTo(s, h)
      /\ InOrder(t)
  BY SortedIs DEF InOrder
<1>2. PICK u \in Nat : u = UpTo(s, h)
  BY UpToNat
<1>3. PICK m \in Nat : Len(s) = m + 1 /\ m = Len(s) - 1
  <2>1. Len(s) - 1 \in Nat /\ Len(s) = (Len(s) - 1) + 1
    OBVIOUS
  <2> QED
    BY <2>1
<1> HIDE DEF t
<1>4. t # <<>> /\ 95 \in 0..100
  BY <1>1, <1>3
<1>5. p95 = AtRank(t, 95 * m) /\ 95 * m \in Nat /\ 95 * m <= 100 * (Len(t) - 1)
  BY <1>1, <1>3, <1>4, PercentileAt, Zenon
<1> HIDE DEF p95
<1>6. PICK lo \in Nat, f \in 0..99 :
        lo = (95 * m) \div 100 /\ f = (95 * m) % 100 /\ 95 * m = 100 * lo + f
  BY <1>5, Div100Is, Zenon
<1>7. /\ p95 \in Nat /\ lo + 1 \in 1..Len(t) /\ t[lo + 1] <= p95
      /\ f = 0 => p95 = t[lo + 1]
      /\ f # 0 => lo + 2 \in 1..Len(t) /\ p95 <= t[lo + 2]
  <2>1. /\ AtRank(t, 95 * m) \in Nat /\ (95 * m) \div 100 + 1 \in 1..Len(t)
        /\ t[(95 * m) \div 100 + 1] <= AtRank(t, 95 * m)
    BY <1>1, <1>5, AtRankBetween, Zenon
  <2>2. (95 * m) % 100 = 0 => AtRank(t, 95 * m) = t[(95 * m) \div 100 + 1]
    BY <1>1, <1>5, AtRankBetween, Zenon
  <2>3. (95 * m) % 100 # 0 => /\ (95 * m) \div 100 + 2 \in 1..Len(t)
                              /\ AtRank(t, 95 * m) <= t[(95 * m) \div 100 + 2]
    BY <1>1, <1>5, AtRankBetween, Zenon
  <2> QED
    BY <1>5, <1>6, <2>1, <2>2, <2>3, Zenon
<1>8. /\ t[lo + 1] \in Nat /\ (t[lo + 1] <= h <=> lo + 1 <= u)
      /\ f # 0 => t[lo + 2] \in Nat /\ (t[lo + 2] <= h <=> lo + 2 <= u)
  BY <1>1, <1>2, <1>7
<1>9. ASSUME p95 > h PROVE 20 * (m + 1 - u) >= m + 1
  <2>1. CASE f = 0
    BY <1>6, <1>7, <1>8, <1>9, <2>1
  <2>2. CASE f # 0
    <3>1. ~(lo + 2 <= u)
      BY <1>7, <1>8, <1>9, <2>2
    <3> QED
      BY <1>6, <2>2, <3>1
  <2> QED
    BY <2>1, <2>2
<1>10. ASSUME ~(p95 > h) PROVE 20 * (m + 1 - u) <= m + 1 + 18
  <2>1. lo + 1 <= u
    BY <1>7, <1>8, <1>10
  <2> QED
    BY <1>6, <2>1
<1> QED
  BY <1>2, <1>3, <1>9, <1>10 DEF p95, t

(* The verdict on a list of samples.                                        *)
LEMMA VerdictOn ==
  ASSUME NEW s \in Seq(Nat), NEW h \in Nat
  PROVE  LET m == summarize_one(s, h)
             above == Cardinality({i \in 1..Len(s) : s[i] > h})
         IN  /\ m.slo_violated => 20 * above >= Len(s)
             /\ ~m.slo_violated => 20 * above <= Len(s) + 18
             /\ m.p50 <= m.p95 /\ m.p95 <= m.p99 /\ m.p99 <= m.max
<1> DEFINE m == summarize_one(s, h)
<1> DEFINE above == Cardinality({i \in 1..Len(s) : s[i] > h})
<1>1. above = Len(s) - UpTo(s, h) /\ UpTo(s, h) \in 0..Len(s)
  <2>1. h \in Int
    OBVIOUS
  <2> QED
    BY <2>1, UpToBounds, Zenon
<1>2. CASE s = <<>>
  <2>1. m = [count |-> 0, p50 |-> 0, p95 |-> 0, p99 |-> 0, max |-> 0, slo_violated |-> FALSE]
    BY <1>2 DEF summarize_one
  <2>2. above = 0 /\ Len(s) = 0
    BY <1>1, <1>2
  <2> HIDE DEF m, above
  <2>3. /\ ~m.slo_violated /\ m.p50 = 0 /\ m.p95 = 0 /\ m.p99 = 0 /\ m.max = 0
    BY <2>1
  <2> QED
    BY <2>2, <2>3 DEF m, above
<1>3. CASE s # <<>>
  <2> DEFINE t == Sorted(s)
  <2>1. m = [count |-> Len(t), p50 |-> Percentile(t, 50), p95 |-> Percentile(t, 95),
             p99 |-> Percentile(t, 99), max |-> t[Len(t)],
             slo_violated |-> Violated(Percentile(t, 95), h)]
    BY <1>3 DEF summarize_one
  <2>2. t \in Seq(Nat) /\ t # <<>> /\ InOrder(t)
    <3>1. t \in Seq(Nat) /\ Len(t) = Len(s) /\ InOrder(t)
      BY SortedIs DEF InOrder
    <3>2. Len(s) # 0
      BY <1>3
    <3> QED
      BY <3>1, <3>2
  <2>3. /\ Percentile(t, 50) <= Percentile(t, 95) /\ Percentile(t, 95) <= Percentile(t, 99)
        /\ Percentile(t, 99) <= t[Len(t)]
    BY <2>2, PercentilesInOrder, Zenon
  <2>4. /\ Percentile(t, 95) > h => 20 * above >= Len(s)
        /\ ~(Percentile(t, 95) > h) => 20 * above <= Len(s) + 18
    BY <1>1, <1>3, TailOf
  <2> HIDE DEF t, m
  <2>5. /\ m.p50 = Percentile(t, 50) /\ m.p95 = Percentile(t, 95) /\ m.p99 = Percentile(t, 99)
        /\ m.max = t[Len(t)] /\ m.slo_violated = Violated(Percentile(t, 95), h)
    BY <2>1
  <2>6. m.slo_violated <=> Percentile(t, 95) > h
    BY <2>5 DEF Violated
  <2> HIDE DEF above
  <2>7. m.p50 <= m.p95 /\ m.p95 <= m.p99 /\ m.p99 <= m.max
    BY <2>3, <2>5
  <2>8. /\ m.slo_violated => 20 * above >= Len(s)
        /\ ~m.slo_violated => 20 * above <= Len(s) + 18
    BY <2>4, <2>6
  <2> QED
    BY <2>7, <2>8 DEF m, above
<1> QED
  BY <1>2, <1>3

(* What was pushed is the summary of what was measured.                     *)
Measured ==
  samples # None =>
    /\ samples.freshness \in Seq(Nat) /\ samples.latency \in Seq(Nat)
    /\ xcom.metrics = summarize_dual(samples.freshness, samples.latency)

LEMMA MeasuredAlways == Spec => []Measured
<1>1. Fresh => Measured
  BY DEF Fresh, Measured
<1>2. Measured /\ [Next]_vars => Measured' \/ Fresh'
  <2> SUFFICES ASSUME Measured, [Next]_vars PROVE Measured' \/ Fresh'
    OBVIOUS
  <2>1. CASE Trigger
    BY <2>1, TriggerFresh
  <2>2. CASE UNCHANGED <<samples, xcom>>
    BY <2>2 DEF Measured
  <2>3. CASE CollectSloMetrics
    <3>1. PICK f \in FreshnessSamples, l \in LatencySamples :
            /\ samples' = [freshness |-> f, latency |-> l]
            /\ xcom' = [metrics |-> summarize_dual(f, l),
                        any_violated |-> any_violated(summarize_dual(f, l))]
      BY <2>3 DEF CollectSloMetrics
    <3>2. samples'.freshness = f /\ samples'.latency = l /\ xcom'.metrics = summarize_dual(f, l)
      BY <3>1
    <3>3. f \in Seq(Nat) /\ l \in Seq(Nat)
      BY ConstantsAssumption
    <3> QED
      BY <3>2, <3>3 DEF Measured
  <2>4. CASE UNCHANGED vars
    BY <2>2, <2>4 DEF vars
  <2>5. ASSUME NEW t \in Tasks, Starts(t) \/ GivesUp(t) \/ Succeeds(t) \/ Fails(t)
        PROVE  CollectSloMetrics \/ UNCHANGED <<samples, xcom>>
    BY <2>5 DEF Starts, GivesUp, Succeeds, Effect, Fails
  <2> QED
    BY <2>1, <2>2, <2>3, <2>4, <2>5 DEF Next
<1>3. Init => Fresh
  BY InitFresh
<1> QED
  BY <1>1, <1>2, <1>3, PTL DEF Spec

(* For any samples: an SLO is reported as violated only if a twentieth of   *)
(* the samples or more are above its threshold, and as met only if hardly   *)
(* more than a twentieth are.                                               *)
THEOREM VerdictsRight == Spec => []VerdictIsTail
<1>1. ASSUME Measured PROVE VerdictIsTail
  <2> SUFFICES ASSUME samples # None PROVE VerdictIsTail
    BY DEF VerdictIsTail
  <2>1. PICK f \in Seq(Nat), l \in Seq(Nat) :
          /\ samples.freshness = f /\ samples.latency = l
          /\ xcom.metrics = summarize_dual(f, l)
    BY <1>1 DEF Measured
  <2>2. /\ xcom.metrics.data_freshness = summarize_one(f, SLO_DATA_FRESHNESS_SECONDS)
        /\ xcom.metrics.platform_latency = summarize_one(l, SLO_PLATFORM_LATENCY_SECONDS)
    BY <2>1 DEF summarize_dual
  <2>3. SLO_DATA_FRESHNESS_SECONDS \in Nat /\ SLO_PLATFORM_LATENCY_SECONDS \in Nat
    BY DEF SLO_DATA_FRESHNESS_SECONDS, SLO_PLATFORM_LATENCY_SECONDS
  <2> DEFINE Right(s, m, h) ==
        LET above == Cardinality({i \in 1..Len(s) : s[i] > h})
        IN  /\ m.slo_violated => 20 * above >= Len(s)
            /\ ~m.slo_violated => 20 * above <= Len(s) + 18
            /\ m.p50 <= m.p95 /\ m.p95 <= m.p99 /\ m.p99 <= m.max
  <2>4. \A s \in Seq(Nat), h \in Nat : Right(s, summarize_one(s, h), h)
    BY VerdictOn
  <2>5. VerdictIsTail <=>
          \A m \in {<<f, summarize_one(f, SLO_DATA_FRESHNESS_SECONDS), SLO_DATA_FRESHNESS_SECONDS>>,
                    <<l, summarize_one(l, SLO_PLATFORM_LATENCY_SECONDS), SLO_PLATFORM_LATENCY_SECONDS>>} :
            Right(m[1], m[2], m[3])
    BY <2>1, <2>2 DEF VerdictIsTail
  <2> HIDE DEF Right
  <2>6. /\ Right(f, summarize_one(f, SLO_DATA_FRESHNESS_SECONDS), SLO_DATA_FRESHNESS_SECONDS)
        /\ Right(l, summarize_one(l, SLO_PLATFORM_LATENCY_SECONDS), SLO_PLATFORM_LATENCY_SECONDS)
    BY <2>3, <2>4
  <2> QED
    BY <2>5, <2>6
<1> QED
  BY <1>1, MeasuredAlways, PTL

=============================================================================
