----------------------------- MODULE MCDimPlace -----------------------------
(* Instances of DimPlace: rows that differ in every kind of column, one of  *)
(* them inactive and with NULLs.  The Spark job and the dbt run read silver *)
(* and nothing of each other: a behaviour has one of the two.  Equal ts_ms,  *)
(* which the liveness properties except, are for the Spark job, and fewer   *)
(* faults: a second run, a second registration or a redelivery.             *)
EXTENDS DimPlace

VARIABLE reader    \* "spark" or "dbt"

Place(status, category, hour, biz) ==
  [status |-> status, category |-> category, open_hour |-> hour, biz_reg_no |-> biz]

ActiveCafe == Place("active", "cafe", "9", "b1")
ActiveBar == Place("active", "bar", "9", "b1")
ClosedBar == Place("closed", "bar", NULL, NULL)
StaticCafe == Place("active", "bakery", "8", "b1")

TwoRows == {ActiveCafe, ClosedBar}
ThreeRows == {ActiveCafe, ActiveBar, ClosedBar}
StaticRows == {StaticCafe}

MCInit == Init /\ reader \in {"spark", "dbt"}

Faults ==
  (run - 1) + registrations + (IF registrations = 0 /\ Len(topic) > sent THEN 1 ELSE 0)

MCNext ==
  /\ \/ Upstream
     \/ reader = "spark" /\ (FirstMerge \/ SecondMerge)
     \/ reader = "dbt" /\ DbtRun
  /\ UNCHANGED reader
  /\ Faults' <= IF reader = "spark" THEN 1 ELSE 2
  /\ reader = "dbt" => topic' = topic \/ clock' > clock

(* The connector and the job run by themselves; Airflow runs dbt.  (Of the  *)
(* Spark job nothing is claimed that needs fairness.)                       *)
Dbt(A) == reader = "dbt" /\ A /\ UNCHANGED reader

MCSpec ==
  /\ MCInit /\ [][MCNext]_<<vars, reader>>
  /\ WF_vars(Dbt(PublishChange \/ \E c \in reading : ReadRow(c)))
  /\ WF_vars(Dbt(CommitSilver))
  /\ WF_vars(Dbt(DbtRun))

(* Where there are dbt runs: once a place stops changing, the dimension has *)
(* it as Postgres does, whatever was delivered again (DimConverges).        *)
DbtRunConverges == reader = "dbt" => DimConverges

(* And chill_open_now recommends it if it is active in a calm district,     *)
(* with the columns of Postgres and not of the static file (MartConverges). *)
DbtMartConverges == reader = "dbt" => MartConverges
=============================================================================
