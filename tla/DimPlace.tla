------------------------------ MODULE DimPlace ------------------------------
(***************************************************************************)
(* The place dimension, from the operational table to what is served:      *)
(*                                                                         *)
(*   Postgres places --(Debezium)--> place.master.cdc.v1                   *)
(*     --(cdc_to_dim_place)--> silver.dim_place, append only               *)
(*       --(Spark merge_dim_place.py)--> gold.dim_place                    *)
(*       --(dbt marts/dim_place.py)----> the dim_place the dbt run serves  *)
(*           --(dbt marts/chill_open_now.py)--> the places to recommend    *)
(*                                                                         *)
(* The columns of a place are of four kinds, and a row has one of each:    *)
(*   status       NOT NULL, compared by the MERGE (name, status)           *)
(*   category     not compared, but set by it (category, district, ...):   *)
(*                the mart asks whether its district is calm               *)
(*   open_hour    nullable, compared by it (open_hour, close_hour)         *)
(*   biz_reg_no   nullable, neither compared nor set; the key by which the *)
(*                mart joins the places with those of a static file        *)
(***************************************************************************)
EXTENDS Integers, Sequences

CONSTANTS
  Places,          \* place_id
  Rows,            \* the rows a place may have: [status, category, open_hour, biz_reg_no]
  NULL,            \* the SQL null, in a nullable column
  NoRow,           \* no such place; the absent side of a Debezium envelope
  Static,          \* the rows of bronze.places_static
  Calm,            \* the categories in districts with a score of 2 or less
  MaxChanges,      \* bound: changes of the places table
  MaxResends,      \* bound: events that a Debezium restart publishes again
  MaxRegistrations, \* bound: runs of register.sh after the first
  MaxRuns,         \* bound: runs of the cdc_to_dim_place process
  DistinctTimes    \* TRUE if no two events carry the same ts_ms

ASSUME ConstantsAssumption ==
  /\ Rows \union Static \subseteq
       [status : STRING, category : STRING,
        open_hour : STRING \union {NULL}, biz_reg_no : STRING \union {NULL}]
  /\ NoRow \notin Rows
  /\ MaxChanges \in Nat /\ MaxResends \in Nat /\ MaxRegistrations \in Nat /\ MaxRuns \in Nat
  /\ DistinctTimes \in BOOLEAN

VARIABLES
  places,    \* the Postgres table: [Places -> a row or NoRow]
  changes,   \* its changes in commit order: [place, op, before, after]
  sent,      \* how many of them Debezium has published
  stored,    \* how many of them its stored offset says it has published
  clock,     \* the ts_ms of the last event published
  topic,     \* place.master.cdc.v1: the changes, each with its ts_ms
  reading,   \* a snapshot under way: the rows still to publish, [place, row]
  lost,      \* places of which the last change will never be published
  registrations,
  run,       \* the number of this run of cdc_to_dim_place
  read,      \* how much of the topic this run has committed to silver
  silver,    \* silver.dim_place, in the order of the commits
  gold,      \* gold.dim_place: [Places -> a merged row or NoRow]
  merged,    \* how much of silver the last MERGE saw
  first,     \* merge_dim_place.py between its two MERGEs: {the signature}, or {}
  dim,       \* the result of the last dbt run: [Places -> a row or NoRow]
  mart       \* and its chill_open_now: a set of rows

postgres == <<places, changes>>
debezium == <<sent, stored, clock, topic, reading, lost, registrations>>
flink == <<run, read, silver>>
spark == <<gold, merged, first>>
dbt == <<dim, mart>>
vars == <<postgres, debezium, flink, spark, dbt>>

-----------------------------------------------------------------------------
(* SQL.                                                                    *)

Coalesce(a, b) == IF a # NULL THEN a ELSE b

(* a <> b is true; with a NULL on either side it is unknown.               *)
Differs(a, b) == a # NULL /\ b # NULL /\ a # b

Column(row, c) == IF row = NoRow THEN NULL ELSE row[c]

Columns == {"status", "category", "open_hour", "biz_reg_no"}

(* The row that the job writes for an event: column by column the one of   *)
(* `after`, else the one of `before`.                                      *)
SilverRow(e) ==
  [place      |-> e.place,
   row        |-> [c \in Columns |-> Coalesce(Column(e.after, c), Column(e.before, c))],
   cdc_op     |-> e.op,
   valid_from |-> e.ts_ms,
   is_current |-> e.op # "d"]

(* parse_debezium_envelope: the side of the envelope the event is about.   *)
EnvelopeRow(e) == IF e.op = "d" THEN e.before ELSE e.after

(* Mutant of Newest: the row that was appended last. *)
LastArrived(p) ==
  LET of == {n \in 1..Len(silver) : silver[n].place = p}
  IN  {silver[n] : n \in {m \in of : \A k \in of : k <= m}}

(* ROW_NUMBER() OVER (PARTITION BY place_id ORDER BY valid_from DESC) = 1: *)
(* any of the rows with the greatest valid_from.                           *)
Newest(p) ==
  LET of == {n \in 1..Len(silver) : silver[n].place = p}
  IN  {silver[n] : n \in {m \in of : \A k \in of :
                            silver[k].valid_from <= silver[m].valid_from}}

-----------------------------------------------------------------------------
Init ==
  /\ places = [p \in Places |-> NoRow]
  /\ changes = <<>>
  /\ sent = 0 /\ stored = 0 /\ clock = 0
  /\ topic = <<>>
  /\ reading = {} /\ lost = {} /\ registrations = 0
  /\ run = 1 /\ read = 0
  /\ silver = <<>>
  /\ gold = [p \in Places |-> NoRow]
  /\ merged = 0 /\ first = {}
  /\ dim = [p \in Places |-> NoRow] /\ mart = {}

-----------------------------------------------------------------------------
(* Postgres, with REPLICA IDENTITY FULL: a change carries both sides.      *)

Change(p, op, row) ==
  /\ Len(changes) < MaxChanges
  /\ places' = [places EXCEPT ![p] = row]
  /\ changes' = Append(changes, [place |-> p, op |-> op,
                                 before |-> places[p], after |-> row])
  /\ UNCHANGED <<debezium, flink, spark, dbt>>

InsertPlace(p) == places[p] = NoRow /\ \E row \in Rows : Change(p, "c", row)

UpdatePlace(p) ==
  places[p] # NoRow /\ \E row \in Rows \ {places[p]} : Change(p, "u", row)

DeletePlace(p) == places[p] # NoRow /\ Change(p, "d", NoRow)

-----------------------------------------------------------------------------
(* Debezium publishes the changes in order; ts_ms is its own clock in      *)
(* milliseconds, so that two events may carry the same one.                *)
Publish(p, op, before, after) ==
  \E ts \in {clock, clock + 1} :
    /\ DistinctTimes => ts = clock + 1
    /\ ts > 0
    /\ clock' = ts
    /\ topic' = Append(topic, [place |-> p, op |-> op, ts_ms |-> ts,
                               before |-> before, after |-> after])

PublishChange ==
  /\ sent < Len(changes) /\ reading = {}
  /\ LET c == changes[sent + 1]
     IN  /\ Publish(c.place, c.op, c.before, c.after)
         /\ lost' = lost \ {c.place}
  /\ sent' = sent + 1
  /\ UNCHANGED <<postgres, stored, reading, registrations, flink, spark, dbt>>

(* Kafka Connect stores the offset of the connector now and then.          *)
StoreOffset ==
  /\ stored < sent
  /\ stored' = sent
  /\ UNCHANGED <<postgres, sent, clock, topic, reading, lost, registrations,
                 flink, spark, dbt>>

(* A restart of the connector publishes again what its offset forgot.      *)
RestartDebezium ==
  /\ stored < sent
  /\ Len(topic) - stored <= MaxResends
  /\ sent' = stored
  /\ UNCHANGED <<postgres, stored, clock, topic, reading, lost, registrations,
                 flink, spark, dbt>>

(* register.sh: DELETE the connector, drop its slot, POST it again.  What  *)
(* had not been published by then is gone with the slot.  Whether there is *)
(* a snapshot (snapshot.mode initial) depends on the offset that Connect   *)
(* keeps under the name of the connector; it has the rows that are there.  *)
RegisterConnector ==
  /\ registrations < MaxRegistrations
  /\ registrations' = registrations + 1
  /\ sent' = Len(changes) /\ stored' = Len(changes)
  /\ LET unsent == {changes[n].place : n \in (sent + 1)..Len(changes)}
         present == {p \in Places : places[p] # NoRow}
     IN  \/ /\ reading' = {}
            /\ lost' = lost \union unsent
         \/ /\ reading' = {[place |-> p, row |-> places[p]] : p \in present}
            /\ lost' = (lost \union unsent) \ present
  /\ UNCHANGED <<postgres, clock, topic, flink, spark, dbt>>

ReadRow(c) ==
  /\ Publish(c.place, "r", NoRow, c.row)
  /\ reading' = reading \ {c}
  /\ UNCHANGED <<postgres, sent, stored, lost, registrations, flink, spark, dbt>>

-----------------------------------------------------------------------------
(* INSERT INTO ice.silver.dim_place: within a run each event once, in the  *)
(* order of the topic, one checkpoint's worth per commit.                  *)
CommitSilver ==
  /\ \E upTo \in (read + 1)..Len(topic) :
       /\ silver' = silver \o [i \in 1..(upTo - read) |-> SilverRow(topic[read + i])]
       /\ read' = upTo
  /\ UNCHANGED <<postgres, debezium, run, spark, dbt>>

(* The process ends and systemd or an operator starts it again: no state,  *)
(* the topic from its earliest offset.                                     *)
RestartJob ==
  /\ run < MaxRuns
  /\ run' = run + 1
  /\ read' = 0
  /\ UNCHANGED <<postgres, debezium, silver, spark, dbt>>

-----------------------------------------------------------------------------
GoldRow(s) == [row |-> s.row, valid_from |-> s.valid_from, is_current |-> s.cdc_op # "d"]

(* The condition of the first WHEN MATCHED.                                *)
Changed(g, s) ==
  \/ Differs(g.row.status, s.row.status)
  \/ Differs(g.row.open_hour, s.row.open_hour)

(* Mutant of MergeRow: without the second WHEN MATCHED. *)
MergeRowOnlyChanged(g, s) ==
  IF g = NoRow THEN GoldRow(s)
  ELSE IF Changed(g, s)
  THEN [GoldRow(s) EXCEPT !.row.biz_reg_no = g.row.biz_reg_no]
  ELSE g

(* Mutant of MergeRow: an UPDATE SET without category. *)
MergeRowNoCategory(g, s) ==
  IF g = NoRow THEN GoldRow(s)
  ELSE IF Changed(g, s)
  THEN [GoldRow(s) EXCEPT !.row.biz_reg_no = g.row.biz_reg_no, !.row.category = g.row.category]
  ELSE [g EXCEPT !.is_current = (s.cdc_op # "d")]

(* Mutant of MergeRow: an INSERT as if every row were current. *)
MergeRowInsertsCurrent(g, s) ==
  IF g = NoRow THEN [GoldRow(s) EXCEPT !.is_current = TRUE]
  ELSE IF Changed(g, s)
  THEN [GoldRow(s) EXCEPT !.row.biz_reg_no = g.row.biz_reg_no]
  ELSE [g EXCEPT !.is_current = (s.cdc_op # "d")]

(* One row of the MERGE: insert, update, or only is_current.               *)
MergeRow(g, s) ==
  IF g = NoRow THEN GoldRow(s)
  ELSE IF Changed(g, s)
  THEN [GoldRow(s) EXCEPT !.row.biz_reg_no = g.row.biz_reg_no]
  ELSE [g EXCEPT !.is_current = (s.cdc_op # "d")]

InSilver == {p \in Places : \E n \in 1..Len(silver) : silver[n].place = p}

(* The sources of one MERGE or one dbt run: a newest row for every place.  *)
Picks == {f \in [InSilver -> {silver[n] : n \in 1..Len(silver)}] :
            \A p \in InSilver : f[p] \in Newest(p)}

(* snapshot_signature: the row count and a hash of the rows.               *)
Signature(g) ==
  [p \in Places |-> IF g[p] = NoRow THEN NoRow
                    ELSE [row |-> g[p].row, is_current |-> g[p].is_current]]

(* MERGE_SQL.                                                              *)
Merge ==
  /\ \E s \in Picks :
       gold' = [p \in Places |-> IF p \in InSilver THEN MergeRow(gold[p], s[p]) ELSE gold[p]]
  /\ merged' = Len(silver)
  /\ UNCHANGED <<postgres, debezium, flink, dbt>>

(* main runs it twice, and exits with an error if the signatures differ.   *)
FirstMerge == first = {} /\ Merge /\ first' = {Signature(gold')}

SecondMerge == first # {} /\ Merge /\ first' = {}

-----------------------------------------------------------------------------
(* The rows of the mart's places_combined: those of dim, with their        *)
(* place_id, and the static ones without.                                  *)
Combined(d) ==
  {[from |-> "dim", row |-> d[p]] : p \in {q \in Places : d[q] # NoRow}}
    \union {[from |-> "static", row |-> r] : r \in Static}

(* Mutant of Foremost: NULLS FIRST. *)
ForemostStatic(d, b) ==
  LET of == {c \in Combined(d) : c.row.biz_reg_no = b}
  IN  {c \in of : (\E o \in of : o.from = "static") => c.from = "static"}

(* PARTITION BY biz_reg_no ORDER BY place_id NULLS LAST: a row of dim, or  *)
(* any of the static ones if there is none.                                *)
Foremost(d, b) ==
  LET of == {c \in Combined(d) : c.row.biz_reg_no = b}
  IN  {c \in of : (\E o \in of : o.from = "dim") => c.from = "dim"}

(* Every choice of a first row for each biz_reg_no.                        *)
Ranked(d) ==
  LET keys == {c.row.biz_reg_no : c \in Combined(d)}
  IN  {f \in [keys -> Combined(d)] : \A b \in keys : f[b] \in Foremost(d, b)}

(* Mutant of DimRow: without cdc_op <> 'd'. *)
DimRowKeepsDeletes(s) == IF s.row.status = "active" THEN s.row ELSE NoRow

DimRow(s) == IF s.cdc_op # "d" /\ s.row.status = "active" THEN s.row ELSE NoRow

(* dim_place and then, from it, chill_open_now.                            *)
DbtRun ==
  /\ \E s \in Picks : dim' = [p \in Places |-> IF p \in InSilver THEN DimRow(s[p]) ELSE NoRow]
  /\ \E f \in Ranked(dim') :
       mart' = {r \in {f[b].row : b \in DOMAIN f} : r.status = "active" /\ r.category \in Calm}
  /\ UNCHANGED <<postgres, debezium, flink, spark>>

-----------------------------------------------------------------------------
Upstream ==
  \/ \E p \in Places : InsertPlace(p) \/ UpdatePlace(p) \/ DeletePlace(p)
  \/ PublishChange
  \/ StoreOffset
  \/ RestartDebezium
  \/ RegisterConnector
  \/ \E c \in reading : ReadRow(c)
  \/ CommitSilver
  \/ RestartJob

Next ==
  \/ Upstream
  \/ (FirstMerge \/ SecondMerge)
  \/ DbtRun

Spec == Init /\ [][Next]_vars

-----------------------------------------------------------------------------
SqlRow == [Columns -> STRING \union {NULL}]
Op == {"c", "u", "d", "r"}
Side == Rows \union {NoRow}
Event == [place : Places, op : Op, ts_ms : Nat, before : Side, after : Side]
Written == [place : Places, row : SqlRow, cdc_op : Op, valid_from : Nat, is_current : BOOLEAN]
Merged == [row : SqlRow, valid_from : Nat, is_current : BOOLEAN]

ASSUME NoRowAssumption == NoRow \notin Merged

(* The state has the shape the declarations above give it; of dim and mart *)
(* nothing but a query ever reads.                                         *)
TypeOK ==
  /\ places \in [Places -> Side]
  /\ changes \in Seq([place : Places, op : Op, before : Side, after : Side])
  /\ sent \in 0..Len(changes) /\ stored \in 0..sent
  /\ clock \in Nat
  /\ topic \in Seq(Event)
  /\ reading \subseteq [place : Places, row : Rows]
  /\ read \in 0..Len(topic)
  /\ silver \in Seq(Written)
  /\ gold \in [Places -> Merged \union {NoRow}]
  /\ merged \in 0..Len(silver)

(* The MERGE never takes a place back to an older version, whatever order  *)
(* the replays of the topic appended the versions in, and never drops it.  *)
GoldNeverGoesBack ==
  [][\A p \in Places :
       gold[p] # NoRow => gold'[p] # NoRow /\ gold'[p].valid_from >= gold[p].valid_from]_vars

(* A MERGE closes the place whose newest event is a delete, and opens it   *)
(* again, even though no compared column tells the two versions apart: as  *)
(* long as silver has not changed, is_current is the one of a newest row.  *)
GoldKnowsDeletes ==
  merged = Len(silver) =>
    \A p \in InSilver : \E s \in Newest(p) : gold[p].is_current = (s.cdc_op # "d")

(* The columns that gold holds together came from one event of the topic.  *)
GoldIsOneVersion ==
  \A p \in Places : gold[p] # NoRow =>
    \E i \in 1..Len(topic) :
      /\ topic[i].place = p /\ topic[i].ts_ms = gold[p].valid_from
      /\ \A c \in Columns \ {"biz_reg_no"} : gold[p].row[c] = SilverRow(topic[i]).row[c]

(* merge_dim_place.py fails with "not idempotent" only if silver changed   *)
(* between its two MERGEs, or has two versions of a place with one ts_ms.  *)
OnlyNewsFailTheMerge ==
  [][SecondMerge /\ first # {Signature(gold')} =>
       \/ merged < Len(silver)
       \/ \E p \in InSilver : \E s, t \in Newest(p) : s # t]_vars

(* The place is in the end as it is now, and its last change is published  *)
(* at a ts_ms of its own.                                                  *)
Settled(p, Kind(_)) ==
  <>[](/\ Kind(places[p])
       /\ p \notin lost
       /\ \A i, j \in 1..Len(topic) :
            topic[i].place = p /\ topic[j].place = p /\ i # j => topic[i].ts_ms # topic[j].ts_ms)

(* Once the place stops changing, the dbt dimension ends up with its       *)
(* status and category if it is active, and without it if not: versions    *)
(* that a restart, a new snapshot or a replay delivers again do not win.   *)
DimConverges ==
  \A p \in Places :
    /\ \A r \in {row \in Rows : row.status = "active"} :
         Settled(p, LAMBDA row : row = r) =>
           <>[](dim[p] # NoRow /\ dim[p].category = r.category)
    /\ Settled(p, LAMBDA row : row = NoRow \/ row.status # "active") => <>[](dim[p] = NoRow)

(* An active place in a calm district is recommended in the end, as the    *)
(* operational table has it, and the static file has no say: unless the    *)
(* dimension gives its biz_reg_no to another place as well.                *)
MartConverges ==
  \A p \in Places : \A r \in Rows :
    /\ r.status = "active" /\ r.category \in Calm /\ r.biz_reg_no # NULL
    /\ Settled(p, LAMBDA row : row = r)
    /\ <>[](\A q \in Places \ {p} : Column(dim[q], "biz_reg_no") # r.biz_reg_no)
    => <>[]({m.category : m \in {n \in mart : n.biz_reg_no = r.biz_reg_no}} = {r.category})

-----------------------------------------------------------------------------
(* What comments say of this code and it does not do.                      *)

(* cdc_to_dim_place.py: the COALESCEs are the SQL equivalent of            *)
(* parse_debezium_envelope.                                                *)
SqlIsEnvelope ==
  \A i \in 1..Len(topic) : \A c \in Columns :
    SilverRow(topic[i]).row[c] = EnvelopeRow(topic[i])[c]

(* merge_dim_place.py: gold.dim_place is the current snapshot of silver.   *)
GoldIsCurrentSnapshot ==
  merged = Len(silver) => \A p \in InSilver : \E s \in Newest(p) : gold[p].row = s.row
=============================================================================
