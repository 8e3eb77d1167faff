--------------------------- MODULE DimPlace_proofs ---------------------------
(* Proofs about the MERGE of gold.dim_place, for any places, rows, clock,   *)
(* faults and number of changes.                                            *)
EXTENDS DimPlace, SequenceTheorems, TLAPS

-----------------------------------------------------------------------------
(* Typing of the helpers.                                                   *)

LEMMA ColumnType ==
  ASSUME NEW row \in Side, NEW c \in Columns
  PROVE  Column(row, c) \in STRING \union {NULL}
<1>1. CASE row = NoRow
  BY <1>1 DEF Column
<1>2. CASE row # NoRow
  <2>1. row \in [status : STRING, category : STRING,
                 open_hour : STRING \union {NULL}, biz_reg_no : STRING \union {NULL}]
    BY <1>2, ConstantsAssumption DEF Side
  <2>. QED BY <1>2, <2>1 DEF Column, Columns
<1>. QED BY <1>1, <1>2

LEMMA SilverRowType ==
  ASSUME NEW e \in Event
  PROVE  /\ SilverRow(e) \in Written
         /\ SilverRow(e).place = e.place /\ SilverRow(e).valid_from = e.ts_ms
<1>1. e.before \in Side /\ e.after \in Side /\ e.place \in Places /\ e.op \in Op /\ e.ts_ms \in Nat
  BY DEF Event
<1>2. [c \in Columns |-> Coalesce(Column(e.after, c), Column(e.before, c))] \in SqlRow
  BY <1>1, ColumnType DEF Coalesce, SqlRow
<1>3. (e.op # "d") \in BOOLEAN
  OBVIOUS
<1>. QED BY <1>1, <1>2, <1>3 DEF SilverRow, Written

LEMMA GoldRowType ==
  ASSUME NEW s \in Written
  PROVE  GoldRow(s) \in Merged
<1>1. s.row \in SqlRow /\ s.valid_from \in Nat
  BY DEF Written
<1>2. (s.cdc_op # "d") \in BOOLEAN
  OBVIOUS
<1>. QED BY <1>1, <1>2 DEF GoldRow, Merged

(* A row updated by an event has its columns, but its own biz_reg_no.       *)
Updated(g, s) == [GoldRow(s) EXCEPT !.row.biz_reg_no = g.row.biz_reg_no]

LEMMA UpdatedType ==
  ASSUME NEW s \in Written, NEW g \in Merged
  PROVE  /\ Updated(g, s) \in Merged
         /\ Updated(g, s).valid_from = s.valid_from
         /\ Updated(g, s).is_current = (s.cdc_op # "d")
         /\ \A c \in Columns \ {"biz_reg_no"} : Updated(g, s).row[c] = s.row[c]
<1>1. s.row \in SqlRow /\ s.valid_from \in Nat /\ g.row \in SqlRow
  BY DEF Written, Merged
<1>2. g.row.biz_reg_no \in STRING \union {NULL}
  BY <1>1 DEF SqlRow, Columns
<1>3. (s.cdc_op # "d") \in BOOLEAN
  OBVIOUS
<1>4. [s.row EXCEPT !.biz_reg_no = g.row.biz_reg_no] \in SqlRow
  BY <1>1, <1>2 DEF SqlRow
<1>5. Updated(g, s) = [row |-> [s.row EXCEPT !.biz_reg_no = g.row.biz_reg_no],
                       valid_from |-> s.valid_from, is_current |-> (s.cdc_op # "d")]
  BY DEF Updated, GoldRow
<1>6. Updated(g, s) \in Merged
  BY <1>1, <1>3, <1>4, <1>5 DEF Merged
<1>7. \A c \in Columns \ {"biz_reg_no"} : Updated(g, s).row[c] = s.row[c]
  BY <1>1, <1>5 DEF SqlRow
<1>8. Updated(g, s).valid_from = s.valid_from
  BY <1>5
<1>9. Updated(g, s).is_current = (s.cdc_op # "d")
  BY <1>5
<1>. QED BY <1>6, <1>7, <1>8, <1>9

(* What one row of the MERGE does, whichever clause it takes.               *)
LEMMA MergeRowType ==
  ASSUME NEW s \in Written, NEW g \in Merged \union {NoRow}
  PROVE  /\ MergeRow(g, s) \in Merged
         /\ MergeRow(g, s) # NoRow
         /\ MergeRow(g, s).is_current = (s.cdc_op # "d")
         /\ \/ /\ MergeRow(g, s).valid_from = s.valid_from
               /\ \A c \in Columns \ {"biz_reg_no"} : MergeRow(g, s).row[c] = s.row[c]
            \/ /\ g # NoRow
               /\ MergeRow(g, s).valid_from = g.valid_from
               /\ MergeRow(g, s).row = g.row
<1>1. CASE g = NoRow
  <2>1. MergeRow(g, s) = GoldRow(s)
    BY <1>1 DEF MergeRow
  <2>2. GoldRow(s).valid_from = s.valid_from /\ GoldRow(s).row = s.row
    BY DEF GoldRow
  <2>3. GoldRow(s).is_current = (s.cdc_op # "d")
    BY DEF GoldRow
  <2>. QED BY <2>1, <2>2, <2>3, GoldRowType, NoRowAssumption
<1>2. CASE g # NoRow /\ Changed(g, s)
  <2>1. MergeRow(g, s) = Updated(g, s)
    BY <1>2 DEF MergeRow, Updated
  <2>. QED BY <1>2, <2>1, UpdatedType, NoRowAssumption
<1>3. CASE g # NoRow /\ ~Changed(g, s)
  <2>1. MergeRow(g, s) = [g EXCEPT !.is_current = (s.cdc_op # "d")]
    BY <1>3 DEF MergeRow
  <2>2. (s.cdc_op # "d") \in BOOLEAN
    OBVIOUS
  <2>3. g \in Merged
    BY <1>3
  <2>4. MergeRow(g, s) \in Merged
    BY <2>1, <2>2, <2>3 DEF Merged
  <2>5. MergeRow(g, s).valid_from = g.valid_from /\ MergeRow(g, s).row = g.row
    BY <2>1, <2>3 DEF Merged
  <2>6. MergeRow(g, s).is_current = (s.cdc_op # "d")
    BY <2>1, <2>3 DEF Merged
  <2>. QED BY <1>3, <2>4, <2>5, <2>6, NoRowAssumption
<1>. QED BY <1>1, <1>2, <1>3

-----------------------------------------------------------------------------
(* The steps that write the topic, silver and gold.                         *)

Row == [place : Places, row : Rows]
ChangeRecord == [place : Places, op : Op, before : Side, after : Side]

LEMMA PublishStep ==
  ASSUME TypeOK, NEW p \in Places, NEW op \in Op, NEW before \in Side, NEW after \in Side,
         Publish(p, op, before, after)
  PROVE  /\ clock' \in Nat /\ topic' \in Seq(Event)
         /\ Len(topic') = Len(topic) + 1
         /\ \A i \in 1..Len(topic) : topic'[i] = topic[i]
<1>1. PICK ts \in {clock, clock + 1} :
        /\ ts > 0 /\ clock' = ts
        /\ topic' = Append(topic, [place |-> p, op |-> op, ts_ms |-> ts,
                                   before |-> before, after |-> after])
  BY DEF Publish
<1> DEFINE e == [place |-> p, op |-> op, ts_ms |-> ts, before |-> before, after |-> after]
<1>2. clock \in Nat /\ topic \in Seq(Event)
  BY DEF TypeOK
<1>3. ts \in Nat
  BY <1>1, <1>2
<1>4. e \in Event
  BY <1>3 DEF Event
<1>5. topic' = Append(topic, e)
  BY <1>1
<1> HIDE DEF e
<1>. QED BY <1>1, <1>2, <1>3, <1>4, <1>5

(* The commit appends the rows of events of the topic.                      *)
LEMMA CommitStep ==
  ASSUME TypeOK, CommitSilver
  PROVE  /\ silver' \in Seq(Written) /\ read' \in 0..Len(topic)
         /\ Len(silver') > Len(silver)
         /\ \A n \in 1..Len(silver) : silver'[n] = silver[n]
         /\ \A n \in (Len(silver) + 1)..Len(silver') :
              \E i \in 1..Len(topic) : silver'[n] = SilverRow(topic[i])
<1>1. PICK upTo \in (read + 1)..Len(topic) :
        /\ silver' = silver \o [i \in 1..(upTo - read) |-> SilverRow(topic[read + i])]
        /\ read' = upTo
  BY DEF CommitSilver
<1>2. read \in 0..Len(topic) /\ topic \in Seq(Event) /\ silver \in Seq(Written)
  BY DEF TypeOK
<1> DEFINE k == upTo - read
<1> DEFINE new == [i \in 1..k |-> SilverRow(topic[read + i])]
<1>3. k \in Nat \ {0}
  BY <1>2
<1>4. \A i \in 1..k : read + i \in 1..Len(topic) /\ topic[read + i] \in Event
  BY <1>2
<1>5. \A i \in 1..k : new[i] = SilverRow(topic[read + i]) /\ new[i] \in Written
  BY <1>4, SilverRowType
<1>6. new \in Seq(Written) /\ Len(new) = k
  BY <1>3, <1>5
<1>7. silver' = silver \o new
  BY <1>1
<1> HIDE DEF new
<1> HIDE DEF k
<1>11. /\ silver \o new \in Seq(Written) /\ Len(silver \o new) = Len(silver) + Len(new)
       /\ \A n \in 1..(Len(silver) + Len(new)) :
            (silver \o new)[n] = IF n <= Len(silver) THEN silver[n] ELSE new[n - Len(silver)]
  BY <1>2, <1>6, ConcatProperties
<1>8. /\ silver' \in Seq(Written) /\ Len(silver') = Len(silver) + k
      /\ \A n \in 1..Len(silver') :
           silver'[n] = IF n <= Len(silver) THEN silver[n] ELSE new[n - Len(silver)]
  BY <1>6, <1>7, <1>11
<1>9. ASSUME NEW n \in (Len(silver) + 1)..Len(silver')
      PROVE  \E i \in 1..Len(topic) : silver'[n] = SilverRow(topic[i])
  <2>1. n - Len(silver) \in 1..k
    BY <1>2, <1>3, <1>8
  <2>2. silver'[n] = SilverRow(topic[read + (n - Len(silver))])
    BY <1>5, <1>8, <2>1
  <2>. QED BY <1>4, <2>1, <2>2
<1>10. Len(silver') > Len(silver) /\ \A n \in 1..Len(silver) : silver'[n] = silver[n]
  BY <1>2, <1>3, <1>8
<1>12. read' \in 0..Len(topic)
  BY <1>1, <1>2
<1>. QED BY <1>8, <1>9, <1>10, <1>12

(* The MERGE: to each place in silver, a newest row of it.                  *)
LEMMA MergeStep ==
  ASSUME TypeOK, Merge
  PROVE  /\ gold' \in [Places -> Merged \union {NoRow}]
         /\ \A p \in Places \ InSilver : gold'[p] = gold[p]
         /\ \A p \in InSilver : \E s \in Newest(p) :
              s \in Written /\ gold'[p] = MergeRow(gold[p], s)
<1>1. PICK s \in Picks :
        gold' = [p \in Places |-> IF p \in InSilver THEN MergeRow(gold[p], s[p]) ELSE gold[p]]
  BY DEF Merge
<1>2. silver \in Seq(Written) /\ gold \in [Places -> Merged \union {NoRow}]
  BY DEF TypeOK
<1>3. \A p \in InSilver : s[p] \in Newest(p) /\ s[p] \in {silver[n] : n \in 1..Len(silver)}
  BY <1>1 DEF Picks
<1>4. \A n \in 1..Len(silver) : silver[n] \in Written
  BY <1>2
<1>5. \A p \in InSilver : s[p] \in Written
  BY <1>3, <1>4
<1>6. InSilver \subseteq Places
  BY DEF InSilver
<1>7. \A p \in InSilver : MergeRow(gold[p], s[p]) \in Merged
  BY <1>2, <1>5, <1>6, MergeRowType
<1>8. gold' \in [Places -> Merged \union {NoRow}]
  BY <1>1, <1>2, <1>7
<1>9. \A p \in Places \ InSilver : gold'[p] = gold[p]
  BY <1>1
<1>10. \A p \in InSilver : gold'[p] = MergeRow(gold[p], s[p])
  BY <1>1, <1>6
<1>. QED BY <1>3, <1>5, <1>8, <1>9, <1>10

-----------------------------------------------------------------------------
LEMMA ChangeType ==
  ASSUME TypeOK, NEW p \in Places, NEW op \in Op, NEW row \in Side, Change(p, op, row)
  PROVE  TypeOK'
<1> DEFINE c == [place |-> p, op |-> op, before |-> places[p], after |-> row]
<1>1. places' \in [Places -> Side]
  BY DEF Change, TypeOK
<1>2. c \in ChangeRecord
  BY DEF TypeOK, ChangeRecord
<1>3. changes' = Append(changes, c) /\ changes \in Seq(ChangeRecord)
  BY DEF Change, TypeOK, ChangeRecord
<1> HIDE DEF c
<1>4. changes' \in Seq(ChangeRecord) /\ Len(changes') = Len(changes) + 1 /\ Len(changes) \in Nat
  BY <1>2, <1>3
<1>5. sent \in 0..Len(changes')
  BY <1>4 DEF TypeOK
<1>. QED BY <1>1, <1>4, <1>5 DEF Change, debezium, flink, spark, TypeOK, ChangeRecord

(* The state has the declared shape in every reachable state.               *)
THEOREM DimTypeCorrect == Spec => []TypeOK
<1>1. Init => TypeOK
  BY ConstantsAssumption DEF Init, TypeOK, Side
<1>2. TypeOK /\ [Next]_vars => TypeOK'
  <2>. SUFFICES ASSUME TypeOK, [Next]_vars PROVE TypeOK'
    OBVIOUS
  <2>1. ASSUME NEW p \in Places, InsertPlace(p) \/ UpdatePlace(p) \/ DeletePlace(p)
        PROVE  TypeOK'
    BY <2>1, ChangeType DEF InsertPlace, UpdatePlace, DeletePlace, Op, Side
  <2>2. CASE PublishChange
    <3> DEFINE c == changes[sent + 1]
    <3>7. changes \in Seq(ChangeRecord) /\ sent \in Nat
      BY DEF TypeOK, ChangeRecord
    <3>1. sent + 1 \in 1..Len(changes) /\ c \in ChangeRecord
      BY <2>2, <3>7 DEF PublishChange
    <3>2. Publish(c.place, c.op, c.before, c.after)
      BY <2>2 DEF PublishChange
    <3> HIDE DEF c
    <3>6. c.place \in Places /\ c.op \in Op /\ c.before \in Side /\ c.after \in Side
      BY <3>1 DEF ChangeRecord
    <3>3. clock' \in Nat /\ topic' \in Seq(Event) /\ Len(topic') = Len(topic) + 1
      BY <3>2, <3>6, PublishStep
    <3>4. read \in 0..Len(topic')
      BY <3>3 DEF TypeOK
    <3>5. sent' \in 0..Len(changes) /\ stored \in 0..sent'
      BY <2>2, <3>1 DEF PublishChange, TypeOK
    <3>. QED BY <2>2, <3>3, <3>4, <3>5 DEF PublishChange, postgres, flink, spark, TypeOK
  <2>3. CASE StoreOffset \/ RestartDebezium
    BY <2>3 DEF StoreOffset, RestartDebezium, postgres, flink, spark, TypeOK
  <2>4. CASE RegisterConnector
    <3> DEFINE present == {p \in Places : places[p] # NoRow}
    <3>1. \A p \in present : places[p] \in Rows
      BY DEF TypeOK, Side
    <3>2. {[place |-> p, row |-> places[p]] : p \in present} \subseteq Row
      BY <3>1 DEF Row
    <3>3. reading' = {} \/ reading' = {[place |-> p, row |-> places[p]] : p \in present}
      BY <2>4 DEF RegisterConnector
    <3>4. sent' \in 0..Len(changes) /\ stored' \in 0..sent'
      BY <2>4 DEF RegisterConnector, TypeOK
    <3>. QED BY <2>4, <3>2, <3>3, <3>4 DEF RegisterConnector, postgres, flink, spark, TypeOK, Row
  <2>5. ASSUME NEW c \in reading, ReadRow(c) PROVE TypeOK'
    <3>1. c.place \in Places /\ c.row \in Side /\ NoRow \in Side /\ "r" \in Op
      BY DEF TypeOK, Side, Op
    <3>2. Publish(c.place, "r", NoRow, c.row)
      BY <2>5 DEF ReadRow
    <3>3. clock' \in Nat /\ topic' \in Seq(Event) /\ Len(topic') = Len(topic) + 1
      BY <3>1, <3>2, PublishStep
    <3>4. read \in 0..Len(topic')
      BY <3>3 DEF TypeOK
    <3>. QED BY <2>5, <3>3, <3>4 DEF ReadRow, postgres, flink, spark, TypeOK
  <2>6. CASE CommitSilver
    <3>1. merged \in 0..Len(silver')
      BY <2>6, CommitStep DEF TypeOK
    <3>. QED BY <2>6, <3>1, CommitStep DEF CommitSilver, postgres, debezium, spark, TypeOK
  <2>7. CASE RestartJob
    BY <2>7 DEF RestartJob, postgres, debezium, spark, TypeOK
  <2>8. CASE FirstMerge \/ SecondMerge
    <3>1. Merge
      BY <2>8 DEF FirstMerge, SecondMerge
    <3>2. merged' \in 0..Len(silver)
      BY <3>1 DEF Merge, TypeOK
    <3>. QED BY <3>1, <3>2, MergeStep DEF Merge, postgres, debezium, flink, TypeOK
  <2>9. CASE DbtRun
    BY <2>9 DEF DbtRun, postgres, debezium, flink, spark, TypeOK
  <2>10. CASE UNCHANGED vars
    BY <2>10 DEF vars, postgres, debezium, flink, spark, TypeOK
  <2>. QED BY <2>1, <2>2, <2>3, <2>4, <2>5, <2>6, <2>7, <2>8, <2>9, <2>10 DEF Next, Upstream
<1>. QED BY <1>1, <1>2, PTL DEF Spec

-----------------------------------------------------------------------------
(* Who writes what: the job silver, the MERGE gold, the connector the topic. *)
LEMMA Steps ==
  ASSUME TypeOK, [Next]_vars
  PROVE  \/ CommitSilver /\ UNCHANGED <<topic, gold, merged, first>>
         \/ (FirstMerge \/ SecondMerge) /\ UNCHANGED <<topic, silver>>
         \/ /\ UNCHANGED <<silver, gold, merged, first>>
            /\ \A i \in 1..Len(topic) : i \in 1..Len(topic') /\ topic'[i] = topic[i]
<1>2. ASSUME UNCHANGED topic
      PROVE  \A i \in 1..Len(topic) : i \in 1..Len(topic') /\ topic'[i] = topic[i]
  BY <1>2
<1>3. ASSUME NEW p \in Places, InsertPlace(p) \/ UpdatePlace(p) \/ DeletePlace(p)
      PROVE  UNCHANGED <<silver, gold, merged, first, topic>>
  BY <1>3 DEF InsertPlace, UpdatePlace, DeletePlace, Change, debezium, flink, spark
<1>4. ASSUME StoreOffset \/ RestartDebezium \/ RegisterConnector \/ RestartJob \/ DbtRun \/ UNCHANGED vars
      PROVE  UNCHANGED <<silver, gold, merged, first, topic>>
  BY <1>4 DEF StoreOffset, RestartDebezium, RegisterConnector, RestartJob, DbtRun, vars,
              debezium, flink, spark
<1>5. ASSUME PublishChange \/ \E c \in reading : ReadRow(c)
      PROVE  /\ UNCHANGED <<silver, gold, merged, first>>
             /\ \A i \in 1..Len(topic) : i \in 1..Len(topic') /\ topic'[i] = topic[i]
  <2>1. UNCHANGED <<silver, gold, merged, first>>
    BY <1>5 DEF PublishChange, ReadRow, flink, spark
  <2>2. \E e : topic' = Append(topic, e)
    BY <1>5 DEF PublishChange, ReadRow, Publish
  <2>3. topic \in Seq(Event)
    BY DEF TypeOK
  <2>. QED BY <2>1, <2>2, <2>3
<1>6. ASSUME CommitSilver PROVE UNCHANGED <<topic, gold, merged, first>>
  BY <1>6 DEF CommitSilver, debezium, spark
<1>7. ASSUME FirstMerge \/ SecondMerge PROVE UNCHANGED <<topic, silver>>
  BY <1>7 DEF FirstMerge, SecondMerge, Merge, debezium, flink
<1>. QED BY <1>2, <1>3, <1>4, <1>5, <1>6, <1>7 DEF Next, Upstream

LEMMA NewestIs ==
  ASSUME TypeOK, NEW p \in Places, NEW s \in Newest(p)
  PROVE  \E m \in 1..Len(silver) :
           /\ s = silver[m] /\ s.place = p /\ s.valid_from \in Nat
           /\ \A k \in 1..Len(silver) :
                silver[k].place = p => silver[k].valid_from <= s.valid_from
<1>1. \A n \in 1..Len(silver) : silver[n].valid_from \in Nat
  <2>1. \A n \in 1..Len(silver) : silver[n] \in Written
    BY DEF TypeOK
  <2>. QED BY <2>1 DEF Written
<1>. QED BY <1>1 DEF Newest

-----------------------------------------------------------------------------
(* What gold holds is no newer than silver: a replay can only add to it.    *)
GoldInSilver ==
  \A p \in Places : gold[p] # NoRow =>
    \E n \in 1..Len(silver) :
      silver[n].place = p /\ silver[n].valid_from >= gold[p].valid_from

LEMMA GoldInSilverStep ==
  ASSUME TypeOK, GoldInSilver, [Next]_vars
  PROVE  /\ GoldInSilver'
         /\ \A p \in Places :
              gold[p] # NoRow => gold'[p] # NoRow /\ gold'[p].valid_from >= gold[p].valid_from
<1>1. \A p \in Places : gold[p] # NoRow => gold[p].valid_from \in Nat
  BY DEF TypeOK, Merged
<1>2. CASE CommitSilver /\ UNCHANGED <<topic, gold, merged, first>>
  <2>1. /\ Len(silver) \in Nat /\ Len(silver') \in Nat /\ Len(silver') > Len(silver)
        /\ \A n \in 1..Len(silver) : silver'[n] = silver[n]
    BY <1>2, CommitStep DEF TypeOK
  <2>2. \A n \in 1..Len(silver) : n \in 1..Len(silver')
    BY <2>1
  <2>. QED BY <1>1, <1>2, <2>1, <2>2 DEF GoldInSilver
<1>3. CASE (FirstMerge \/ SecondMerge) /\ UNCHANGED <<topic, silver>>
  <2>1. Merge
    BY <1>3 DEF FirstMerge, SecondMerge
  <2>2. ASSUME NEW p \in Places
        PROVE  /\ gold'[p] # NoRow =>
                    \E n \in 1..Len(silver) :
                      silver[n].place = p /\ silver[n].valid_from >= gold'[p].valid_from
               /\ gold[p] # NoRow =>
                    gold'[p] # NoRow /\ gold'[p].valid_from >= gold[p].valid_from
    <3>1. CASE p \notin InSilver
      BY <1>1, <2>1, <3>1, MergeStep DEF GoldInSilver
    <3>2. CASE p \in InSilver
      <4>1. PICK s \in Newest(p) : s \in Written /\ gold'[p] = MergeRow(gold[p], s)
        BY <2>1, <3>2, MergeStep
      <4>2. gold[p] \in Merged \union {NoRow}
        BY DEF TypeOK
      <4>3. /\ gold'[p] # NoRow
            /\ \/ gold'[p].valid_from = s.valid_from
               \/ gold[p] # NoRow /\ gold'[p].valid_from = gold[p].valid_from
        BY <4>1, <4>2, MergeRowType
      <4>4. PICK m \in 1..Len(silver) :
              /\ s = silver[m] /\ s.place = p /\ s.valid_from \in Nat
              /\ \A k \in 1..Len(silver) :
                   silver[k].place = p => silver[k].valid_from <= s.valid_from
        BY NewestIs
      <4>5. ASSUME gold[p] # NoRow PROVE s.valid_from >= gold[p].valid_from
        <5>1. PICK n \in 1..Len(silver) :
                silver[n].place = p /\ silver[n].valid_from >= gold[p].valid_from
          BY <4>5 DEF GoldInSilver
        <5>2. silver[n].valid_from <= s.valid_from /\ silver[n] \in Written
          BY <4>4, <5>1 DEF TypeOK
        <5>. QED BY <1>1, <4>4, <4>5, <5>1, <5>2 DEF Written
      <4>. QED BY <1>1, <4>3, <4>4, <4>5
    <3>. QED BY <3>1, <3>2
  <2>. QED BY <1>3, <2>2 DEF GoldInSilver
<1>4. CASE UNCHANGED <<silver, gold>>
  BY <1>1, <1>4 DEF GoldInSilver
<1>. QED BY <1>2, <1>3, <1>4, Steps

(* The MERGE never takes a place back to an older version, whatever replays *)
(* of the topic silver has (merge_dim_place.py MERGE_SQL).                  *)
THEOREM NeverBack == Spec => GoldNeverGoesBack
<1>1. Init => GoldInSilver
  BY DEF Init, GoldInSilver
<1>2. TypeOK /\ GoldInSilver /\ [Next]_vars => GoldInSilver'
  BY GoldInSilverStep
<1>3. TypeOK /\ GoldInSilver /\ [Next]_vars =>
        [\A p \in Places : gold[p] # NoRow =>
           gold'[p] # NoRow /\ gold'[p].valid_from >= gold[p].valid_from]_vars
  BY GoldInSilverStep
<1>. QED BY <1>1, <1>2, <1>3, DimTypeCorrect, PTL DEF Spec, GoldNeverGoesBack

-----------------------------------------------------------------------------
(* Every row of silver is the row of an event of the topic.                 *)
SilverFromTopic ==
  \A n \in 1..Len(silver) : \E i \in 1..Len(topic) : silver[n] = SilverRow(topic[i])

LEMMA SilverFromTopicStep ==
  ASSUME TypeOK, SilverFromTopic, [Next]_vars
  PROVE  SilverFromTopic'
<1>1. CASE CommitSilver /\ UNCHANGED <<topic, gold, merged, first>>
  <2>1. /\ Len(silver) \in Nat /\ Len(silver') \in Nat
        /\ \A n \in 1..Len(silver) : silver'[n] = silver[n]
        /\ \A n \in (Len(silver) + 1)..Len(silver') :
             \E i \in 1..Len(topic) : silver'[n] = SilverRow(topic[i])
    BY <1>1, CommitStep DEF TypeOK
  <2>2. \A n \in 1..Len(silver') : n \in 1..Len(silver) \/ n \in (Len(silver) + 1)..Len(silver')
    BY <2>1
  <2>. QED BY <1>1, <2>1, <2>2 DEF SilverFromTopic
<1>2. CASE UNCHANGED <<topic, silver>>
  BY <1>2 DEF SilverFromTopic
<1>3. CASE /\ UNCHANGED <<silver, gold, merged, first>>
           /\ \A i \in 1..Len(topic) : i \in 1..Len(topic') /\ topic'[i] = topic[i]
  BY <1>3 DEF SilverFromTopic
<1>. QED BY <1>1, <1>2, <1>3, Steps

LEMMA OneVersionStep ==
  ASSUME TypeOK, SilverFromTopic, GoldIsOneVersion, [Next]_vars
  PROVE  GoldIsOneVersion'
<1>1. CASE CommitSilver /\ UNCHANGED <<topic, gold, merged, first>>
  BY <1>1 DEF GoldIsOneVersion
<1>2. CASE (FirstMerge \/ SecondMerge) /\ UNCHANGED <<topic, silver>>
  <2>1. Merge
    BY <1>2 DEF FirstMerge, SecondMerge
  <2>2. ASSUME NEW p \in Places, gold'[p] # NoRow
        PROVE  \E i \in 1..Len(topic) :
                 /\ topic[i].place = p /\ topic[i].ts_ms = gold'[p].valid_from
                 /\ \A c \in Columns \ {"biz_reg_no"} :
                      gold'[p].row[c] = SilverRow(topic[i]).row[c]
    <3>1. CASE p \notin InSilver
      BY <2>1, <2>2, <3>1, MergeStep DEF GoldIsOneVersion
    <3>2. CASE p \in InSilver
      <4>1. PICK s \in Newest(p) : s \in Written /\ gold'[p] = MergeRow(gold[p], s)
        BY <2>1, <3>2, MergeStep
      <4>2. gold[p] \in Merged \union {NoRow}
        BY DEF TypeOK
      <4>3. \/ /\ gold'[p].valid_from = s.valid_from
               /\ \A c \in Columns \ {"biz_reg_no"} : gold'[p].row[c] = s.row[c]
            \/ /\ gold[p] # NoRow
               /\ gold'[p].valid_from = gold[p].valid_from /\ gold'[p].row = gold[p].row
        BY <4>1, <4>2, MergeRowType
      <4>4. PICK m \in 1..Len(silver) : s = silver[m] /\ s.place = p
        BY NewestIs
      <4>5. PICK i \in 1..Len(topic) : s = SilverRow(topic[i])
        BY <4>4 DEF SilverFromTopic
      <4>6. topic[i] \in Event
        BY DEF TypeOK
      <4>7. topic[i].place = p /\ topic[i].ts_ms = s.valid_from
        BY <4>4, <4>5, <4>6, SilverRowType
      <4>. QED BY <4>3, <4>5, <4>7 DEF GoldIsOneVersion
    <3>. QED BY <3>1, <3>2
  <2>. QED BY <1>2, <2>2 DEF GoldIsOneVersion
<1>3. CASE /\ UNCHANGED <<silver, gold, merged, first>>
           /\ \A i \in 1..Len(topic) : i \in 1..Len(topic') /\ topic'[i] = topic[i]
  BY <1>3 DEF GoldIsOneVersion
<1>. QED BY <1>1, <1>2, <1>3, Steps

(* The columns that gold holds together came from one event of the topic.   *)
THEOREM OneVersion == Spec => []GoldIsOneVersion
<1>1. Init => SilverFromTopic /\ GoldIsOneVersion
  BY DEF Init, SilverFromTopic, GoldIsOneVersion
<1>2. TypeOK /\ SilverFromTopic /\ GoldIsOneVersion /\ [Next]_vars =>
        SilverFromTopic' /\ GoldIsOneVersion'
  BY SilverFromTopicStep, OneVersionStep
<1>. QED BY <1>1, <1>2, DimTypeCorrect, PTL DEF Spec

-----------------------------------------------------------------------------
LEMMA KnowsDeletesStep ==
  ASSUME TypeOK, GoldKnowsDeletes, [Next]_vars
  PROVE  GoldKnowsDeletes'
<1>1. CASE CommitSilver /\ UNCHANGED <<topic, gold, merged, first>>
  <2>1. merged' # Len(silver')
    BY <1>1, CommitStep DEF TypeOK
  <2>. QED BY <2>1 DEF GoldKnowsDeletes
<1>2. CASE (FirstMerge \/ SecondMerge) /\ UNCHANGED <<topic, silver>>
  <2>1. Merge
    BY <1>2 DEF FirstMerge, SecondMerge
  <2>2. ASSUME NEW p \in InSilver
        PROVE  \E s \in Newest(p) : gold'[p].is_current = (s.cdc_op # "d")
    <3>1. PICK s \in Newest(p) : s \in Written /\ gold'[p] = MergeRow(gold[p], s)
      BY <2>1, <2>2, MergeStep
    <3>2. p \in Places
      BY DEF InSilver
    <3>3. gold[p] \in Merged \union {NoRow}
      BY <3>2 DEF TypeOK
    <3>. QED BY <3>1, <3>3, MergeRowType
  <2>. QED BY <1>2, <2>2 DEF GoldKnowsDeletes, InSilver, Newest
<1>3. CASE UNCHANGED <<silver, gold, merged, first>>
  BY <1>3 DEF GoldKnowsDeletes, InSilver, Newest
<1>. QED BY <1>1, <1>2, <1>3, Steps

(* A MERGE closes and reopens a place with its newest event, also when no   *)
(* compared column differs (the second WHEN MATCHED).                       *)
THEOREM KnowsDeletes == Spec => []GoldKnowsDeletes
<1>1. Init => GoldKnowsDeletes
  <2>1. Init => InSilver = {}
    BY DEF Init, InSilver
  <2>. QED BY <2>1 DEF GoldKnowsDeletes
<1>. QED BY <1>1, KnowsDeletesStep, DimTypeCorrect, PTL DEF Spec

-----------------------------------------------------------------------------
(* A second MERGE of the same row changes nothing.                          *)
LEMMA MergeRowTwice ==
  ASSUME NEW s \in Written, NEW g \in Merged \union {NoRow}
  PROVE  MergeRow(MergeRow(g, s), s) = MergeRow(g, s)
<1> DEFINE h == MergeRow(g, s)
<1>1. h \in Merged /\ h # NoRow /\ h.is_current = (s.cdc_op # "d")
  BY MergeRowType
<1>2. ~Changed(h, s)
  <2>1. CASE h.row.status = s.row.status /\ h.row.open_hour = s.row.open_hour
    BY <2>1 DEF Changed, Differs
  <2>2. CASE g # NoRow /\ ~Changed(g, s)
    <3>1. h = [g EXCEPT !.is_current = (s.cdc_op # "d")]
      BY <2>2 DEF MergeRow
    <3>2. h.row = g.row
      BY <2>2, <3>1 DEF Merged
    <3>. QED BY <2>2, <3>2 DEF Changed
  <2>3. CASE g = NoRow
    <3>1. h = GoldRow(s)
      BY <2>3 DEF MergeRow
    <3>2. h.row = s.row
      BY <3>1 DEF GoldRow
    <3>. QED BY <2>1, <3>2
  <2>4. CASE g # NoRow /\ Changed(g, s)
    <3>1. h = Updated(g, s)
      BY <2>4 DEF MergeRow, Updated
    <3>2. "status" \in Columns \ {"biz_reg_no"} /\ "open_hour" \in Columns \ {"biz_reg_no"}
      BY DEF Columns
    <3>3. h.row["status"] = s.row["status"] /\ h.row["open_hour"] = s.row["open_hour"]
      BY <2>4, <3>1, <3>2, UpdatedType
    <3>. QED BY <2>1, <3>3
  <2>. QED BY <2>2, <2>3, <2>4
<1>3. MergeRow(h, s) = [h EXCEPT !.is_current = (s.cdc_op # "d")]
  BY <1>1, <1>2 DEF MergeRow
<1>4. [h EXCEPT !.is_current = h.is_current] = h
  BY <1>1 DEF Merged
<1>. QED BY <1>1, <1>3, <1>4

(* No two versions of a place with the newest ts_ms.                        *)
NoTies == \A p \in InSilver : \A s, t \in Newest(p) : s = t

(* Between the two MERGEs: the signature is the one of gold, and gold is as *)
(* a MERGE of what silver had would leave it.                               *)
Between ==
  first # {} =>
    /\ first = {Signature(gold)}
    /\ merged = Len(silver) /\ NoTies =>
         \A p \in InSilver : \A s \in Newest(p) : MergeRow(gold[p], s) = gold[p]

LEMMA BetweenStep ==
  ASSUME TypeOK, Between, [Next]_vars
  PROVE  Between'
<1>1. CASE CommitSilver /\ UNCHANGED <<topic, gold, merged, first>>
  <2>1. merged' # Len(silver')
    BY <1>1, CommitStep DEF TypeOK
  <2>2. first' # {} => first' = {Signature(gold)'}
    BY <1>1 DEF Between, Signature
  <2>. QED BY <2>1, <2>2 DEF Between
<1>2. CASE FirstMerge /\ UNCHANGED <<topic, silver>>
  <2>1. Merge /\ first' = {Signature(gold')}
    BY <1>2 DEF FirstMerge
  <2>2. ASSUME NoTies, NEW p \in InSilver, NEW t \in Newest(p)
        PROVE  MergeRow(gold'[p], t) = gold'[p]
    <3>1. PICK s \in Newest(p) : s \in Written /\ gold'[p] = MergeRow(gold[p], s)
      BY <2>1, <2>2, MergeStep
    <3>2. s = t
      BY <2>2, <3>1 DEF NoTies
    <3>3. gold[p] \in Merged \union {NoRow}
      BY DEF TypeOK, InSilver
    <3>. QED BY <3>1, <3>2, <3>3, MergeRowTwice
  <2>3. InSilver' = InSilver /\ NoTies' = NoTies /\ \A p : Newest(p)' = Newest(p)
    BY <1>2 DEF InSilver, NoTies, Newest
  <2>4. first' = {Signature(gold)'}
    BY <2>1 DEF Signature
  <2>5. NoTies' => \A p \in InSilver' : \A s \in Newest(p)' : MergeRow(gold'[p], s) = gold'[p]
    BY <2>2, <2>3
  <2>. QED BY <2>4, <2>5 DEF Between, MergeRow, Changed, GoldRow
<1>3. CASE SecondMerge
  BY <1>3 DEF SecondMerge, Between
<1>4. CASE UNCHANGED <<silver, gold, merged, first>>
  <2>1. InSilver' = InSilver /\ NoTies' = NoTies /\ \A p : Newest(p)' = Newest(p)
    BY <1>4 DEF InSilver, NoTies, Newest
  <2>2. Signature(gold)' = Signature(gold)
    BY <1>4 DEF Signature
  <2>3. first # {} /\ merged = Len(silver) /\ NoTies' =>
          \A p \in InSilver' : \A s \in Newest(p)' : MergeRow(gold'[p], s) = gold'[p]
    BY <1>4, <2>1 DEF Between
  <2>. QED BY <1>4, <2>2, <2>3 DEF Between, MergeRow, Changed, GoldRow
<1>. QED BY <1>1, <1>2, <1>3, <1>4, Steps

(* merge_dim_place.py exits with an error only if silver changed between    *)
(* its two MERGEs, or has two versions of a place with one ts_ms.           *)
THEOREM MergeTwice == Spec => OnlyNewsFailTheMerge
<1>1. Init => Between
  BY DEF Init, Between
<1>2. ASSUME TypeOK, Between
      PROVE  SecondMerge /\ first # {Signature(gold')} =>
               merged < Len(silver) \/ \E p \in InSilver : \E s, t \in Newest(p) : s # t
  <2> SUFFICES ASSUME SecondMerge, NoTies, ~(merged < Len(silver))
               PROVE  first = {Signature(gold')}
    BY <1>2 DEF NoTies
  <2>1. Merge /\ first # {} /\ merged = Len(silver)
    BY <1>2 DEF SecondMerge, TypeOK
  <2>2. \A p \in InSilver : \A s \in Newest(p) : MergeRow(gold[p], s) = gold[p]
    BY <1>2, <2>1 DEF Between
  <2>3. \A p \in Places : gold'[p] = gold[p]
    BY <1>2, <2>1, <2>2, MergeStep
  <2>4. gold' \in [Places -> Merged \union {NoRow}] /\ gold \in [Places -> Merged \union {NoRow}]
    BY <1>2, <2>1, MergeStep DEF TypeOK
  <2>5. gold' = gold
    BY <2>3, <2>4
  <2>. QED BY <1>2, <2>1, <2>5 DEF Between
<1>. QED BY <1>1, <1>2, BetweenStep, DimTypeCorrect, PTL DEF Spec, OnlyNewsFailTheMerge
=============================================================================
