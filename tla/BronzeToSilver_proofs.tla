----------------------- MODULE BronzeToSilver_proofs -----------------------
(***************************************************************************)
(* Proofs about BronzeToSilver, for any partitions, events, region file    *)
(* and bounds.                                                             *)
(***************************************************************************)
EXTENDS BronzeToSilver, TLAPS

-----------------------------------------------------------------------------
(* Typing of the helpers.                                                  *)

LEMMA EarliestType == Earliest \in Positions
  BY DEF Earliest, Positions

LEMMA FirstSnapshotsType ==
  ASSUME TypeOK
  PROVE  FirstSnapshots \subseteq 0..Len(bronze)
<1>1. Len(bronze) \in Nat /\ (bronze # <<>> => Len(bronze) > 0)
  BY DEF TypeOK
<1>. QED BY <1>1 DEF FirstSnapshots

LEMMA NextOffsetType ==
  ASSUME TypeOK, NEW p \in Partitions
  PROVE  NextOffset(p) \in Nat \ {0} /\ NextOffset(p) > kafka.pos[p]
<1>1. kafka.pos[p] \in Nat /\ expired[p] \in Nat
  BY DEF TypeOK, Positions
<1>. QED BY <1>1 DEF NextOffset

LEMMA EnrichedType ==
  ASSUME TypeOK, NEW n \in 1..Len(bronze)
  PROVE  Enriched(n) \subseteq SilverRow
<1>1. bronze[n] \in BronzeSnapshot /\ n \in Nat \ {0}
  BY DEF TypeOK
<1>2. bronze[n].rows \subseteq Offset
  BY <1>1 DEF BronzeSnapshot
<1>. QED BY <1>1, <1>2 DEF Enriched, SilverRow

-----------------------------------------------------------------------------
(* The state has the declared shape in every reachable state.              *)
THEOREM TypeCorrect == Spec => []TypeOK
<1>1. Init => TypeOK
  <2>. SUFFICES ASSUME Init PROVE TypeOK
    OBVIOUS
  <2>1. /\ topic \in [Partitions -> Seq(Records)]
        /\ expired \in [Partitions -> Nat]
    BY DEF Init
  <2>2. /\ kafka \in [pos : Positions, rows : SUBSET Offset]
        /\ kafkaCkpt \in [pos : Positions, ready : SUBSET Offset]
    BY EarliestType DEF Init
  <2>3. /\ stream \in [pos : Nat, rows : SUBSET SilverRow]
        /\ streamCkpt \in [pos : Nat, ready : SUBSET SilverRow]
    BY DEF Init
  <2>. QED BY <2>1, <2>2, <2>3 DEF Init, TypeOK
<1>2. TypeOK /\ [Next]_vars => TypeOK'
  <2>. SUFFICES ASSUME TypeOK, [Next]_vars
                PROVE  TypeOK'
    OBVIOUS
  <2>1. ASSUME NEW r \in Records, Publish(r) PROVE TypeOK'
    <3>1. topic' \in [Partitions -> Seq(Records)]
      BY <2>1, ConstantsAssumption DEF Publish, TypeOK
    <3>. QED BY <2>1, <3>1 DEF Publish, jobVars, TypeOK
  <2>2. ASSUME NEW p \in Partitions, Expire(p) PROVE TypeOK'
    <3>1. expired' \in [Partitions -> Nat]
      BY <2>2 DEF Expire, TypeOK
    <3>. QED BY <2>2, <3>1 DEF Expire, jobVars, TypeOK
  <2>3. ASSUME NEW p \in Partitions, ReadKafka(p) PROVE TypeOK'
    <3>1. [kafka.pos EXCEPT ![p] = NextOffset(p)] \in Positions
      BY NextOffsetType DEF TypeOK, Positions
    <3>2. kafka.rows \union {<<p, NextOffset(p)>>} \subseteq Offset
      BY NextOffsetType DEF TypeOK, Offset
    <3>3. kafka' \in [pos : Positions, rows : SUBSET Offset]
      BY <2>3, <3>1, <3>2 DEF ReadKafka
    <3>. QED BY <2>3, <3>3 DEF ReadKafka, TypeOK
  <2>4. CASE ReadBronze
    <3>1. stream.pos \in Nat /\ stream.pos + 1 \in 1..Len(bronze)
      BY <2>4 DEF ReadBronze, TypeOK
    <3>2. stream.rows \union Enriched(stream.pos + 1) \subseteq SilverRow
      BY <3>1, EnrichedType DEF TypeOK
    <3>. QED BY <2>4, <3>1, <3>2 DEF ReadBronze, TypeOK
  <2>5. CASE Checkpoint
    BY <2>5 DEF Checkpoint, TypeOK
  <2>6. CASE CommitBronze
    <3>1. bronze' \in Seq(BronzeSnapshot)
      BY <2>6 DEF CommitBronze, TypeOK, BronzeSnapshot
    <3>. QED BY <2>6, <3>1 DEF CommitBronze, TypeOK
  <2>7. CASE CommitSilver
    <3>1. silver' \in Seq(SilverSnapshot)
      BY <2>7 DEF CommitSilver, TypeOK, SilverSnapshot
    <3>. QED BY <2>7, <3>1 DEF CommitSilver, TypeOK
  <2>8. CASE FailBronzeBranch
    BY <2>8 DEF FailBronzeBranch, ResumeOffsets, TypeOK
  <2>9. CASE FailSilverBranch
    <3>1. ResumeSnapshots \subseteq Nat
      BY FirstSnapshotsType DEF ResumeSnapshots, TypeOK
    <3>2. /\ stream' \in [pos : Nat, rows : SUBSET SilverRow]
          /\ streamCkpt' \in [pos : Nat, ready : SUBSET SilverRow]
      <4>1. PICK first \in ResumeSnapshots :
              /\ stream' = [pos |-> first, rows |-> {}]
              /\ streamCkpt' = [streamCkpt EXCEPT !.pos = first]
        BY <2>9 DEF FailSilverBranch
      <4>2. first \in Nat
        BY <3>1
      <4>. QED BY <4>1, <4>2 DEF TypeOK
    <3>3. /\ failures' = failures + 1
          /\ UNCHANGED <<topic, expired, job, run, kafka, kafkaCkpt, bronze, silver>>
      BY <2>9 DEF FailSilverBranch
    <3>. QED BY <3>2, <3>3 DEF TypeOK
  <2>10. CASE StopProcess
    <3>1. /\ kafka' \in [pos : Positions, rows : SUBSET Offset]
          /\ kafkaCkpt' \in [pos : Positions, ready : SUBSET Offset]
          /\ stream' \in [pos : Nat, rows : SUBSET SilverRow]
          /\ streamCkpt' \in [pos : Nat, ready : SUBSET SilverRow]
      BY <2>10, EarliestType DEF StopProcess
    <3>. QED BY <2>10, <3>1 DEF StopProcess, TypeOK
  <2>11. CASE StartProcess
    <3>1. /\ stream' \in [pos : Nat, rows : SUBSET SilverRow]
          /\ streamCkpt' \in [pos : Nat, ready : SUBSET SilverRow]
      <4>1. PICK first \in FirstSnapshots :
              /\ stream' = [pos |-> first, rows |-> {}]
              /\ streamCkpt' = [pos |-> first, ready |-> {}]
        BY <2>11 DEF StartProcess
      <4>2. first \in Nat
        BY FirstSnapshotsType
      <4>. QED BY <4>1, <4>2 DEF TypeOK
    <3>2. /\ kafka' \in [pos : Positions, rows : SUBSET Offset]
          /\ kafkaCkpt' \in [pos : Positions, ready : SUBSET Offset]
      BY <2>11, EarliestType DEF StartProcess, TypeOK
    <3>3. /\ job' = "fresh"
          /\ run' = run + 1
          /\ UNCHANGED <<topic, expired, failures, bronze, silver>>
      BY <2>11 DEF StartProcess
    <3>. QED BY <3>1, <3>2, <3>3 DEF TypeOK
  <2>12. CASE UNCHANGED vars
    BY <2>12 DEF vars, jobVars, TypeOK
  <2>. QED BY <2>1, <2>2, <2>3, <2>4, <2>5, <2>6, <2>7, <2>8, <2>9, <2>10,
              <2>11, <2>12 DEF Next, Job, Disturbance
<1>. QED BY <1>1, <1>2, PTL DEF Spec

-----------------------------------------------------------------------------
(* The bronze branch.                                                      *)

LEMMA AppendFacts ==
  ASSUME NEW S, NEW s \in Seq(S), NEW x \in S
  PROVE  /\ Len(Append(s, x)) = Len(s) + 1
         /\ Len(s) \in Nat
         /\ Append(s, x)[Len(s) + 1] = x
         /\ \A n \in 1..Len(s) : Append(s, x)[n] = s[n]
  OBVIOUS

(* What the bronze insert relies on does not change: the invariant stays.  *)
LEMMA BronzeFrame ==
  ASSUME TypeOK, BronzeInv,
         UNCHANGED <<topic, job, run, kafka, kafkaCkpt, bronze>>,
         expired' \in [Partitions -> Nat],
         \A p \in Partitions : expired[p] <= expired'[p]
  PROVE  BronzeInv'
<1>. USE DEF BronzeInv
<1>1. BronzeOpenNoGap'
  <2>. SUFFICES ASSUME NEW p \in Partitions,
                       NEW i \in (kafkaCkpt.pos[p] + 1)..kafka.pos[p]
                PROVE  i <= expired'[p] \/ <<p, i>> \in kafka.rows
    BY DEF BronzeOpenNoGap
  <2>1. kafkaCkpt.pos[p] \in Nat /\ expired[p] \in Nat /\ expired'[p] \in Nat
    BY DEF TypeOK, Positions
  <2>. QED BY <2>1 DEF BronzeOpenNoGap
<1>2. BronzeNoGap'
  <2>. SUFFICES ASSUME NEW p \in Partitions, NEW i \in 1..kafkaCkpt.pos[p]
                PROVE  \/ i <= expired'[p]
                       \/ <<p, i>> \in kafkaCkpt.ready
                       \/ BronzeHas(<<p, i>>, run)
    BY DEF BronzeNoGap, BronzeHas
  <2>1. kafkaCkpt.pos[p] \in Nat /\ expired[p] \in Nat /\ expired'[p] \in Nat
    BY DEF TypeOK, Positions
  <2>. QED BY <2>1 DEF BronzeNoGap
<1>. QED BY <1>1, <1>2 DEF BronzeBounds, BronzeOpenRows, BronzeReadyRows,
            BronzeTableRows, BronzeOncePerRun, BronzeHas

LEMMA BronzeCommitStep ==
  ASSUME TypeOK, BronzeInv, CommitBronze
  PROVE  BronzeInv'
<1>. DEFINE last == Len(bronze) + 1
<1>1. [run |-> run, rows |-> kafkaCkpt.ready] \in BronzeSnapshot
  BY DEF TypeOK, BronzeSnapshot
<1>2. /\ Len(bronze) \in Nat
      /\ Len(bronze') = last
      /\ bronze'[last] = [run |-> run, rows |-> kafkaCkpt.ready]
      /\ \A n \in 1..Len(bronze) : bronze'[n] = bronze[n]
  BY <1>1, AppendFacts DEF CommitBronze, TypeOK
<1>3. \A n \in 1..Len(bronze') : n = last \/ n \in 1..Len(bronze)
  BY <1>2
<1>4. /\ kafkaCkpt'.pos = kafkaCkpt.pos
      /\ kafkaCkpt'.ready = {}
      /\ UNCHANGED <<topic, expired, job, run, kafka>>
      /\ job # "stopped"
  BY DEF CommitBronze, TypeOK
<1>5. \A row : BronzeHas(row, run) \/ row \in kafkaCkpt.ready => BronzeHas(row, run)'
  BY <1>2, <1>4 DEF BronzeHas
<1>6. BronzeBounds' /\ BronzeOpenRows' /\ BronzeOpenNoGap' /\ BronzeReadyRows'
  BY <1>4 DEF BronzeInv, BronzeBounds, BronzeOpenRows, BronzeOpenNoGap, BronzeReadyRows
<1>7. BronzeNoGap'
  BY <1>4, <1>5 DEF BronzeInv, BronzeNoGap
<1>8. BronzeTableRows'
  <2>1. ASSUME NEW row \in kafkaCkpt.ready
        PROVE  row[2] <= kafkaCkpt.pos[row[1]] /\ row[2] <= Len(topic[row[1]])
    <3>1. row[1] \in Partitions /\ row[2] \in Nat
      BY DEF TypeOK, Offset
    <3>2. /\ kafkaCkpt.pos[row[1]] \in Nat
          /\ kafka.pos[row[1]] \in Nat
          /\ Len(topic[row[1]]) \in Nat
      BY <3>1 DEF TypeOK, Positions
    <3>. QED BY <3>1, <3>2 DEF BronzeInv, BronzeReadyRows, BronzeBounds
  <2>2. run \in Nat
    BY DEF TypeOK
  <2>. QED BY <1>2, <1>3, <1>4, <2>1, <2>2 DEF BronzeInv, BronzeTableRows
<1>9. BronzeOncePerRun'
  <2>1. \A n \in 1..Len(bronze) :
          bronze[n].run = run => bronze[n].rows \cap kafkaCkpt.ready = {}
    BY DEF BronzeInv, BronzeReadyRows, BronzeHas
  <2>. QED BY <1>2, <1>3, <2>1 DEF BronzeInv, BronzeOncePerRun
<1>. QED BY <1>6, <1>7, <1>8, <1>9 DEF BronzeInv

LEMMA BronzeReadStep ==
  ASSUME TypeOK, BronzeInv, NEW p \in Partitions, ReadKafka(p)
  PROVE  BronzeInv'
<1>. DEFINE next == NextOffset(p)
<1>1. /\ kafka'.pos = [kafka.pos EXCEPT ![p] = next]
      /\ kafka'.rows = kafka.rows \union {<<p, next>>}
      /\ UNCHANGED <<topic, expired, job, run, kafkaCkpt, bronze>>
      /\ next <= Len(topic[p])
  BY DEF ReadKafka
<1>2. \A q \in Partitions : /\ kafka.pos[q] \in Nat
                             /\ kafkaCkpt.pos[q] \in Nat
                             /\ expired[q] \in Nat
  BY DEF TypeOK, Positions
<1>3. kafka.pos \in [Partitions -> Nat]
  BY DEF TypeOK, Positions
<1>4. next \in Nat /\ next > kafka.pos[p]
  BY NextOffsetType
<1>5. \A i \in (kafka.pos[p] + 1)..next : i <= expired[p] \/ i = next
  BY <1>2 DEF NextOffset
<1>6. BronzeBounds'
  BY <1>1, <1>2, <1>3, <1>4 DEF BronzeInv, BronzeBounds
<1>7. BronzeOpenRows'
  <2>. SUFFICES ASSUME NEW row \in kafka'.rows
                PROVE  /\ kafkaCkpt.pos[row[1]] < row[2]
                       /\ row[2] <= kafka'.pos[row[1]]
    BY <1>1 DEF BronzeOpenRows
  <2>1. CASE row = <<p, next>>
    BY <2>1, <1>1, <1>2, <1>3, <1>4 DEF BronzeInv, BronzeBounds
  <2>2. CASE row \in kafka.rows
    <3>1. row[1] \in Partitions /\ row[2] \in Nat
      BY <2>2 DEF TypeOK, Offset
    <3>. QED BY <2>2, <3>1, <1>1, <1>2, <1>3, <1>4 DEF BronzeInv, BronzeOpenRows
  <2>. QED BY <1>1, <2>1, <2>2
<1>8. BronzeOpenNoGap'
  <2>. SUFFICES ASSUME NEW q \in Partitions,
                       NEW i \in (kafkaCkpt.pos[q] + 1)..(kafka'.pos[q])
                PROVE  i <= expired[q] \/ <<q, i>> \in kafka'.rows
    BY <1>1 DEF BronzeOpenNoGap
  <2>1. CASE i <= kafka.pos[q]
    BY <2>1, <1>1, <1>2 DEF BronzeInv, BronzeOpenNoGap
  <2>2. CASE i > kafka.pos[q]
    <3>1. q = p /\ i \in (kafka.pos[p] + 1)..next
      BY <2>2, <1>1, <1>2, <1>3, <1>4
    <3>. QED BY <3>1, <1>1, <1>5
  <2>. QED BY <2>1, <2>2, <1>2
<1>9. BronzeReadyRows' /\ BronzeTableRows' /\ BronzeOncePerRun' /\ BronzeNoGap'
  BY <1>1 DEF BronzeInv, BronzeReadyRows, BronzeTableRows, BronzeOncePerRun,
              BronzeNoGap, BronzeHas
<1>. QED BY <1>6, <1>7, <1>8, <1>9 DEF BronzeInv

LEMMA BronzeCheckpointStep ==
  ASSUME TypeOK, BronzeInv, Checkpoint
  PROVE  BronzeInv'
<1>1. /\ kafkaCkpt'.pos = kafka.pos
      /\ kafkaCkpt'.ready = kafkaCkpt.ready \union kafka.rows
      /\ kafka'.pos = kafka.pos
      /\ kafka'.rows = {}
      /\ UNCHANGED <<topic, expired, run, bronze>>
      /\ job # "stopped"
  BY DEF Checkpoint, TypeOK
<1>2. \A q \in Partitions : /\ kafka.pos[q] \in Nat
                             /\ kafkaCkpt.pos[q] \in Nat
                             /\ Len(topic[q]) \in Nat
                             /\ kafkaCkpt.pos[q] <= kafka.pos[q]
  BY DEF TypeOK, Positions, BronzeInv, BronzeBounds
<1>3. ASSUME NEW row \in kafka.rows \union kafkaCkpt.ready
      PROVE  row[1] \in Partitions /\ row[2] \in Nat
  BY <1>3 DEF TypeOK, Offset
<1>4. BronzeBounds' /\ BronzeOpenRows' /\ BronzeOpenNoGap' /\ BronzeOncePerRun'
  BY <1>1, <1>2 DEF BronzeInv, BronzeBounds, BronzeOpenRows, BronzeOpenNoGap,
                    BronzeOncePerRun
<1>5. BronzeReadyRows'
  <2>. SUFFICES ASSUME NEW row \in kafkaCkpt.ready \union kafka.rows
                PROVE  row[2] <= kafka.pos[row[1]] /\ ~BronzeHas(row, run)
    BY <1>1 DEF BronzeReadyRows, BronzeHas
  <2>1. CASE row \in kafkaCkpt.ready
    BY <2>1, <1>2, <1>3 DEF BronzeInv, BronzeReadyRows
  <2>2. CASE row \in kafka.rows
    <3>1. kafkaCkpt.pos[row[1]] < row[2] /\ row[2] <= kafka.pos[row[1]]
      BY <2>2 DEF BronzeInv, BronzeOpenRows
    <3>2. ~BronzeHas(row, run)
      BY <3>1, <2>2, <1>1, <1>2, <1>3 DEF BronzeHas, BronzeInv, BronzeTableRows
    <3>. QED BY <3>1, <3>2
  <2>. QED BY <2>1, <2>2
<1>6. BronzeTableRows'
  <2>. SUFFICES ASSUME NEW n \in 1..Len(bronze), NEW row \in bronze[n].rows
                PROVE  bronze[n].run = run => row[2] <= kafka.pos[row[1]]
    BY <1>1 DEF BronzeTableRows, BronzeInv
  <2>1. bronze[n] \in BronzeSnapshot
    BY DEF TypeOK
  <2>2. row[1] \in Partitions /\ row[2] \in Nat
    BY <2>1 DEF BronzeSnapshot, Offset
  <2>. QED BY <2>2, <1>1, <1>2 DEF BronzeInv, BronzeTableRows
<1>7. BronzeNoGap'
  <2>. SUFFICES ASSUME NEW p \in Partitions, NEW i \in 1..kafka.pos[p]
                PROVE  \/ i <= expired[p]
                       \/ <<p, i>> \in kafkaCkpt.ready \union kafka.rows
                       \/ BronzeHas(<<p, i>>, run)
    BY <1>1 DEF BronzeNoGap, BronzeHas
  <2>1. CASE i <= kafkaCkpt.pos[p]
    BY <2>1, <1>2 DEF BronzeInv, BronzeNoGap
  <2>2. CASE i > kafkaCkpt.pos[p]
    BY <2>2, <1>2 DEF BronzeInv, BronzeOpenNoGap
  <2>. QED BY <2>1, <2>2, <1>2
<1>. QED BY <1>4, <1>5, <1>6, <1>7 DEF BronzeInv
LEMMA BronzePublishStep ==
  ASSUME TypeOK, BronzeInv, NEW r \in Records, Publish(r)
  PROVE  BronzeInv'
<1>. DEFINE p == PartitionOf[r]
<1>1. /\ UNCHANGED <<expired, job, run, kafka, kafkaCkpt, bronze>>
      /\ Len(topic[p]) < MaxLog
      /\ topic' = [topic EXCEPT ![p] = Append(@, r)]
  BY DEF Publish, jobVars
<1>2. p \in Partitions /\ MaxLog \in Nat
  BY ConstantsAssumption
<1>3. \A q \in Partitions : /\ Len(topic[q]) \in Nat
                             /\ Len(topic'[q]) \in Nat
                             /\ Len(topic[q]) <= Len(topic'[q])
                             /\ Len(topic'[q]) <= MaxLog
  <2>. SUFFICES ASSUME NEW q \in Partitions
                PROVE  /\ Len(topic[q]) \in Nat
                       /\ Len(topic'[q]) \in Nat
                       /\ Len(topic[q]) <= Len(topic'[q])
                       /\ Len(topic'[q]) <= MaxLog
    OBVIOUS
  <2>1. topic[q] \in Seq(Records) /\ Len(topic[q]) <= MaxLog
    BY DEF TypeOK, BronzeInv, BronzeBounds
  <2>2. topic'[q] = IF q = p THEN Append(topic[q], r) ELSE topic[q]
    BY <1>1 DEF TypeOK
  <2>. QED BY <2>1, <2>2, <1>1, <1>2
<1>4. \A q \in Partitions : kafka.pos[q] \in Nat
  BY DEF TypeOK, Positions
<1>5. BronzeBounds'
  BY <1>1, <1>3, <1>4 DEF BronzeInv, BronzeBounds
<1>6. BronzeTableRows'
  <2>. SUFFICES ASSUME NEW n \in 1..Len(bronze), NEW row \in bronze[n].rows
                PROVE  row[2] <= Len(topic'[row[1]])
    BY <1>1 DEF BronzeInv, BronzeTableRows
  <2>1. bronze[n] \in BronzeSnapshot
    BY DEF TypeOK
  <2>2. row[1] \in Partitions /\ row[2] \in Nat
    BY <2>1 DEF BronzeSnapshot, Offset
  <2>. QED BY <2>2, <1>3 DEF BronzeInv, BronzeTableRows
<1>7. /\ BronzeOpenRows' /\ BronzeOpenNoGap' /\ BronzeReadyRows'
      /\ BronzeOncePerRun' /\ BronzeNoGap'
  BY <1>1 DEF BronzeInv, BronzeOpenRows, BronzeOpenNoGap, BronzeReadyRows,
              BronzeOncePerRun, BronzeNoGap, BronzeHas
<1>. QED BY <1>5, <1>6, <1>7 DEF BronzeInv

(* The branch goes back to the checkpoint: nothing is open any more.       *)
LEMMA BronzeFailStep ==
  ASSUME TypeOK, BronzeInv, FailBronzeBranch
  PROVE  BronzeInv'
<1>1. /\ kafka'.pos = kafkaCkpt.pos
      /\ kafka'.rows = {}
      /\ UNCHANGED <<topic, expired, job, run, kafkaCkpt, bronze>>
  BY DEF FailBronzeBranch, ResumeOffsets
<1>2. \A q \in Partitions : /\ kafka.pos[q] \in Nat
                             /\ kafkaCkpt.pos[q] \in Nat
                             /\ Len(topic[q]) \in Nat
  BY DEF TypeOK, Positions
<1>3. BronzeBounds' /\ BronzeOpenRows' /\ BronzeOpenNoGap'
  BY <1>1, <1>2 DEF BronzeInv, BronzeBounds, BronzeOpenRows, BronzeOpenNoGap
<1>4. BronzeReadyRows' /\ BronzeTableRows' /\ BronzeOncePerRun' /\ BronzeNoGap'
  BY <1>1 DEF BronzeInv, BronzeReadyRows, BronzeTableRows, BronzeOncePerRun,
              BronzeNoGap, BronzeHas
<1>. QED BY <1>3, <1>4 DEF BronzeInv

(* A run that ends or begins has nothing open and nothing ready, and the   *)
(* rows of the table belong to runs up to the one that ended.              *)
LEMMA BronzeEmptyJob ==
  ASSUME TypeOK, BronzeInv,
         kafka'.pos = Earliest, kafka'.rows = {},
         kafkaCkpt'.pos = Earliest, kafkaCkpt'.ready = {},
         UNCHANGED <<topic, expired, bronze>>,
         \/ run' = run /\ job' = "stopped"
         \/ run' = run + 1
  PROVE  BronzeInv'
<1>1. \A q \in Partitions : Earliest[q] = 0 /\ Len(topic[q]) \in Nat
  BY DEF Earliest, TypeOK
<1>2. BronzeBounds' /\ BronzeOpenRows' /\ BronzeOpenNoGap'
  BY <1>1 DEF BronzeInv, BronzeBounds, BronzeOpenRows, BronzeOpenNoGap
<1>3. BronzeReadyRows' /\ BronzeNoGap'
  BY <1>1 DEF BronzeReadyRows, BronzeNoGap
<1>4. BronzeTableRows'
  <2>. SUFFICES ASSUME NEW n \in 1..Len(bronze)
                PROVE  /\ bronze[n].run <= run'
                       /\ \A row \in bronze[n].rows :
                            /\ row[2] <= Len(topic[row[1]])
                            /\ job' = "stopped" \/ bronze[n].run # run'
    BY DEF BronzeTableRows
  <2>1. bronze[n] \in BronzeSnapshot /\ run \in Nat
    BY DEF TypeOK
  <2>2. bronze[n].run \in Nat
    BY <2>1 DEF BronzeSnapshot
  <2>. QED BY <2>1, <2>2 DEF BronzeInv, BronzeTableRows
<1>5. BronzeOncePerRun'
  BY DEF BronzeInv, BronzeOncePerRun
<1>. QED BY <1>2, <1>3, <1>4, <1>5 DEF BronzeInv

(* What is committed to the bronze table agrees with the checkpointed      *)
(* offsets, in every reachable state.                                      *)
THEOREM BronzeInvariant == Spec => []BronzeInv
<1>1. Init => BronzeInv
  <2>. SUFFICES ASSUME Init PROVE BronzeInv
    OBVIOUS
  <2>1. \A q \in Partitions : Earliest[q] = 0
    BY DEF Earliest
  <2>. QED BY <2>1, ConstantsAssumption
           DEF Init, BronzeInv, BronzeBounds, BronzeOpenRows, BronzeOpenNoGap,
               BronzeReadyRows, BronzeTableRows, BronzeOncePerRun, BronzeNoGap
<1>2. TypeOK /\ BronzeInv /\ [Next]_vars => BronzeInv'
  <2>. SUFFICES ASSUME TypeOK, BronzeInv, [Next]_vars
                PROVE  BronzeInv'
    OBVIOUS
  <2>1. ASSUME UNCHANGED <<topic, expired, job, run, kafka, kafkaCkpt, bronze>>
        PROVE  BronzeInv'
    <3>1. expired' \in [Partitions -> Nat] /\ \A p \in Partitions : expired[p] <= expired'[p]
      BY <2>1 DEF TypeOK
    <3>. QED BY <2>1, <3>1, BronzeFrame
  <2>2. ASSUME NEW p \in Partitions, Expire(p) PROVE BronzeInv'
    <3>1. UNCHANGED <<topic, job, run, kafka, kafkaCkpt, bronze>>
      BY <2>2 DEF Expire, jobVars
    <3>2. expired' \in [Partitions -> Nat] /\ \A q \in Partitions : expired[q] <= expired'[q]
      BY <2>2 DEF Expire, TypeOK
    <3>. QED BY <3>1, <3>2, BronzeFrame
  <2>3. CASE StopProcess
    BY <2>3, BronzeEmptyJob DEF StopProcess
  <2>4. CASE StartProcess
    BY <2>4, BronzeEmptyJob DEF StartProcess
  <2>5. CASE \E r \in Records : Publish(r)
    BY <2>5, BronzePublishStep
  <2>6. CASE Job
    BY <2>1, <2>6, BronzeReadStep, BronzeCheckpointStep, BronzeCommitStep
       DEF Job, ReadBronze, CommitSilver
  <2>7. CASE FailBronzeBranch \/ FailSilverBranch
    BY <2>1, <2>7, BronzeFailStep DEF FailSilverBranch
  <2>8. CASE UNCHANGED vars
    BY <2>1, <2>8 DEF vars, jobVars
  <2>. QED BY <2>2, <2>3, <2>4, <2>5, <2>6, <2>7, <2>8 DEF Next, Disturbance
<1>. QED BY <1>1, <1>2, TypeCorrect, PTL DEF Spec
(* No event is in the bronze table twice from one run of the process.      *)
THEOREM BronzeOnce == Spec => []BronzeOncePerRun
<1>1. BronzeInv => BronzeOncePerRun
  BY DEF BronzeInv
<1>. QED BY <1>1, BronzeInvariant, PTL

(* No event falls between the checkpointed offset and the bronze table.    *)
THEOREM BronzeComplete == Spec => []BronzeNoGap
<1>1. BronzeInv => BronzeNoGap
  BY DEF BronzeInv
<1>. QED BY <1>1, BronzeInvariant, PTL

-----------------------------------------------------------------------------
(* The bronze insert is a delivery that is exactly-once within a run.      *)

LEMMA PublishedGrows ==
  ASSUME TypeOK, NEW r \in Records, Publish(r)
  PROVE  Published \subseteq Published'
<1>1. ASSUME NEW p \in Partitions
      PROVE  /\ Len(topic[p]) \in Nat
             /\ Len(topic'[p]) \in Nat
             /\ Len(topic[p]) <= Len(topic'[p])
  <2>1. topic[p] \in Seq(Records)
    BY DEF TypeOK
  <2>2. topic'[p] = IF p = PartitionOf[r] THEN Append(topic[p], r) ELSE topic[p]
    BY DEF Publish, TypeOK
  <2>. QED BY <2>1, <2>2
<1>. QED BY <1>1 DEF Published

LEMMA CommitBronzeDelivers ==
  ASSUME TypeOK, BronzeInv, CommitBronze
  PROVE  BronzeDelivery!Deliver
<1>. DEFINE rows == kafkaCkpt.ready
<1>1. rows \subseteq Published
  <2>. SUFFICES ASSUME NEW row \in rows PROVE row \in Published
    OBVIOUS
  <2>1. row \in Offset
    BY DEF TypeOK
  <2>2. /\ row[1] \in Partitions
        /\ row[2] \in Nat \ {0}
        /\ row = <<row[1], row[2]>>
    BY <2>1 DEF Offset
  <2>3. /\ kafkaCkpt.pos[row[1]] \in Nat
        /\ kafka.pos[row[1]] \in Nat
        /\ Len(topic[row[1]]) \in Nat
    BY <2>2 DEF TypeOK, Positions
  <2>4. row[2] <= Len(topic[row[1]]) /\ Len(topic[row[1]]) <= MaxLog
    BY <2>2, <2>3 DEF BronzeInv, BronzeReadyRows, BronzeBounds
  <2>5. row[2] \in 1..MaxLog
    BY <2>2, <2>3, <2>4, ConstantsAssumption
  <2>. QED BY <2>2, <2>4, <2>5 DEF Published
<1>2. rows \cap BronzeDelivery!CommittedBy(run) = {}
  BY DEF BronzeInv, BronzeReadyRows, BronzeHas, BronzeDelivery!CommittedBy
<1>3. /\ rows # {}
      /\ bronze' = Append(bronze, [run |-> run, rows |-> rows])
      /\ UNCHANGED <<topic, run>>
  BY DEF CommitBronze
<1>4. Published' = Published
  BY <1>3 DEF Published
<1>. QED BY <1>1, <1>2, <1>3, <1>4 DEF BronzeDelivery!Deliver

THEOREM BronzeRefines == Spec => BronzeDeliverySpec
<1>1. Init => BronzeDelivery!Init
  <2>. SUFFICES ASSUME Init PROVE Published = {}
    BY DEF Init, BronzeDelivery!Init
  <2>1. ASSUME NEW q \in Published PROVE FALSE
    <3>1. q[1] \in Partitions /\ q[2] \in 1..MaxLog /\ q[2] <= Len(topic[q[1]])
      BY DEF Published
    <3>2. topic[q[1]] = <<>>
      BY <3>1 DEF Init
    <3>. QED BY <3>1, <3>2, ConstantsAssumption
  <2>. QED BY <2>1
<1>2. TypeOK /\ BronzeInv /\ [Next]_vars => [BronzeDelivery!Next]_BronzeDelivery!vars
  <2>. SUFFICES ASSUME TypeOK, BronzeInv, [Next]_vars
                PROVE  BronzeDelivery!Next \/ UNCHANGED <<Published, run, bronze>>
    BY DEF BronzeDelivery!vars
  <2>1. ASSUME UNCHANGED <<topic, run, bronze>>
        PROVE  UNCHANGED <<Published, run, bronze>>
    BY <2>1 DEF Published
  <2>2. ASSUME NEW r \in Records, Publish(r) PROVE BronzeDelivery!Next
    BY <2>2, PublishedGrows
       DEF Publish, jobVars, BronzeDelivery!Next, BronzeDelivery!Offer
  <2>3. CASE CommitBronze
    BY <2>3, CommitBronzeDelivers DEF BronzeDelivery!Next
  <2>4. CASE StartProcess
    BY <2>4 DEF StartProcess, Published, BronzeDelivery!Next, BronzeDelivery!NewRun
  <2>5. CASE \/ \E p \in Partitions : Expire(p) \/ ReadKafka(p)
             \/ ReadBronze \/ Checkpoint \/ CommitSilver
    BY <2>1, <2>5 DEF Expire, jobVars, ReadKafka, ReadBronze, Checkpoint, CommitSilver
  <2>6. CASE Disturbance \/ UNCHANGED vars
    BY <2>1, <2>6 DEF Disturbance, FailBronzeBranch, FailSilverBranch, StopProcess,
                      vars, jobVars
  <2>. QED BY <2>2, <2>3, <2>4, <2>5, <2>6 DEF Next, Job
<1>. QED BY <1>1, <1>2, TypeCorrect, BronzeInvariant, PTL
         DEF Spec, BronzeDeliverySpec, BronzeDelivery!Spec
-----------------------------------------------------------------------------
(* The silver branch.                                                      *)

(* A committed bronze row keeps its event: the topic only grows.           *)
LEMMA CommittedEvent ==
  ASSUME TypeOK, BronzeInv, NEW n \in 1..Len(bronze), NEW row \in bronze[n].rows,
         topic' = topic \/ \E r \in Records : Publish(r)
  PROVE  EventAt(row)' = EventAt(row)
<1>1. bronze[n] \in BronzeSnapshot
  BY DEF TypeOK
<1>2. row[1] \in Partitions /\ row[2] \in Nat \ {0}
  BY <1>1 DEF BronzeSnapshot, Offset
<1>3. topic[row[1]] \in Seq(Records) /\ row[2] \in 1..Len(topic[row[1]])
  BY <1>2 DEF TypeOK, BronzeInv, BronzeTableRows
<1>4. ASSUME NEW r \in Records, Publish(r)
      PROVE  topic'[row[1]][row[2]] = topic[row[1]][row[2]]
  <2>1. topic'[row[1]] = IF row[1] = PartitionOf[r] THEN Append(topic[row[1]], r)
                                                    ELSE topic[row[1]]
    BY <1>2, <1>4 DEF Publish, TypeOK
  <2>2. Append(topic[row[1]], r)[row[2]] = topic[row[1]][row[2]]
    BY <1>3, AppendFacts
  <2>. QED BY <2>1, <2>2
<1>. QED BY <1>4 DEF EventAt

LEMMA EnrichedStable ==
  ASSUME TypeOK, BronzeInv, NEW n \in 1..Len(bronze),
         bronze'[n] = bronze[n],
         topic' = topic \/ \E r \in Records : Publish(r)
  PROVE  Enriched(n)' = Enriched(n)
<1>1. \A row \in bronze[n].rows : EventAt(row)' = EventAt(row)
  BY CommittedEvent
<1>. QED BY <1>1 DEF Enriched

LEMMA SilverTypes ==
  ASSUME TypeOK
  PROVE  /\ stream.pos \in Nat /\ streamCkpt.pos \in Nat
         /\ Len(bronze) \in Nat /\ Len(silver) \in Nat /\ run \in Nat
         /\ \A row \in stream.rows \union streamCkpt.ready : row[1] \in Nat \ {0}
         /\ \A n \in 1..Len(bronze) : bronze[n].run \in Nat
         /\ \A n \in 1..Len(silver) : silver[n].run \in Nat
         /\ \A n \in 1..Len(silver) : \A row \in silver[n].rows : row[1] \in Nat
<1>1. /\ stream.pos \in Nat /\ streamCkpt.pos \in Nat
      /\ Len(bronze) \in Nat /\ Len(silver) \in Nat /\ run \in Nat
  BY DEF TypeOK
<1>2. \A row \in stream.rows \union streamCkpt.ready : row[1] \in Nat \ {0}
  BY DEF TypeOK, SilverRow
<1>3. \A n \in 1..Len(bronze) : bronze[n] \in BronzeSnapshot
  BY DEF TypeOK
<1>4. \A n \in 1..Len(silver) : silver[n] \in SilverSnapshot
  BY DEF TypeOK
<1>5. \A n \in 1..Len(bronze) : bronze[n].run \in Nat
  BY <1>3 DEF BronzeSnapshot
<1>6. /\ \A n \in 1..Len(silver) : silver[n].run \in Nat
      /\ \A n \in 1..Len(silver) : \A row \in silver[n].rows : row[1] \in Nat
  BY <1>4 DEF SilverSnapshot, SilverRow
<1>. QED BY <1>1, <1>2, <1>5, <1>6

(* What the silver branch holds does not change, and the bronze table at   *)
(* most grows: the invariant stays.                                        *)
LEMMA SilverFrame ==
  ASSUME TypeOK, BronzeInv, SilverInv,
         UNCHANGED <<job, run, stream, streamCkpt, silver>>,
         Len(bronze) <= Len(bronze'), Len(bronze') \in Nat,
         \A n \in 1..Len(bronze) : bronze'[n] = bronze[n],
         topic' = topic \/ \E r \in Records : Publish(r),
         FreshRun'
  PROVE  SilverInv'
<1>1. \A n \in 1..Len(bronze) : Enriched(n)' = Enriched(n)
  BY EnrichedStable
<1>2. /\ streamCkpt.pos <= stream.pos
      /\ stream.pos <= Len(bronze)
      /\ streamCkpt.pos \in Nat
      /\ stream.pos \in Nat
      /\ Len(bronze) \in Nat
  BY SilverTypes DEF SilverInv, SilverBounds
<1>3. \A row \in stream.rows \union streamCkpt.ready : row[1] \in 1..Len(bronze)
  BY <1>2, SilverTypes DEF SilverInv, SilverOpenRows, SilverReadyRows
<1>4. SilverBounds' /\ SilverOpenRows' /\ SilverTableRows' /\ SilverOncePerRun'
  BY <1>2 DEF SilverInv, SilverBounds, SilverOpenRows, SilverTableRows, SilverOncePerRun
<1>5. SilverOpenNoGap'
  BY <1>1, <1>2 DEF SilverInv, SilverOpenNoGap
<1>6. (\A row \in stream.rows : row \in Enriched(row[1]))'
  BY <1>1, <1>3 DEF SilverInv
<1>7. SilverReadyRows'
  BY <1>1, <1>3 DEF SilverInv, SilverReadyRows, SilverHas
<1>8. SilverNoGap'
  <2>. SUFFICES ASSUME NEW n \in 1..Len(bronze'), bronze'[n].run = run,
                       n <= streamCkpt.pos, NEW row \in Enriched(n)'
                PROVE  row \in streamCkpt.ready \/ SilverHas(row, run)
    BY DEF SilverNoGap, SilverHas
  <2>1. n \in 1..Len(bronze)
    BY <1>2
  <2>. QED BY <2>1, <1>1 DEF SilverInv, SilverNoGap
<1>. QED BY <1>4, <1>5, <1>6, <1>7, <1>8 DEF SilverInv
LEMMA SilverReadStep ==
  ASSUME TypeOK, BronzeInv, SilverInv, ReadBronze
  PROVE  SilverInv'
<1>. DEFINE next == stream.pos + 1
<1>1. /\ stream'.pos = next
      /\ stream'.rows = stream.rows \union Enriched(next)
      /\ UNCHANGED <<topic, job, run, kafkaCkpt, streamCkpt, bronze, silver>>
      /\ stream.pos < Len(bronze)
  BY DEF ReadBronze
<1>2. /\ streamCkpt.pos <= stream.pos
      /\ streamCkpt.pos \in Nat
      /\ stream.pos \in Nat
      /\ Len(bronze) \in Nat
  BY SilverTypes DEF SilverInv, SilverBounds
<1>3. \A n \in 1..Len(bronze) : Enriched(n)' = Enriched(n)
  BY <1>1, EnrichedStable
<1>4. \A row \in Enriched(next) : row[1] = next
  BY DEF Enriched
<1>5. SilverBounds'
  BY <1>1, <1>2 DEF SilverBounds
<1>6. SilverOpenRows'
  BY <1>1, <1>2, <1>4, SilverTypes DEF SilverInv, SilverOpenRows
<1>7. SilverOpenNoGap'
  <2>. SUFFICES ASSUME NEW n \in (streamCkpt.pos + 1)..next
                PROVE  Enriched(n)' \subseteq stream'.rows
    BY <1>1 DEF SilverOpenNoGap
  <2>1. n \in 1..Len(bronze) /\ (n = next \/ n \in (streamCkpt.pos + 1)..stream.pos)
    BY <1>1, <1>2
  <2>. QED BY <2>1, <1>1, <1>3 DEF SilverInv, SilverOpenNoGap
<1>8. (\A row \in stream.rows : row \in Enriched(row[1]))'
  <2>. SUFFICES ASSUME NEW row \in stream.rows \union Enriched(next)
                PROVE  row \in Enriched(row[1])'
    BY <1>1
  <2>1. row \in Enriched(row[1])
    BY <1>4 DEF SilverInv
  <2>2. row[1] \in 1..Len(bronze)
    BY <1>1, <1>2, <1>4, SilverTypes DEF SilverInv, SilverOpenRows
  <2>. QED BY <2>1, <2>2, <1>3
<1>9. SilverReadyRows' /\ SilverNoGap'
  <2>1. \A row \in streamCkpt.ready : row[1] \in 1..Len(bronze)
    BY <1>1, <1>2, SilverTypes DEF SilverInv, SilverReadyRows
  <2>. QED BY <2>1, <1>1, <1>3 DEF SilverInv, SilverReadyRows, SilverNoGap, SilverHas
<1>10. SilverTableRows' /\ FreshRun' /\ SilverOncePerRun'
  BY <1>1 DEF SilverInv, SilverTableRows, FreshRun, SilverOncePerRun
<1>. QED BY <1>5, <1>6, <1>7, <1>8, <1>9, <1>10 DEF SilverInv

LEMMA SilverCheckpointStep ==
  ASSUME TypeOK, BronzeInv, SilverInv, Checkpoint
  PROVE  SilverInv'
<1>1. /\ streamCkpt'.pos = stream.pos
      /\ streamCkpt'.ready = streamCkpt.ready \union stream.rows
      /\ stream'.pos = stream.pos
      /\ stream'.rows = {}
      /\ UNCHANGED <<topic, run, bronze, silver>>
      /\ job # "stopped"
      /\ job' = "checkpointed"
  BY DEF Checkpoint, TypeOK
<1>2. /\ streamCkpt.pos <= stream.pos
      /\ stream.pos <= Len(bronze)
      /\ streamCkpt.pos \in Nat
      /\ stream.pos \in Nat
      /\ Len(bronze) \in Nat
  BY SilverTypes DEF SilverInv, SilverBounds
<1>3. \A n : Enriched(n)' = Enriched(n)
  BY <1>1 DEF Enriched, EventAt
<1>4. SilverBounds' /\ SilverOpenRows' /\ SilverOpenNoGap'
  BY <1>1, <1>2 DEF SilverBounds, SilverOpenRows, SilverOpenNoGap
<1>5. SilverReadyRows'
  <2>. SUFFICES ASSUME NEW row \in streamCkpt.ready \union stream.rows
                PROVE  /\ row[1] <= stream.pos
                       /\ row \in Enriched(row[1])
                       /\ ~SilverHas(row, run)
    BY <1>1, <1>3 DEF SilverReadyRows, SilverHas
  <2>1. CASE row \in streamCkpt.ready
    BY <2>1, <1>2, SilverTypes DEF SilverInv, SilverReadyRows
  <2>2. CASE row \in stream.rows
    <3>1. streamCkpt.pos < row[1] /\ row[1] <= stream.pos /\ row \in Enriched(row[1])
      BY <2>2 DEF SilverInv, SilverOpenRows
    <3>2. ~SilverHas(row, run)
      BY <3>1, <2>2, <1>1, <1>2, SilverTypes DEF SilverHas, SilverInv, SilverTableRows
    <3>. QED BY <3>1, <3>2
  <2>. QED BY <2>1, <2>2
<1>6. SilverTableRows'
  BY <1>1, <1>2, SilverTypes DEF SilverInv, SilverTableRows
<1>7. SilverNoGap'
  <2>. SUFFICES ASSUME NEW n \in 1..Len(bronze), bronze[n].run = run,
                       n <= stream.pos, NEW row \in Enriched(n)
                PROVE  row \in streamCkpt.ready \union stream.rows \/ SilverHas(row, run)
    BY <1>1, <1>3 DEF SilverNoGap, SilverHas
  <2>1. CASE n <= streamCkpt.pos
    BY <2>1 DEF SilverInv, SilverNoGap
  <2>2. CASE n > streamCkpt.pos
    BY <2>2, <1>2 DEF SilverInv, SilverOpenNoGap
  <2>. QED BY <2>1, <2>2, <1>2
<1>8. (\A row \in stream.rows : row \in Enriched(row[1]))' /\ FreshRun' /\ SilverOncePerRun'
  BY <1>1 DEF SilverInv, FreshRun, SilverOncePerRun
<1>. QED BY <1>4, <1>5, <1>6, <1>7, <1>8 DEF SilverInv

LEMMA SilverCommitStep ==
  ASSUME TypeOK, BronzeInv, SilverInv, CommitSilver
  PROVE  SilverInv'
<1>. DEFINE last == Len(silver) + 1
<1>1. [run |-> run, rows |-> streamCkpt.ready] \in SilverSnapshot
  BY DEF TypeOK, SilverSnapshot
<1>2. /\ Len(silver) \in Nat
      /\ Len(silver') = last
      /\ silver'[last] = [run |-> run, rows |-> streamCkpt.ready]
      /\ \A n \in 1..Len(silver) : silver'[n] = silver[n]
  BY <1>1, AppendFacts DEF CommitSilver, TypeOK
<1>3. \A n \in 1..Len(silver') : n = last \/ n \in 1..Len(silver)
  BY <1>2
<1>4. /\ streamCkpt'.pos = streamCkpt.pos
      /\ streamCkpt'.ready = {}
      /\ streamCkpt.ready # {}
      /\ UNCHANGED <<topic, job, run, kafkaCkpt, stream, bronze>>
      /\ job # "stopped"
  BY DEF CommitSilver, TypeOK
<1>5. job = "checkpointed"
  BY <1>4 DEF SilverInv, FreshRun, TypeOK
<1>6. \A row : SilverHas(row, run) \/ row \in streamCkpt.ready => SilverHas(row, run)'
  BY <1>2, <1>4 DEF SilverHas
<1>7. \A n : Enriched(n)' = Enriched(n)
  BY <1>4 DEF Enriched, EventAt
<1>8. /\ SilverBounds' /\ SilverOpenRows' /\ SilverOpenNoGap' /\ SilverReadyRows'
      /\ (\A row \in stream.rows : row \in Enriched(row[1]))'
  BY <1>4, <1>7 DEF SilverInv, SilverBounds, SilverOpenRows, SilverOpenNoGap, SilverReadyRows
<1>9. SilverTableRows'
  BY <1>2, <1>3, <1>4, SilverTypes DEF SilverInv, SilverTableRows, SilverReadyRows
<1>10. SilverOncePerRun'
  <2>1. \A n \in 1..Len(silver) :
          silver[n].run = run => silver[n].rows \cap streamCkpt.ready = {}
    BY DEF SilverInv, SilverReadyRows, SilverHas
  <2>. QED BY <1>2, <1>3, <2>1 DEF SilverInv, SilverOncePerRun
<1>11. SilverNoGap'
  BY <1>4, <1>6, <1>7 DEF SilverInv, SilverNoGap
<1>12. FreshRun'
  BY <1>4, <1>5 DEF SilverInv, FreshRun
<1>. QED BY <1>8, <1>9, <1>10, <1>11, <1>12 DEF SilverInv

(* A failure keeps the run's checkpoint; without one it may start the      *)
(* bronze table anywhere, and has committed nothing.                       *)
LEMMA SilverFailStep ==
  ASSUME TypeOK, BronzeInv, SilverInv, FailSilverBranch
  PROVE  SilverInv'
<1>1. PICK first \in ResumeSnapshots :
        /\ stream' = [pos |-> first, rows |-> {}]
        /\ streamCkpt' = [streamCkpt EXCEPT !.pos = first]
  BY DEF FailSilverBranch
<1>2. UNCHANGED <<topic, job, run, kafkaCkpt, bronze, silver>> /\ job # "stopped"
  BY DEF FailSilverBranch
<1>3. stream'.pos = first /\ stream'.rows = {}
  BY <1>1
<1>4. streamCkpt'.pos = first /\ streamCkpt'.ready = streamCkpt.ready
  BY <1>1 DEF TypeOK
<1>5. first \in 0..Len(bronze)
  BY FirstSnapshotsType, SilverTypes DEF ResumeSnapshots, SilverInv, SilverBounds
<1>6. \A n : Enriched(n)' = Enriched(n)
  BY <1>2 DEF Enriched, EventAt
<1>7. SilverBounds' /\ SilverOpenRows' /\ SilverOpenNoGap'
  BY <1>2, <1>3, <1>4, <1>5 DEF SilverBounds, SilverOpenRows, SilverOpenNoGap
<1>8. SilverReadyRows' /\ SilverTableRows' /\ SilverNoGap'
  <2>1. CASE job = "checkpointed"
    <3>1. first = streamCkpt.pos
      BY <2>1 DEF ResumeSnapshots
    <3>. QED BY <3>1, <1>2, <1>4, <1>6
             DEF SilverInv, SilverReadyRows, SilverTableRows, SilverNoGap, SilverHas
  <2>2. CASE job = "fresh"
    <3>1. /\ streamCkpt.ready = {}
          /\ \A n \in 1..Len(bronze) : bronze[n].run # run
          /\ \A n \in 1..Len(silver) : silver[n].run # run
      BY <2>2 DEF SilverInv, FreshRun
    <3>. QED BY <3>1, <1>2, <1>4
             DEF SilverInv, SilverReadyRows, SilverTableRows, SilverNoGap
  <2>. QED BY <2>1, <2>2, <1>2 DEF TypeOK
<1>9. (\A row \in stream.rows : row \in Enriched(row[1]))' /\ FreshRun' /\ SilverOncePerRun'
  BY <1>2, <1>3, <1>4 DEF SilverInv, FreshRun, SilverOncePerRun
<1>. QED BY <1>7, <1>8, <1>9 DEF SilverInv

(* A run that ends or begins has nothing open and nothing ready.           *)
LEMMA SilverEmptyJob ==
  ASSUME TypeOK, BronzeInv, SilverInv,
         NEW first \in 0..Len(bronze),
         stream' = [pos |-> first, rows |-> {}],
         streamCkpt' = [pos |-> first, ready |-> {}],
         kafkaCkpt'.ready = {},
         UNCHANGED <<topic, bronze, silver>>,
         \/ run' = run /\ job' = "stopped" /\ first = 0
         \/ run' = run + 1 /\ job' = "fresh"
  PROVE  SilverInv'
<1>1. stream'.pos = first /\ stream'.rows = {} /\ streamCkpt'.pos = first /\ streamCkpt'.ready = {}
  OBVIOUS
<1>2. /\ \A n \in 1..Len(bronze) : bronze[n].run <= run
      /\ \A n \in 1..Len(silver) : silver[n].run <= run
  BY DEF BronzeInv, BronzeTableRows, SilverInv, SilverTableRows
<1>3. /\ \A n \in 1..Len(bronze) : bronze[n].run \in Nat
      /\ \A n \in 1..Len(silver) : silver[n].run \in Nat
      /\ run \in Nat /\ Len(bronze) \in Nat
  BY SilverTypes
<1>4. /\ SilverBounds' /\ SilverOpenRows' /\ SilverOpenNoGap' /\ SilverReadyRows'
      /\ (\A row \in stream.rows : row \in Enriched(row[1]))'
  BY <1>1, <1>3 DEF SilverBounds, SilverOpenRows, SilverOpenNoGap, SilverReadyRows
<1>5. SilverTableRows' /\ FreshRun' /\ SilverNoGap'
  BY <1>1, <1>2, <1>3 DEF SilverTableRows, FreshRun, SilverNoGap
<1>6. SilverOncePerRun'
  BY DEF SilverInv, SilverOncePerRun
<1>. QED BY <1>4, <1>5, <1>6 DEF SilverInv
(* What is committed to the silver table agrees with the checkpointed      *)
(* snapshot of the bronze table, in every reachable state.                 *)
THEOREM SilverInvariant == Spec => []SilverInv
<1>1. Init => SilverInv
  BY DEF Init, SilverInv, SilverBounds, SilverOpenRows, SilverOpenNoGap, SilverReadyRows,
         SilverTableRows, FreshRun, SilverOncePerRun, SilverNoGap
<1>2. TypeOK /\ BronzeInv /\ SilverInv /\ [Next]_vars => SilverInv'
  <2>. SUFFICES ASSUME TypeOK, BronzeInv, SilverInv, [Next]_vars
                PROVE  SilverInv'
    OBVIOUS
  <2>1. ASSUME UNCHANGED <<topic, job, run, kafkaCkpt, stream, streamCkpt, bronze, silver>>
        PROVE  SilverInv'
    <3>1. FreshRun'
      BY <2>1 DEF SilverInv, FreshRun
    <3>2. Len(bronze) \in Nat
      BY SilverTypes
    <3>. QED BY <2>1, <3>1, <3>2, SilverFrame
  <2>2. ASSUME NEW r \in Records, Publish(r) PROVE SilverInv'
    <3>1. UNCHANGED <<job, run, kafkaCkpt, stream, streamCkpt, bronze, silver>>
      BY <2>2 DEF Publish, jobVars
    <3>2. FreshRun'
      BY <3>1 DEF SilverInv, FreshRun
    <3>3. Len(bronze) \in Nat
      BY SilverTypes
    <3>. QED BY <2>2, <3>1, <3>2, <3>3, SilverFrame
  <2>3. CASE CommitBronze
    <3>1. [run |-> run, rows |-> kafkaCkpt.ready] \in BronzeSnapshot
      BY DEF TypeOK, BronzeSnapshot
    <3>2. /\ Len(bronze) \in Nat
          /\ Len(bronze') = Len(bronze) + 1
          /\ \A n \in 1..Len(bronze) : bronze'[n] = bronze[n]
      BY <2>3, <3>1, AppendFacts DEF CommitBronze, TypeOK
    <3>3. /\ UNCHANGED <<topic, job, run, stream, streamCkpt, silver>>
          /\ kafkaCkpt.ready # {}
          /\ job # "stopped"
          /\ kafkaCkpt'.ready = {}
      BY <2>3 DEF CommitBronze, TypeOK
    <3>4. FreshRun'
      BY <3>3 DEF SilverInv, FreshRun
    <3>. QED BY <3>2, <3>3, <3>4, SilverFrame
  <2>4. CASE StopProcess
    <3>1. 0 \in 0..Len(bronze)
      BY SilverTypes
    <3>. QED BY <2>4, <3>1, SilverEmptyJob DEF StopProcess
  <2>5. CASE StartProcess
    <3>1. PICK first \in FirstSnapshots : /\ stream' = [pos |-> first, rows |-> {}]
                                          /\ streamCkpt' = [pos |-> first, ready |-> {}]
      BY <2>5 DEF StartProcess
    <3>2. first \in 0..Len(bronze)
      BY FirstSnapshotsType
    <3>. QED BY <2>5, <3>1, <3>2, SilverEmptyJob DEF StartProcess
  <2>6. CASE \E p \in Partitions : Expire(p)
    BY <2>1, <2>6 DEF Expire, jobVars
  <2>7. CASE \E p \in Partitions : ReadKafka(p)
    BY <2>1, <2>7 DEF ReadKafka
  <2>8. CASE ReadBronze \/ Checkpoint \/ CommitSilver
    BY <2>8, SilverReadStep, SilverCheckpointStep, SilverCommitStep
  <2>9. CASE FailBronzeBranch \/ FailSilverBranch
    BY <2>1, <2>9, SilverFailStep DEF FailBronzeBranch
  <2>10. CASE UNCHANGED vars
    BY <2>1, <2>10 DEF vars, jobVars
  <2>. QED BY <2>2, <2>3, <2>4, <2>5, <2>6, <2>7, <2>8, <2>9, <2>10
           DEF Next, Job, Disturbance
<1>. QED BY <1>1, <1>2, TypeCorrect, BronzeInvariant, PTL DEF Spec

(* No bronze row is in the silver table twice from one run of the process. *)
THEOREM SilverOnce == Spec => []SilverOncePerRun
<1>1. SilverInv => SilverOncePerRun
  BY DEF SilverInv
<1>. QED BY <1>1, SilverInvariant, PTL

(* The silver branch misses nothing that its run put into the bronze table. *)
THEOREM SilverComplete == Spec => []SilverNoGap
<1>1. SilverInv => SilverNoGap
  BY DEF SilverInv
<1>. QED BY <1>1, SilverInvariant, PTL

-----------------------------------------------------------------------------
(* The silver insert is a delivery that is exactly-once within a run, from *)
(* the rows that the bronze table offers.                                  *)
ToSilver == UNION {Enriched(n) : n \in 1..Len(bronze)}

LEMMA ToSilverGrows ==
  ASSUME TypeOK, BronzeInv,
         Len(bronze) <= Len(bronze'), Len(bronze') \in Nat,
         \A n \in 1..Len(bronze) : bronze'[n] = bronze[n],
         topic' = topic \/ \E r \in Records : Publish(r)
  PROVE  ToSilver \subseteq ToSilver'
<1>1. \A n \in 1..Len(bronze) : Enriched(n)' = Enriched(n)
  BY EnrichedStable
<1>2. Len(bronze) \in Nat
  BY SilverTypes
<1>3. \A n \in 1..Len(bronze) : n \in 1..Len(bronze')
  BY <1>2
<1>. QED BY <1>1, <1>3 DEF ToSilver

LEMMA CommitSilverDelivers ==
  ASSUME TypeOK, BronzeInv, SilverInv, CommitSilver
  PROVE  SilverDelivery!Deliver
<1>. DEFINE rows == streamCkpt.ready
<1>1. rows \subseteq ToSilver
  <2>. SUFFICES ASSUME NEW row \in rows PROVE row \in ToSilver
    OBVIOUS
  <2>1. row[1] <= streamCkpt.pos /\ row \in Enriched(row[1])
    BY DEF SilverInv, SilverReadyRows
  <2>2. row[1] \in 1..Len(bronze)
    BY <2>1, SilverTypes DEF SilverInv, SilverBounds
  <2>. QED BY <2>1, <2>2 DEF ToSilver
<1>2. rows \cap SilverDelivery!CommittedBy(run) = {}
  BY DEF SilverInv, SilverReadyRows, SilverHas, SilverDelivery!CommittedBy
<1>3. /\ rows # {}
      /\ silver' = Append(silver, [run |-> run, rows |-> rows])
      /\ UNCHANGED <<topic, run, bronze>>
  BY DEF CommitSilver
<1>4. ToSilver' = ToSilver
  BY <1>3 DEF ToSilver, Enriched, EventAt
<1>. QED BY <1>1, <1>2, <1>3, <1>4 DEF SilverDelivery!Deliver, ToSilver

THEOREM SilverRefines == Spec => SilverDeliverySpec
<1>1. Init => SilverDelivery!Init
  BY DEF Init, SilverDelivery!Init
<1>2. TypeOK /\ BronzeInv /\ SilverInv /\ [Next]_vars
        => [SilverDelivery!Next]_SilverDelivery!vars
  <2>. SUFFICES ASSUME TypeOK, BronzeInv, SilverInv, [Next]_vars
                PROVE  SilverDelivery!Next \/ UNCHANGED <<ToSilver, run, silver>>
    BY DEF SilverDelivery!vars, ToSilver
  <2>1. ASSUME UNCHANGED <<topic, run, bronze, silver>>
        PROVE  UNCHANGED <<ToSilver, run, silver>>
    BY <2>1 DEF ToSilver, Enriched, EventAt
  <2>2. ASSUME ToSilver \subseteq ToSilver', UNCHANGED <<run, silver>>
        PROVE  SilverDelivery!Next
    BY <2>2 DEF SilverDelivery!Next, SilverDelivery!Offer, ToSilver
  <2>3. ASSUME NEW r \in Records, Publish(r) PROVE SilverDelivery!Next
    <3>1. UNCHANGED <<run, bronze, silver>>
      BY <2>3 DEF Publish, jobVars
    <3>2. Len(bronze) \in Nat
      BY SilverTypes
    <3>. QED BY <2>2, <2>3, <3>1, <3>2, ToSilverGrows
  <2>4. CASE CommitBronze
    <3>1. [run |-> run, rows |-> kafkaCkpt.ready] \in BronzeSnapshot
      BY DEF TypeOK, BronzeSnapshot
    <3>2. /\ Len(bronze) \in Nat
          /\ Len(bronze') = Len(bronze) + 1
          /\ \A n \in 1..Len(bronze) : bronze'[n] = bronze[n]
      BY <2>4, <3>1, AppendFacts DEF CommitBronze, TypeOK
    <3>3. UNCHANGED <<topic, run, silver>>
      BY <2>4 DEF CommitBronze
    <3>. QED BY <2>2, <3>2, <3>3, ToSilverGrows
  <2>5. CASE CommitSilver
    BY <2>5, CommitSilverDelivers DEF SilverDelivery!Next
  <2>6. CASE StartProcess
    <3>1. run' = run + 1 /\ UNCHANGED <<topic, bronze, silver>>
      BY <2>6 DEF StartProcess
    <3>2. ToSilver' = ToSilver
      BY <3>1 DEF ToSilver, Enriched, EventAt
    <3>. QED BY <3>1, <3>2 DEF SilverDelivery!Next, SilverDelivery!NewRun, ToSilver
  <2>7. CASE \/ \E p \in Partitions : Expire(p) \/ ReadKafka(p)
             \/ ReadBronze \/ Checkpoint
    BY <2>1, <2>7 DEF Expire, jobVars, ReadKafka, ReadBronze, Checkpoint
  <2>8. CASE Disturbance \/ UNCHANGED vars
    BY <2>1, <2>8 DEF Disturbance, FailBronzeBranch, FailSilverBranch, StopProcess,
                      vars, jobVars
  <2>. QED BY <2>3, <2>4, <2>5, <2>6, <2>7, <2>8 DEF Next, Job
<1>. QED BY <1>1, <1>2, TypeCorrect, BronzeInvariant, SilverInvariant, PTL
         DEF Spec, SilverDeliverySpec, SilverDelivery!Spec
=============================================================================
