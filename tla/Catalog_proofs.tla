---------------------------- MODULE Catalog_proofs ----------------------------
(* What lies in the Iceberg catalog, for every value of the constants:        *)
(*                                                                            *)
(*   IcebergTable  for any number of appends, failures and retained           *)
(*                 snapshots, a rewrite neither loses a row nor has it twice, *)
(*                 whatever is appended meanwhile, and expiry takes no file   *)
(*                 from a reader that is not RetainLast snapshots late; to    *)
(*                 its readers it is an AppendOnlyTable;                      *)
(*   GoldTable     for any number of migrations at once, and whatever ends    *)
(*                 them, one that reports success leaves the table migrated;  *)
(*   Bootstrap     for any number of scripts at once and any number of        *)
(*                 losses, a run that reports success leaves the server ready.*)
EXTENDS IcebergTable, GoldTable, Bootstrap, FiniteSetTheorems, SequenceTheorems, TLAPS

Snapshot == [added : SUBSET (SUBSET Nat), files : SUBSET (SUBSET Nat)]

(* The appends are numbered without a gap.                                  *)
Numbered == \E k \in Nat : RowsAt(Len(snapshots)) = 1..k

(* What a rewrite has planned is still in the table: nothing but a rewrite  *)
(* takes a file out of it, and there is one at a time.                      *)
GroupInTable == task = "rewrite" /\ step = "work" => group \subseteq Current

RowsInv == snapshots \in Seq(Snapshot) /\ Numbered /\ GroupInTable /\ EveryRowOnce

-----------------------------------------------------------------------------
LEMMA UnionAdd ==
  ASSUME NEW A, NEW B PROVE UNION (A \union {B}) = (UNION A) \union B
<1>1. \A x : x \in UNION (A \union {B}) <=> \E f \in A \union {B} : x \in f
  OBVIOUS
<1>2. \A x : x \in (UNION A) \union B <=> (\E f \in A : x \in f) \/ x \in B
  OBVIOUS
<1>3. \A x : x \in UNION (A \union {B}) <=> x \in (UNION A) \union B
  BY <1>1, <1>2
<1>. QED BY <1>3

LEMMA UnionSplit ==
  ASSUME NEW A, NEW G \in SUBSET A PROVE UNION A = (UNION (A \ G)) \union UNION G
<1>1. \A x : x \in UNION A <=> \E f \in A : x \in f
  OBVIOUS
<1>2. \A x : x \in (UNION (A \ G)) \union UNION G <=>
              (\E f \in A \ G : x \in f) \/ (\E f \in G : x \in f)
  OBVIOUS
<1>3. \A x : x \in UNION A <=> x \in (UNION (A \ G)) \union UNION G
  BY <1>1, <1>2
<1>. QED BY <1>3

(* A commit adds its rows to those of the snapshots before it.              *)
LEMMA CommitRows ==
  ASSUME snapshots \in Seq(Snapshot), NEW e \in Snapshot, snapshots' = Append(snapshots, e)
  PROVE  /\ snapshots' \in Seq(Snapshot)
         /\ Len(snapshots') = Len(snapshots) + 1 /\ Len(snapshots) \in Nat
         /\ snapshots'[Len(snapshots')] = e
         /\ \A n \in 1..Len(snapshots) : snapshots'[n] = snapshots[n]
         /\ \A n \in 0..Len(snapshots) : RowsAt(n)' = RowsAt(n)
         /\ \A n : n = Len(snapshots') => RowsAt(n)' = RowsAt(Len(snapshots)) \union UNION e.added
<1>1. /\ snapshots' \in Seq(Snapshot)
      /\ Len(snapshots') = Len(snapshots) + 1 /\ Len(snapshots) \in Nat
      /\ snapshots'[Len(snapshots')] = e
      /\ \A n \in 1..Len(snapshots) : snapshots'[n] = snapshots[n]
  OBVIOUS
<1>2. ASSUME NEW n \in 0..Len(snapshots) PROVE RowsAt(n)' = RowsAt(n)
  <2>1. \A i \in 1..n : snapshots'[i] = snapshots[i]
    BY <1>1
  <2>2. {snapshots'[i].added : i \in 1..n} = {snapshots[i].added : i \in 1..n}
    BY <2>1
  <2>. QED BY <2>2 DEF RowsAt, Appended
<1>3. ASSUME NEW m, m = Len(snapshots')
      PROVE  RowsAt(m)' = RowsAt(Len(snapshots)) \union UNION e.added
  <2> DEFINE n == Len(snapshots)
  <2>1. {snapshots'[i].added : i \in 1..(n + 1)} = {snapshots[i].added : i \in 1..n} \union {e.added}
    <3>1. \A i \in 1..(n + 1) : i \in 1..n \/ i = n + 1
      BY <1>1
    <3>2. 1..n \subseteq 1..(n + 1) /\ n + 1 \in 1..(n + 1)
      BY <1>1
    <3>3. snapshots'[n + 1] = e /\ \A i \in 1..n : snapshots'[i] = snapshots[i]
      BY <1>1
    <3>. QED BY <3>1, <3>2, <3>3
  <2>2. m = n + 1
    BY <1>1, <1>3
  <2>3. RowsAt(m)' = UNION UNION {snapshots'[i].added : i \in 1..(n + 1)}
    BY <2>2 DEF RowsAt, Appended
  <2>4. RowsAt(n) = UNION UNION {snapshots[i].added : i \in 1..n}
    BY DEF RowsAt, Appended
  <2>. QED BY <2>1, <2>3, <2>4
<1>. QED BY <1>1, <1>2, <1>3

(* The property of one snapshot, and of the new one.                        *)
OnceIn(S, rows) ==
  UNION S = rows /\ \A f, g \in S : f # g => f \cap g = {}

LEMMA CommitOnce ==
  ASSUME RowsInv, NEW e \in Snapshot, snapshots' = Append(snapshots, e),
         OnceIn(e.files, RowsAt(Len(snapshots)) \union UNION e.added)
  PROVE  EveryRowOnce'
<1>1. ASSUME NEW n \in 1..Len(snapshots') PROVE OnceIn(snapshots'[n].files, RowsAt(n)')
  <2>1. CASE n \in 1..Len(snapshots)
    BY <2>1, CommitRows DEF RowsInv, EveryRowOnce, OnceIn
  <2>2. CASE n = Len(snapshots')
    BY <2>2, CommitRows DEF RowsInv
  <2>. QED BY <2>1, <2>2, CommitRows DEF RowsInv
<1>. QED BY <1>1 DEF EveryRowOnce, OnceIn

(* The files of the current snapshot have the rows of the table.            *)
LEMMA CurrentOnce ==
  ASSUME RowsInv
  PROVE  /\ OnceIn(Current, RowsAt(Len(snapshots)))
         /\ Current \subseteq SUBSET Nat
<1>1. CASE snapshots = <<>>
  <2>1. Len(snapshots) = 0 /\ 1..0 = {}
    BY <1>1
  <2>2. RowsAt(0) = {}
    BY DEF RowsAt, Appended
  <2>. QED BY <1>1, <2>1, <2>2 DEF Current, OnceIn
<1>2. CASE snapshots # <<>>
  <2>1. Len(snapshots) \in 1..Len(snapshots) /\ snapshots[Len(snapshots)] \in Snapshot
    BY <1>2 DEF RowsInv
  <2>. QED BY <1>2, <2>1 DEF Current, OnceIn, RowsInv, EveryRowOnce, Snapshot
<1>. QED BY <1>1, <1>2

-----------------------------------------------------------------------------
LEMMA AppendStep ==
  ASSUME RowsInv, AppendRows PROVE RowsInv'
<1> DEFINE rows == RowsAt(Len(snapshots))
<1> DEFINE k == Cardinality(rows) + 1
<1> DEFINE e == [added |-> {{k}}, files |-> Current \union {{k}}]
<1>1. PICK i \in Nat : rows = 1..i
  BY DEF RowsInv, Numbered
<1>2. k = i + 1
  <2>1. Cardinality(1..i) = i
    BY FS_Interval
  <2>. QED BY <1>1, <2>1
<1>3. snapshots' = Append(snapshots, e) /\ UNCHANGED <<task, step, group>>
  BY DEF AppendRows, dag
<1>4. e \in Snapshot
  BY <1>2, CurrentOnce DEF Snapshot
<1>5. UNION e.added = {k} /\ e.files = Current \union {{k}}
  OBVIOUS
<1> HIDE DEF e, k
<1>6. OnceIn(Current \union {{k}}, rows \union {k})
  <2>1. k \notin rows
    BY <1>1, <1>2
  <2>2. UNION Current = rows /\ \A f, g \in Current : f # g => f \cap g = {}
    BY CurrentOnce DEF OnceIn
  <2>3. \A f \in Current : f \cap {k} = {}
    BY <2>1, <2>2
  <2>. QED BY <2>2, <2>3 DEF OnceIn
<1>7. EveryRowOnce'
  BY <1>3, <1>4, <1>5, <1>6, CommitOnce
<1>8. RowsAt(Len(snapshots))' = rows \union {k}
  <2>1. \A n : n = Len(snapshots') => RowsAt(n)' = rows \union {k}
    BY <1>3, <1>4, <1>5, CommitRows DEF RowsInv
  <2>. QED BY <2>1 DEF RowsAt
<1>9. rows \union {k} = 1..(i + 1) /\ i + 1 \in Nat
  BY <1>1, <1>2
<1>10. Numbered'
  BY <1>8, <1>9 DEF Numbered
<1>11. Current' = e.files /\ snapshots' \in Seq(Snapshot)
  BY <1>3, <1>4, CommitRows DEF Current, RowsInv
<1>. QED BY <1>3, <1>5, <1>7, <1>10, <1>11 DEF RowsInv, GroupInTable

LEMMA RewriteStep ==
  ASSUME RowsInv, RewriteCommit PROVE RowsInv'
<1> DEFINE rows == RowsAt(Len(snapshots))
<1> DEFINE e == [added |-> {}, files |-> Replaced]
<1>1. group \subseteq Current
  BY DEF RewriteCommit, RowsInv, GroupInTable
<1>2. snapshots' = Append(snapshots, e) /\ step' = "end"
  BY DEF RewriteCommit
<1>3. UNION Current = rows /\ \A f, g \in Current : f # g => f \cap g = {}
  BY CurrentOnce DEF OnceIn
<1>4. e \in Snapshot
  <2>1. Replaced \subseteq SUBSET Nat
    BY <1>1, CurrentOnce DEF Replaced
  <2>. QED BY <2>1 DEF Snapshot
<1>5. UNION Replaced = rows
  <2>1. UNION Replaced = (UNION (Current \ group)) \union UNION group
    BY UnionAdd DEF Replaced
  <2>2. UNION Current = (UNION (Current \ group)) \union UNION group
    BY <1>1, UnionSplit
  <2>. QED BY <1>3, <2>1, <2>2
<1>6. \A f \in Current \ group : f \cap UNION group = {}
  BY <1>1, <1>3
<1>7. OnceIn(Replaced, rows)
  BY <1>3, <1>5, <1>6 DEF Replaced, OnceIn
<1>8. UNION e.added = {} /\ e.files = Replaced
  OBVIOUS
<1> HIDE DEF e
<1>9. EveryRowOnce'
  BY <1>2, <1>4, <1>7, <1>8, CommitOnce
<1>10. RowsAt(Len(snapshots))' = rows /\ snapshots' \in Seq(Snapshot)
  <2>1. \A n : n = Len(snapshots') => RowsAt(n)' = rows
    <3>1. \A n : n = Len(snapshots') => RowsAt(n)' = rows \union UNION e.added
      BY <1>2, <1>4, CommitRows DEF RowsInv
    <3>2. rows \union UNION e.added = rows
      BY <1>8
    <3>. QED BY <3>1, <3>2
  <2>2. snapshots' \in Seq(Snapshot)
    BY <1>2, <1>4, CommitRows DEF RowsInv
  <2>. QED BY <2>1, <2>2 DEF RowsAt
<1>. QED BY <1>2, <1>9, <1>10 DEF RowsInv, Numbered, GroupInTable

(* The other steps do not change what was committed.                        *)
LEMMA SameSnapshots ==
  ASSUME RowsInv, UNCHANGED snapshots,
         task' = "rewrite" /\ step' = "work" => group' \subseteq Current
  PROVE  RowsInv'
<1>1. Current' = Current /\ \A n : RowsAt(n)' = RowsAt(n)
  BY DEF Current, RowsAt, Appended
<1>. QED BY <1>1 DEF RowsInv, Numbered, GroupInTable, EveryRowOnce

LEMMA RowsInit == Init => RowsInv
<1>. SUFFICES ASSUME Init PROVE RowsInv
  OBVIOUS
<1>1. snapshots = <<>> /\ Len(snapshots) = 0
  BY DEF Init
<1>2. Numbered
  <2>1. RowsAt(Len(snapshots)) = 1..0
    BY <1>1 DEF RowsAt, Appended
  <2>. QED BY <2>1 DEF Numbered
<1>3. EveryRowOnce
  BY <1>1 DEF EveryRowOnce
<1>4. GroupInTable
  BY DEF Init, GroupInTable
<1>. QED BY <1>1, <1>2, <1>3, <1>4 DEF RowsInv

LEMMA RowsStep ==
  ASSUME RowsInv, [Next]_vars PROVE RowsInv'
<1>1. CASE AppendRows
  BY <1>1, AppendStep
<1>2. CASE RewriteCommit
  BY <1>2, RewriteStep
<1>3. CASE RewritePlan
  BY <1>3, SameSnapshots DEF RewritePlan
<1>4. CASE StartDag \/ TaskFails \/ RewriteDone \/ ExpireBegin \/ ExpireCommit
  BY <1>4, SameSnapshots
  DEF StartDag, TaskFails, RewriteDone, ExpireBegin, ExpireCommit, Begin, table
<1>5. CASE ExpireDone \/ \E f \in doomed : ExpireDelete(f)
  BY <1>5, SameSnapshots DEF ExpireDone, ExpireDelete, Begin, table, RowsInv, GroupInTable
<1>6. ASSUME UNCHANGED <<table, dag>> PROVE RowsInv'
  BY <1>6, SameSnapshots DEF table, dag, RowsInv, GroupInTable
<1>7. CASE Plan \/ NextRequest \/ \E f \in request.todo : ReadFile(f)
  BY <1>6, <1>7 DEF Plan, NextRequest, ReadFile
<1>8. CASE Discover \/ Monitor \/ RestartReader \/ \E s \in stream.splits : ReadSplit(s)
  BY <1>6, <1>8 DEF Discover, Monitor, RestartReader, ReadSplit
<1>9. CASE UNCHANGED vars
  BY <1>6, <1>9 DEF vars
<1>. QED BY <1>1, <1>2, <1>3, <1>4, <1>5, <1>7, <1>8, <1>9 DEF Next, Maintenance

(* No append is lost to a rewrite that was planned before it, and no row is *)
(* in two files of a snapshot (compaction_silver.py, compaction_gold.py).   *)
THEOREM RowsOnce == Spec => []EveryRowOnce
<1>1. RowsInv => EveryRowOnce
  BY DEF RowsInv
<1>. QED BY <1>1, RowsInit, RowsStep, PTL DEF Spec

-----------------------------------------------------------------------------
(* What expiry leaves: the last RetainLast snapshots at least, with their   *)
(* files, which are not among those that it goes on to delete.              *)
Counters ==
  /\ expired \in Nat /\ (expired = 0 \/ expired + RetainLast <= Len(snapshots))
  /\ cutoff \in Nat

Kept == \A n \in (expired + 1)..Len(snapshots) : snapshots[n].files \subseteq storage \ doomed

Phases ==
  /\ doomed # {} => step = "delete"
  /\ task = "rewrite" /\ step = "work" => UNION group \in storage

AddedIsThere == \A n \in 1..Len(snapshots) : snapshots[n].added \subseteq snapshots[n].files

StorageInv ==
  Counters /\ Kept /\ Phases /\ AddedIsThere /\ doomed \subseteq SUBSET RowsAt(Len(snapshots))

LEMMA LenIsNat == ASSUME RowsInv PROVE Len(snapshots) \in Nat
  BY DEF RowsInv

(* The current snapshot is never an expired one.                            *)
LEMMA CurrentIsKept ==
  ASSUME RowsInv, StorageInv
  PROVE  Current \subseteq storage \ doomed
<1>1. CASE snapshots = <<>>
  BY <1>1 DEF Current
<1>2. CASE snapshots # <<>>
  <2>1. Len(snapshots) \in Nat /\ Len(snapshots) > 0
    BY <1>2, EmptySeq, LenProperties DEF RowsInv
  <2>2. Len(snapshots) \in (expired + 1)..Len(snapshots)
    BY <2>1, ConstantsAssumption DEF StorageInv, Counters
  <2>. QED BY <1>2, <2>2 DEF Current, StorageInv, Kept
<1>. QED BY <1>1, <1>2

LEMMA RowsGrow ==
  ASSUME RowsInv, NEW n \in 1..Len(snapshots)
  PROVE  /\ RowsAt(n) \subseteq RowsAt(Len(snapshots))
         /\ snapshots[n].files \subseteq SUBSET RowsAt(Len(snapshots))
<1>1. \A i \in 1..n : i \in 1..Len(snapshots)
  BY LenIsNat
<1>2. Appended(1, n) \subseteq Appended(1, Len(snapshots))
  BY <1>1 DEF Appended
<1>3. RowsAt(n) \subseteq RowsAt(Len(snapshots))
  BY <1>2 DEF RowsAt
<1>4. UNION snapshots[n].files = RowsAt(n)
  BY DEF RowsInv, EveryRowOnce
<1>. QED BY <1>3, <1>4

LEMMA GreatestOfTwo ==
  ASSUME NEW a \in Int, NEW b \in Int
  PROVE  Greatest({a, b}) \in {a, b} /\ Greatest({a, b}) >= a /\ Greatest({a, b}) >= b
<1>1. \E n \in {a, b} : \A m \in {a, b} : m <= n
  <2>1. CASE a <= b
    BY <2>1
  <2>2. CASE b <= a
    BY <2>2
  <2>. QED BY <2>1, <2>2
<1>. QED BY <1>1 DEF Greatest

(* A commit whose files are all there.                                      *)
LEMMA StorageCommit ==
  ASSUME RowsInv, StorageInv, NEW e \in Snapshot, snapshots' = Append(snapshots, e),
         e.added \subseteq e.files, e.files \subseteq storage' \ doomed,
         storage \subseteq storage', UNCHANGED <<expired, cutoff, doomed>>, Phases'
  PROVE  StorageInv'
<1> DEFINE k == Len(snapshots)
<1>1. /\ k \in Nat /\ Len(snapshots') = k + 1 /\ snapshots'[k + 1] = e
      /\ \A n \in 1..k : snapshots'[n] = snapshots[n]
  BY CommitRows DEF RowsInv
<1>2. \A n \in 1..Len(snapshots') : n \in 1..k \/ n = k + 1
  BY <1>1
<1>3. Counters' /\ expired \in Nat
  BY <1>1, ConstantsAssumption DEF StorageInv, Counters
<1>4. Kept'
  <2> SUFFICES ASSUME NEW n \in (expired + 1)..Len(snapshots')
               PROVE  snapshots'[n].files \subseteq storage' \ doomed
    BY DEF Kept
  <2>1. n = k + 1 \/ (n \in 1..k /\ n \in (expired + 1)..k)
    BY <1>1, <1>3
  <2>2. CASE n = k + 1
    BY <1>1, <2>2
  <2>3. CASE n \in 1..k /\ n \in (expired + 1)..k
    BY <1>1, <2>3 DEF StorageInv, Kept
  <2>. QED BY <2>1, <2>2, <2>3
<1>5. AddedIsThere'
  BY <1>1, <1>2 DEF StorageInv, AddedIsThere
<1>6. RowsAt(k) \subseteq RowsAt(Len(snapshots))'
  <2>1. \A n : n = Len(snapshots') => RowsAt(n)' = RowsAt(k) \union UNION e.added
    BY CommitRows DEF RowsInv
  <2>2. RowsAt(Len(snapshots))' = RowsAt(k) \union UNION e.added
    BY <2>1 DEF RowsAt
  <2>. QED BY <2>2
<1>7. (doomed \subseteq SUBSET RowsAt(Len(snapshots)))'
  BY <1>6 DEF StorageInv
<1>. QED BY <1>3, <1>4, <1>5, <1>7 DEF StorageInv

LEMMA StorageAppend ==
  ASSUME RowsInv, StorageInv, AppendRows PROVE StorageInv'
<1> DEFINE k == Cardinality(RowsAt(Len(snapshots))) + 1
           e == [added |-> {{k}}, files |-> Current \union {{k}}]
<1>1. PICK i \in Nat : RowsAt(Len(snapshots)) = 1..i
  BY DEF RowsInv, Numbered
<1>2. k = i + 1
  <2>1. Cardinality(1..i) = i
    BY FS_Interval
  <2>. QED BY <1>1, <2>1
<1>3. k \in Nat /\ k \notin RowsAt(Len(snapshots))
  BY <1>1, <1>2
<1>4. e \in Snapshot /\ e.added = {{k}} /\ e.files = Current \union {{k}}
  BY <1>3, CurrentOnce DEF Snapshot
<1>5. /\ snapshots' = Append(snapshots, e) /\ storage' = storage \union {{k}}
      /\ UNCHANGED <<expired, task, step, group, cutoff, doomed>>
  BY DEF AppendRows, dag
<1> HIDE DEF e, k
<1>6. {k} \notin doomed
  BY <1>3 DEF StorageInv
<1>7. e.files \subseteq storage' \ doomed
  BY <1>4, <1>5, <1>6, CurrentIsKept
<1>8. Phases'
  BY <1>5 DEF StorageInv, Phases
<1>. QED BY <1>4, <1>5, <1>7, <1>8, StorageCommit

LEMMA StorageRewrite ==
  ASSUME RowsInv, StorageInv, RewriteCommit PROVE StorageInv'
<1> DEFINE e == [added |-> {}, files |-> Replaced]
<1>1. /\ snapshots' = Append(snapshots, e) /\ step' = "end"
      /\ UNCHANGED <<expired, storage, task, group, cutoff, doomed>>
  BY DEF RewriteCommit
<1>2. UNION group \in storage /\ doomed = {} /\ group \subseteq Current
  BY DEF RewriteCommit, StorageInv, Phases, RowsInv, GroupInTable
<1>3. Replaced \subseteq storage \ doomed
  BY <1>2, CurrentIsKept DEF Replaced
<1>4. e \in Snapshot /\ e.added = {} /\ e.files = Replaced
  BY <1>2, CurrentOnce DEF Replaced, Snapshot
<1> HIDE DEF e
<1>5. Phases'
  BY <1>1, <1>2 DEF Phases
<1>. QED BY <1>1, <1>3, <1>4, <1>5, StorageCommit

(* Expiry takes no snapshot of the last RetainLast, and nothing of a later  *)
(* snapshot's files.                                                        *)
LEMMA StorageExpire ==
  ASSUME RowsInv, StorageInv, ExpireCommit PROVE StorageInv'
<1> DEFINE k == Len(snapshots)
           n == IF cutoff < k - RetainLast THEN cutoff ELSE k - RetainLast
<1>1. /\ expired' = Expirable /\ doomed' = Unreferenced(Expirable) /\ step' = "delete"
      /\ UNCHANGED <<snapshots, storage, task, group, cutoff>>
  BY DEF ExpireCommit
<1>2. k \in Nat /\ expired \in Nat /\ cutoff \in Nat /\ RetainLast \in Nat \ {0}
  BY LenIsNat, ConstantsAssumption DEF StorageInv, Counters
<1>3. n \in Int /\ n <= k - RetainLast
  BY <1>2
<1>4. Expirable = Greatest({expired, n})
  BY DEF Expirable
<1> HIDE DEF n
<1>5. Expirable \in {expired, n} /\ Expirable >= expired
  <2>1. /\ Greatest({expired, n}) \in {expired, n}
        /\ Greatest({expired, n}) >= expired
    <3>1. expired \in Int /\ n \in Int
      BY <1>2, <1>3
    <3>. QED BY <3>1, GreatestOfTwo, Zenon
  <2>. QED BY <1>4, <2>1
<1>6. Counters'
  BY <1>1, <1>2, <1>3, <1>5 DEF StorageInv, Counters
<1>7. Expirable \in Nat /\ Expirable <= k
  BY <1>2, <1>3, <1>5 DEF StorageInv, Counters
<1>8. Kept'
  <2> SUFFICES ASSUME NEW m \in (Expirable + 1)..k
               PROVE  snapshots[m].files \subseteq storage \ Unreferenced(Expirable)
    BY <1>1 DEF Kept
  <2>1. m \in (expired + 1)..k
    BY <1>2, <1>5, <1>7
  <2>2. snapshots[m].files \subseteq Referenced(Expirable + 1, k)
    BY DEF Referenced
  <2>. QED BY <2>1, <2>2 DEF StorageInv, Kept, Unreferenced
<1>9. Phases'
  BY <1>1 DEF Phases
<1>10. doomed' \subseteq SUBSET RowsAt(k)
  <2>1. \A m \in (expired + 1)..Expirable : m \in 1..k
    BY <1>2, <1>7
  <2>2. \A m \in (expired + 1)..Expirable : snapshots[m].files \subseteq SUBSET RowsAt(k)
    BY <2>1, RowsGrow
  <2>3. Referenced(expired + 1, Expirable) \subseteq SUBSET RowsAt(k)
    BY <2>2 DEF Referenced
  <2>. QED BY <1>1, <2>3 DEF Unreferenced
<1>11. RowsAt(Len(snapshots))' = RowsAt(k)
  BY <1>1 DEF RowsAt, Appended
<1>. QED BY <1>1, <1>6, <1>8, <1>9, <1>10, <1>11 DEF StorageInv, AddedIsThere

(* Steps that commit nothing and delete nothing but what is doomed.         *)
LEMMA StorageAlone ==
  ASSUME StorageInv, UNCHANGED <<snapshots, expired>>, cutoff' \in Nat, Phases',
         doomed' \subseteq doomed, storage \ doomed \subseteq storage' \ doomed'
  PROVE  StorageInv'
<1>1. RowsAt(Len(snapshots))' = RowsAt(Len(snapshots))
  BY DEF RowsAt, Appended
<1>. QED BY <1>1 DEF StorageInv, Counters, Kept, AddedIsThere

LEMMA StorageStep ==
  ASSUME RowsInv, StorageInv, [Next]_vars PROVE StorageInv'
<1>0. cutoff \in Nat
  BY DEF StorageInv, Counters
<1>1. CASE StartDag \/ TaskFails \/ RewriteDone \/ ExpireDone
  <2>1. /\ UNCHANGED <<snapshots, expired, storage>> /\ cutoff' = 0 /\ doomed' = {}
        /\ step' = "begin"
    BY <1>1 DEF StartDag, TaskFails, RewriteDone, ExpireDone, Begin, table
  <2>2. Phases'
    BY <2>1 DEF Phases
  <2>. QED BY <2>1, <2>2, StorageAlone
<1>2. CASE RewritePlan
  <2>1. /\ UNCHANGED <<snapshots, expired, cutoff, doomed>> /\ storage \subseteq storage'
        /\ doomed = {} /\ (step' = "work" => UNION group' \in storage')
    BY <1>2 DEF RewritePlan, StorageInv, Phases
  <2>2. Phases'
    BY <2>1 DEF Phases
  <2>. QED BY <1>0, <2>1, <2>2, StorageAlone
<1>3. CASE ExpireBegin
  <2>1. /\ UNCHANGED <<snapshots, expired, storage, doomed, task>> /\ cutoff' = Len(snapshots)
        /\ doomed = {} /\ task = "expire"
    BY <1>3 DEF ExpireBegin, table, StorageInv, Phases
  <2>2. Phases'
    BY <2>1 DEF Phases
  <2>. QED BY <2>1, <2>2, LenIsNat, StorageAlone
<1>4. ASSUME NEW f \in doomed, ExpireDelete(f) PROVE StorageInv'
  <2>1. /\ UNCHANGED <<snapshots, expired, cutoff, step>> /\ storage' = storage \ {f}
        /\ doomed' = doomed \ {f} /\ step = "delete"
    BY <1>4 DEF ExpireDelete
  <2>2. Phases'
    BY <2>1 DEF Phases
  <2>. QED BY <1>0, <2>1, <2>2, StorageAlone
<1>5. ASSUME UNCHANGED <<table, dag>> PROVE StorageInv'
  <2>1. Phases'
    BY <1>5 DEF table, dag, StorageInv, Phases
  <2>. QED BY <1>0, <1>5, <2>1, StorageAlone DEF table, dag
<1>6. CASE Plan \/ NextRequest \/ \E f \in request.todo : ReadFile(f)
  BY <1>5, <1>6 DEF Plan, NextRequest, ReadFile
<1>7. CASE Discover \/ Monitor \/ RestartReader \/ \E s \in stream.splits : ReadSplit(s)
  BY <1>5, <1>7 DEF Discover, Monitor, RestartReader, ReadSplit
<1>8. CASE UNCHANGED vars
  BY <1>5, <1>8 DEF vars
<1>. QED BY <1>1, <1>2, <1>3, <1>4, <1>6, <1>7, <1>8, StorageAppend, StorageRewrite, StorageExpire
         DEF Next, Maintenance

-----------------------------------------------------------------------------
(* A reader reads files of snapshots that there are or were; where a file   *)
(* is gone, its snapshot has expired.                                       *)
IsRequest(r) == r = [pc |-> r.pc, of |-> r.of, todo |-> r.todo, rows |-> r.rows]

IsStream(s) == s = [pc |-> s.pc, from |-> s.from, last |-> s.last, splits |-> s.splits, rows |-> s.rows]

ReadsFiles ==
  /\ IsRequest(request) /\ request.of \in Nat
  /\ request.pc = "read" =>
       request.of \in 1..Len(snapshots) /\ request.todo \subseteq snapshots[request.of].files
  /\ OnlyOldPlansFail

StreamsFiles ==
  /\ IsStream(stream) /\ stream.last \in Nat
  /\ \A s \in stream.splits : s.of \in 1..Len(snapshots) /\ s.file \in snapshots[s.of].files
  /\ OnlyLaggardsStick

LEMMA GoneIsExpired ==
  ASSUME RowsInv, StorageInv, NEW n \in 1..Len(snapshots), NEW f \in snapshots[n].files,
         f \notin storage
  PROVE  Len(snapshots) - n >= RetainLast
<1>1. n \notin (expired + 1)..Len(snapshots)
  BY DEF StorageInv, Kept
<1>. QED BY <1>1, LenIsNat, ConstantsAssumption DEF StorageInv, Counters

LEMMA CurrentFiles ==
  ASSUME RowsInv, Current # {}
  PROVE  Len(snapshots) \in 1..Len(snapshots) /\ Current = snapshots[Len(snapshots)].files
<1>1. snapshots # <<>>
  BY DEF Current
<1>. QED BY <1>1, EmptySeq, LenProperties DEF RowsInv, Current

(* The table goes on; what a reader holds is not touched.                   *)
LEMMA ReadersAlone ==
  ASSUME RowsInv, UNCHANGED <<request, stream>>, Len(snapshots') \in Nat,
         Len(snapshots') >= Len(snapshots),
         \A n \in 1..Len(snapshots) : snapshots'[n] = snapshots[n]
  PROVE  (ReadsFiles => ReadsFiles') /\ (StreamsFiles => StreamsFiles')
<1>1. Len(snapshots) \in Nat /\ RetainLast \in Nat
  BY LenIsNat, ConstantsAssumption
<1>2. ReadsFiles => ReadsFiles'
  BY <1>1 DEF ReadsFiles, OnlyOldPlansFail
<1>3. ASSUME StreamsFiles PROVE OnlyLaggardsStick'
  BY <1>1, <1>3 DEF StreamsFiles, OnlyLaggardsStick
<1>4. StreamsFiles => StreamsFiles'
  BY <1>1, <1>3 DEF StreamsFiles
<1>. QED BY <1>2, <1>4

LEMMA ReadStep ==
  ASSUME RowsInv, StorageInv, ReadsFiles, [Next]_vars, UNCHANGED snapshots
  PROVE  ReadsFiles'
<1>1. CASE UNCHANGED request
  BY <1>1 DEF ReadsFiles, OnlyOldPlansFail
<1>2. CASE Plan
  <2>1. request' = [pc |-> IF Current = {} THEN "answered" ELSE "read",
                    of |-> Len(snapshots), todo |-> Current, rows |-> EmptyBag]
    BY <1>2 DEF Plan
  <2>2. /\ request'.pc \in {"answered", "read"} /\ (request'.pc = "read" => Current # {})
        /\ request'.of = Len(snapshots) /\ request'.todo = Current /\ IsRequest(request')
    BY <2>1 DEF IsRequest
  <2>. QED BY <2>2, LenIsNat, CurrentFiles DEF ReadsFiles, OnlyOldPlansFail
<1>3. ASSUME NEW f \in request.todo, ReadFile(f) PROVE ReadsFiles'
  <2>1. request.pc = "read" /\ request.of \in 1..Len(snapshots) /\ f \in snapshots[request.of].files
    BY <1>3 DEF ReadFile, ReadsFiles
  <2>2. CASE f \in storage
    <3>1. /\ request'.pc \in {"answered", "read"} /\ request'.of = request.of
          /\ request'.todo \subseteq request.todo /\ IsRequest(request')
      BY <1>3, <2>2 DEF ReadFile, ReadsFiles, IsRequest
    <3>. QED BY <2>1, <3>1 DEF ReadsFiles, OnlyOldPlansFail
  <2>3. CASE f \notin storage
    <3>1. request'.pc = "failed" /\ request'.of = request.of /\ IsRequest(request')
      BY <1>3, <2>3 DEF ReadFile, ReadsFiles, IsRequest
    <3>2. Len(snapshots) - request.of >= RetainLast
      BY <2>1, <2>3, GoneIsExpired
    <3>. QED BY <2>1, <3>1, <3>2 DEF ReadsFiles, OnlyOldPlansFail
  <2>. QED BY <2>2, <2>3
<1>4. CASE NextRequest
  BY <1>4 DEF NextRequest, NoRequest, ReadsFiles, OnlyOldPlansFail, IsRequest
<1>5. CASE AppendRows \/ Maintenance
  BY <1>1, <1>5 DEF AppendRows, Maintenance, StartDag, TaskFails, RewritePlan, RewriteCommit,
                    RewriteDone, ExpireBegin, ExpireCommit, ExpireDone, ExpireDelete
<1>6. CASE Discover \/ Monitor \/ RestartReader \/ \E s \in stream.splits : ReadSplit(s)
  BY <1>1, <1>6 DEF Discover, Monitor, RestartReader, ReadSplit
<1>7. CASE UNCHANGED vars
  BY <1>1, <1>7 DEF vars
<1>. QED BY <1>2, <1>3, <1>4, <1>5, <1>6, <1>7 DEF Next

(* What a reader takes up are files of the snapshots they came with.        *)
LEMMA SplitFiles ==
  ASSUME StorageInv, NEW n \in 1..Len(snapshots), NEW s \in Split(n)
  PROVE  s.of = n /\ s.file \in snapshots[n].files
BY DEF Split, StorageInv, AddedIsThere

LEMMA StreamStep ==
  ASSUME RowsInv, StorageInv, StreamsFiles, [Next]_vars, UNCHANGED snapshots
  PROVE  StreamsFiles'
<1> DEFINE k == Len(snapshots)
<1>0. k \in Nat /\ RetainLast \in Nat \ {0} /\ stream.last \in Nat
  BY LenIsNat, ConstantsAssumption DEF StreamsFiles
<1>1. CASE UNCHANGED stream
  BY <1>1 DEF StreamsFiles, OnlyLaggardsStick
<1>2. CASE Discover
  <2>1. k \in 1..k /\ Current = snapshots[k].files
    BY <1>2, EmptySeq, LenProperties DEF Discover, Current, RowsInv
  <2>2. PICK splits \in {{[of |-> k, file |-> f] : f \in Current}, Split(k)} :
          stream' = [pc |-> "run", last |-> k, splits |-> splits, rows |-> EmptyBag,
                     from |-> IF splits = Split(k) THEN k - 1 ELSE 0]
    BY <1>2 DEF Discover
  <2>3. stream'.pc = "run" /\ stream'.last = k /\ stream'.splits = splits /\ IsStream(stream')
    BY <2>2 DEF IsStream
  <2>4. \A s \in splits : s.of = k /\ s.file \in snapshots[k].files
    BY <2>1, <2>2, SplitFiles
  <2>. QED BY <1>0, <2>1, <2>3, <2>4 DEF StreamsFiles, OnlyLaggardsStick
<1>3. CASE Monitor
  <2>1. CASE stream.last >= expired
    <3>1. /\ stream'.pc = "run" /\ stream'.last = k /\ IsStream(stream')
          /\ stream'.splits = stream.splits \union NewSplits
      BY <1>3, <2>1 DEF Monitor, StreamsFiles, IsStream
    <3>2. \A s \in NewSplits : s.of \in 1..k /\ s.file \in snapshots[s.of].files
      <4>1. \A n \in (stream.last + 1)..k : n \in 1..k
        BY <1>0
      <4>. QED BY <4>1, SplitFiles DEF NewSplits
    <3>. QED BY <1>0, <3>1, <3>2 DEF StreamsFiles, OnlyLaggardsStick
  <2>2. CASE ~(stream.last >= expired)
    <3>1. /\ stream'.pc = "stuck" /\ stream'.last = stream.last /\ IsStream(stream')
          /\ stream'.splits = stream.splits
      BY <1>3, <2>2 DEF Monitor, StreamsFiles, IsStream
    <3>2. k - stream.last > RetainLast
      BY <1>0, <2>2 DEF StorageInv, Counters
    <3>. QED BY <3>1, <3>2 DEF StreamsFiles, OnlyLaggardsStick
  <2>. QED BY <2>1, <2>2
<1>4. ASSUME NEW s \in stream.splits, ReadSplit(s) PROVE StreamsFiles'
  <2>1. CASE s.file \in storage
    <3>1. /\ stream'.pc = "run" /\ stream'.last = stream.last /\ IsStream(stream')
          /\ stream'.splits \subseteq stream.splits
      BY <1>4, <2>1 DEF ReadSplit, StreamsFiles, IsStream
    <3>. QED BY <3>1 DEF StreamsFiles, OnlyLaggardsStick
  <2>2. CASE s.file \notin storage
    <3>1. /\ stream'.pc = "stuck" /\ stream'.last = stream.last /\ IsStream(stream')
          /\ stream'.splits = stream.splits
      BY <1>4, <2>2 DEF ReadSplit, StreamsFiles, IsStream
    <3>2. k - s.of >= RetainLast
      BY <2>2, GoneIsExpired DEF StreamsFiles
    <3>. QED BY <3>1, <3>2 DEF StreamsFiles, OnlyLaggardsStick
  <2>. QED BY <2>1, <2>2
<1>5. CASE RestartReader
  BY <1>5 DEF RestartReader, NewReader, StreamsFiles, OnlyLaggardsStick, IsStream
<1>6. CASE AppendRows \/ Maintenance
  BY <1>1, <1>6 DEF AppendRows, Maintenance, StartDag, TaskFails, RewritePlan, RewriteCommit,
                    RewriteDone, ExpireBegin, ExpireCommit, ExpireDone, ExpireDelete
<1>7. CASE Plan \/ NextRequest \/ \E f \in request.todo : ReadFile(f)
  BY <1>1, <1>7 DEF Plan, NextRequest, ReadFile
<1>8. CASE UNCHANGED vars
  BY <1>1, <1>8 DEF vars
<1>. QED BY <1>2, <1>3, <1>4, <1>5, <1>6, <1>7, <1>8 DEF Next

TableInv == RowsInv /\ StorageInv /\ ReadsFiles /\ StreamsFiles

LEMMA TableStep ==
  ASSUME TableInv, [Next]_vars PROVE TableInv'
<1>1. CASE UNCHANGED snapshots
  BY <1>1, RowsStep, StorageStep, ReadStep, StreamStep DEF TableInv
<1>2. CASE AppendRows \/ RewriteCommit
  <2>1. RowsInv' /\ StorageInv'
    BY RowsStep, StorageStep DEF TableInv
  <2>2. PICK e : snapshots' = Append(snapshots, e)
    BY <1>2 DEF AppendRows, RewriteCommit
  <2>3. /\ Len(snapshots') \in Nat /\ Len(snapshots') >= Len(snapshots)
        /\ \A n \in 1..Len(snapshots) : snapshots'[n] = snapshots[n]
    BY <2>2 DEF TableInv, RowsInv
  <2>4. UNCHANGED <<request, stream>>
    BY <1>2 DEF AppendRows, RewriteCommit
  <2>. QED BY <2>1, <2>3, <2>4, ReadersAlone DEF TableInv
<1>3. UNCHANGED snapshots \/ AppendRows \/ RewriteCommit
  BY DEF Next, Maintenance, StartDag, TaskFails, RewritePlan, RewriteDone, ExpireBegin,
         ExpireCommit, ExpireDone, ExpireDelete, Plan, NextRequest, ReadFile, Discover, Monitor,
         RestartReader, ReadSplit, table, vars
<1>. QED BY <1>1, <1>2, <1>3

LEMMA TableInit == Init => TableInv
<1>. SUFFICES ASSUME Init PROVE TableInv
  OBVIOUS
<1>1. Len(snapshots) = 0 /\ \A i : i \notin 1..0
  BY DEF Init
<1>2. StorageInv
  BY <1>1 DEF Init, StorageInv, Counters, Kept, Phases, AddedIsThere
<1>3. ReadsFiles
  BY DEF Init, NoRequest, ReadsFiles, IsRequest, OnlyOldPlansFail
<1>4. StreamsFiles
  BY DEF Init, NewReader, StreamsFiles, IsStream, OnlyLaggardsStick
<1>. QED BY <1>2, <1>3, <1>4, RowsInit DEF TableInv

(* A request fails only when RetainLast snapshots came after its plan: what *)
(* a rewrite replaces and expiry deletes is of older ones (expire_snapshots *)
(* .py retain_last; the duckdb reads of the API).                           *)
THEOREM OldPlansFail == Spec => []OnlyOldPlansFail
<1>1. TableInv => OnlyOldPlansFail
  BY DEF TableInv, ReadsFiles
<1>. QED BY <1>1, TableInit, TableStep, PTL DEF Spec

(* The stream gets stuck only behind RetainLast snapshots (expire_snapshots *)
(* .py retain_last; the streaming source of silver_to_gold.py).             *)
THEOREM LaggardsStick == Spec => []OnlyLaggardsStick
<1>1. TableInv => OnlyLaggardsStick
  BY DEF TableInv, StreamsFiles
<1>. QED BY <1>1, TableInit, TableStep, PTL DEF Spec

-----------------------------------------------------------------------------
(* To its readers the table only grows.                                     *)

(* No file is empty, and what an append brings was not there before.        *)
NewRows ==
  /\ \A n \in 1..Len(snapshots) : {} \notin snapshots[n].files
  /\ task = "rewrite" /\ step = "work" => group # {}
  /\ \A n \in 1..Len(snapshots) : (UNION snapshots[n].added) \cap RowsAt(n - 1) = {}

(* A request has the rows of the snapshot it planned but those of the files *)
(* it has yet to read.                                                      *)
RequestRows ==
  request.pc = "read" =>
    request.rows = SetToBag(RowsAt(request.of) \ UNION request.todo)

Due == UNION {s.file : s \in stream.splits}

(* The rows a stream has yet to hand on are those it has come to, without   *)
(* those from before it began and those it has handed on.                   *)
StreamRows ==
  /\ stream.from \in 0..Len(snapshots)
  /\ stream.pc = "run" =>
       /\ stream.last \in stream.from..Len(snapshots)
       /\ DOMAIN stream.rows \subseteq RowsAt(stream.last)
       /\ Due = RowsAt(stream.last) \ (RowsAt(stream.from) \union DOMAIN stream.rows)
       /\ \A s, t \in stream.splits : s # t => s.file \cap t.file = {}

ViewInv == NewRows /\ RequestRows /\ StreamRows

-----------------------------------------------------------------------------
LEMMA InRows ==
  \A n, x : x \in RowsAt(n) <=> \E i \in 1..n : x \in UNION snapshots[i].added
<1> SUFFICES ASSUME NEW n, NEW x
             PROVE  x \in RowsAt(n) <=> \E i \in 1..n : x \in UNION snapshots[i].added
  OBVIOUS
<1>1. Appended(1, n) = UNION {snapshots[i].added : i \in 1..n}
  BY DEF Appended
<1>2. x \in RowsAt(n) <=> \E f \in Appended(1, n) : x \in f
  BY DEF RowsAt
<1>3. \A f : f \in Appended(1, n) <=> \E i \in 1..n : f \in snapshots[i].added
  BY <1>1
<1>. QED BY <1>2, <1>3

LEMMA RowsMore ==
  ASSUME NEW n \in Nat, NEW m \in Nat, m <= n
  PROVE  RowsAt(m) \subseteq RowsAt(n)
<1>1. \A i \in 1..m : i \in 1..n
  OBVIOUS
<1>. QED BY <1>1, InRows

LEMMA NoRows == RowsAt(0) = {}
<1>1. \A i : i \notin 1..0
  OBVIOUS
<1>. QED BY <1>1, InRows

LEMMA RowsAdded ==
  ASSUME NEW n \in Nat \ {0}
  PROVE  /\ n - 1 \in Nat
         /\ RowsAt(n) = RowsAt(n - 1) \union UNION snapshots[n].added
<1>1. n \in 1..n /\ (\A i \in 1..(n - 1) : i \in 1..n) /\ \A i \in 1..n : i # n => i \in 1..(n - 1)
  OBVIOUS
<1>. QED BY <1>1, InRows

(* What the snapshots after a first one brought.                            *)
LEMMA RowsBetween ==
  ASSUME RowsInv, NewRows, NEW m \in 0..Len(snapshots)
  PROVE  /\ UNION {s.file : s \in UNION {Split(n) : n \in (m + 1)..Len(snapshots)}}
              = RowsAt(Len(snapshots)) \ RowsAt(m)
         /\ \A n \in (m + 1)..Len(snapshots) : (UNION snapshots[n].added) \cap RowsAt(m) = {}
<1>1. PICK k \in Nat : k = Len(snapshots)
  BY LenIsNat
<1>2. ASSUME NEW n \in (m + 1)..k PROVE (UNION snapshots[n].added) \cap RowsAt(m) = {}
  <2>1. n \in 1..k /\ n - 1 \in Nat /\ m \in Nat /\ m <= n - 1
    BY <1>1
  <2>2. RowsAt(m) \subseteq RowsAt(n - 1)
    BY <2>1, RowsMore
  <2>. QED BY <1>1, <2>1, <2>2 DEF NewRows
<1> DEFINE new == UNION {Split(n) : n \in (m + 1)..k}
<1>3. \A x : x \in UNION {s.file : s \in new} <=>
              \E n \in (m + 1)..k : x \in UNION snapshots[n].added
  <2>1. \A s : s \in new <=> \E n \in (m + 1)..k : s \in Split(n)
    OBVIOUS
  <2>2. \A n, s : s \in Split(n) <=> \E f \in snapshots[n].added : s = [of |-> n, file |-> f]
    BY DEF Split
  <2>3. \A n, f : [of |-> n, file |-> f].file = f
    OBVIOUS
  <2> HIDE DEF new
  <2>4. \A x : x \in UNION {s.file : s \in new} <=> \E s \in new : x \in s.file
    OBVIOUS
  <2>5. ASSUME NEW x, NEW s \in new, x \in s.file
        PROVE  \E n \in (m + 1)..k : x \in UNION snapshots[n].added
    <3>1. PICK n \in (m + 1)..k : s \in Split(n)
      BY <2>1
    <3>2. PICK f \in snapshots[n].added : s = [of |-> n, file |-> f]
      BY <2>2, <3>1
    <3>. QED BY <2>5, <3>2
  <2>6. ASSUME NEW x, NEW n \in (m + 1)..k, NEW f \in snapshots[n].added, x \in f
        PROVE  \E s \in new : x \in s.file
    <3>1. [of |-> n, file |-> f] \in new
      BY <2>1, <2>2
    <3>. QED BY <2>3, <2>6, <3>1
  <2>. QED BY <2>4, <2>5, <2>6
<1>4. \A i \in 1..k : i \in 1..m \/ i \in (m + 1)..k
  BY <1>1
<1>5. \A i \in (m + 1)..k : i \in 1..k
  BY <1>1
<1>6. UNION {s.file : s \in new} = RowsAt(k) \ RowsAt(m)
  <2>1. ASSUME NEW x PROVE (\E n \in (m + 1)..k : x \in UNION snapshots[n].added)
                             <=> x \in RowsAt(k) \ RowsAt(m)
    BY <1>2, <1>4, <1>5, InRows
  <2> HIDE DEF new
  <2>. QED BY <1>3, <2>1
<1>. QED BY <1>1, <1>2, <1>6

(* A commit leaves the rows of the snapshots before as they are.            *)
LEMMA CommitKeeps ==
  ASSUME TableInv, AppendRows \/ RewriteCommit
  PROVE  /\ Len(snapshots') = Len(snapshots) + 1
         /\ \A n \in 0..Len(snapshots) : RowsAt(n)' = RowsAt(n)
         /\ UNCHANGED <<request, stream>>
<1>1. PICK e : snapshots' = Append(snapshots, e)
  BY DEF AppendRows, RewriteCommit
<1>2. e \in Snapshot
  <2>1. Len(snapshots') \in 1..Len(snapshots') /\ snapshots'[Len(snapshots')] = e
    BY <1>1 DEF TableInv, RowsInv
  <2>2. Next
    BY DEF Next, Maintenance
  <2>3. TableInv'
    BY <2>2, TableStep
  <2>. QED BY <2>1, <2>3 DEF TableInv, RowsInv
<1>3. \A n \in 0..Len(snapshots) : RowsAt(n)' = RowsAt(n)
  BY <1>1, <1>2, CommitRows DEF TableInv, RowsInv
<1>4. Len(snapshots') = Len(snapshots) + 1
  BY <1>1 DEF TableInv, RowsInv
<1>. QED BY <1>3, <1>4 DEF AppendRows, RewriteCommit

(* The files that an append or a rewrite commits.                           *)
LEMMA CommitNew ==
  ASSUME TableInv, NewRows, AppendRows \/ RewriteCommit
  PROVE  \E e \in Snapshot :
           /\ snapshots' = Append(snapshots, e) /\ {} \notin e.files
           /\ (UNION e.added) \cap RowsAt(Len(snapshots)) = {}
           /\ ~(task' = "rewrite" /\ step' = "work") \/ UNCHANGED <<task, step, group>>
<1>1. Current \subseteq SUBSET Nat /\ {} \notin Current
  <2>1. Current # {} => Len(snapshots) \in 1..Len(snapshots)
                        /\ Current = snapshots[Len(snapshots)].files
    BY CurrentFiles DEF TableInv
  <2>. QED BY <2>1, CurrentOnce DEF TableInv, NewRows
<1>2. CASE AppendRows
  <2> DEFINE k == Cardinality(RowsAt(Len(snapshots))) + 1
  <2>1. PICK i \in Nat : RowsAt(Len(snapshots)) = 1..i
    BY DEF TableInv, RowsInv, Numbered
  <2>2. k = i + 1
    <3>1. Cardinality(1..i) = i
      BY FS_Interval
    <3>. QED BY <2>1, <3>1
  <2>3. PICK j \in Nat : j = k /\ j \notin RowsAt(Len(snapshots))
    BY <2>1, <2>2
  <2>4. snapshots' = Append(snapshots, [added |-> {{j}}, files |-> Current \union {{j}}])
        /\ UNCHANGED <<task, step, group>>
    BY <1>2, <2>3 DEF AppendRows, dag
  <2> HIDE DEF k
  <2>5. PICK e : e = [added |-> {{j}}, files |-> Current \union {{j}}]
    OBVIOUS
  <2>6. e \in Snapshot
    BY <1>1, <2>3, <2>5 DEF Snapshot
  <2>7. e.added = {{j}} /\ e.files = Current \union {{j}}
    BY <2>5
  <2>8. {} \notin e.files /\ (UNION e.added) \cap RowsAt(Len(snapshots)) = {}
    BY <1>1, <2>3, <2>7
  <2>. QED BY <2>4, <2>5, <2>6, <2>8
<1>3. CASE RewriteCommit
  <2>1. /\ snapshots' = Append(snapshots, [added |-> {}, files |-> Replaced])
        /\ step' = "end" /\ task = "rewrite" /\ step = "work"
    BY <1>3 DEF RewriteCommit
  <2>2. group \subseteq Current /\ group # {}
    BY <2>1 DEF TableInv, RowsInv, GroupInTable, NewRows
  <2>3. PICK f \in group : f # {} /\ f \in Current
    BY <1>1, <2>2
  <2>4. UNION group # {} /\ UNION group \subseteq Nat
    BY <1>1, <2>2, <2>3
  <2>5. {} \notin Replaced /\ Replaced \subseteq SUBSET Nat
    BY <1>1, <2>4 DEF Replaced
  <2>6. PICK e : e = [added |-> {}, files |-> Replaced]
    OBVIOUS
  <2>7. e \in Snapshot /\ e.added = {} /\ e.files = Replaced
    BY <2>5, <2>6 DEF Snapshot
  <2>. QED BY <2>1, <2>5, <2>6, <2>7
<1>. QED BY <1>2, <1>3

LEMMA NewRowsStep ==
  ASSUME TableInv, NewRows, [Next]_vars PROVE NewRows'
<1>1. CASE AppendRows \/ RewriteCommit
  <2>1. PICK e \in Snapshot :
          /\ snapshots' = Append(snapshots, e) /\ {} \notin e.files
          /\ (UNION e.added) \cap RowsAt(Len(snapshots)) = {}
          /\ ~(task' = "rewrite" /\ step' = "work") \/ UNCHANGED <<task, step, group>>
    BY <1>1, CommitNew
  <2>2. PICK k \in Nat : k = Len(snapshots)
    BY LenIsNat DEF TableInv
  <2>3. /\ Len(snapshots') = k + 1 /\ snapshots'[k + 1] = e
        /\ \A n \in 1..k : snapshots'[n] = snapshots[n]
        /\ \A n \in 0..k : RowsAt(n)' = RowsAt(n)
    BY <2>1, <2>2, CommitRows DEF TableInv, RowsInv
  <2>4. \A n \in 1..(k + 1) : n \in 1..k \/ n = k + 1
    OBVIOUS
  <2>5. \A n \in 1..Len(snapshots') : {} \notin snapshots'[n].files
    BY <2>1, <2>2, <2>3, <2>4 DEF NewRows
  <2>6. ASSUME NEW n \in 1..(k + 1)
        PROVE  (UNION snapshots'[n].added) \cap RowsAt(n - 1)' = {}
    <3>1. CASE n \in 1..k
      <4>1. n - 1 \in 0..k
        BY <3>1
      <4>2. RowsAt(n - 1)' = RowsAt(n - 1)
        BY <2>3, <4>1
      <4>. QED BY <2>2, <2>3, <3>1, <4>2 DEF NewRows
    <3>2. CASE n = k + 1
      <4>1. n - 1 = k /\ k \in 0..k
        BY <3>2
      <4>2. RowsAt(n - 1)' = RowsAt(k)
        <5>1. RowsAt(k)' = RowsAt(k)
          BY <2>3, <4>1
        <5>. QED BY <4>1, <5>1
      <4>. QED BY <2>1, <2>2, <2>3, <3>2, <4>2
    <3>. QED BY <2>4, <3>1, <3>2
  <2>. QED BY <2>1, <2>3, <2>5, <2>6 DEF NewRows
<1>2. ASSUME UNCHANGED snapshots, task' = "rewrite" /\ step' = "work" => group' # {}
      PROVE  NewRows'
  <2>1. \A n : RowsAt(n)' = RowsAt(n)
    BY <1>2 DEF RowsAt, Appended
  <2>. QED BY <1>2, <2>1 DEF NewRows
<1>3. CASE RewritePlan
  <2>1. step' = "work" => \E S \in SUBSET Current : Cardinality(S) >= 2 /\ group' = S
    BY <1>3 DEF RewritePlan
  <2>2. step' = "work" => group' # {}
    BY <2>1, FS_EmptySet
  <2>. QED BY <1>2, <1>3, <2>2 DEF RewritePlan
<1>4. CASE StartDag \/ TaskFails \/ RewriteDone \/ ExpireDone \/ ExpireBegin \/ ExpireCommit
  BY <1>2, <1>4 DEF StartDag, TaskFails, RewriteDone, ExpireDone, ExpireBegin, ExpireCommit,
                    Begin, table
<1>5. ASSUME UNCHANGED <<snapshots, task, step, group>> PROVE NewRows'
  BY <1>2, <1>5 DEF NewRows
<1>6. CASE \E f \in doomed : ExpireDelete(f)
  BY <1>5, <1>6 DEF ExpireDelete
<1>7. CASE Plan \/ NextRequest \/ \E f \in request.todo : ReadFile(f)
  BY <1>5, <1>7 DEF Plan, NextRequest, ReadFile, table, dag
<1>8. CASE Discover \/ Monitor \/ RestartReader \/ \E s \in stream.splits : ReadSplit(s)
  BY <1>5, <1>8 DEF Discover, Monitor, RestartReader, ReadSplit, table, dag
<1>9. CASE UNCHANGED vars
  BY <1>5, <1>9 DEF vars, table, dag
<1>. QED BY <1>1, <1>3, <1>4, <1>6, <1>7, <1>8, <1>9 DEF Next, Maintenance

-----------------------------------------------------------------------------
LEMMA BagAdd ==
  ASSUME NEW A, NEW B, A \cap B = {}
  PROVE  SetToBag(A) (+) SetToBag(B) = SetToBag(A \union B)
<1>1. DOMAIN SetToBag(A) = A /\ DOMAIN SetToBag(B) = B
  BY DEF SetToBag
<1>2. \A x \in A : SetToBag(A)[x] = 1
  BY DEF SetToBag
<1>3. \A x \in B : SetToBag(B)[x] = 1
  BY DEF SetToBag
<1>4. SetToBag(A) (+) SetToBag(B) =
        [e \in A \union B |-> (IF e \in A THEN SetToBag(A)[e] ELSE 0)
                             + (IF e \in B THEN SetToBag(B)[e] ELSE 0)]
  BY <1>1 DEF (+)
<1>5. \A e \in A \union B : (IF e \in A THEN SetToBag(A)[e] ELSE 0)
                             + (IF e \in B THEN SetToBag(B)[e] ELSE 0) = 1
  BY <1>2, <1>3
<1>. QED BY <1>4, <1>5 DEF SetToBag

LEMMA BagDomain ==
  ASSUME NEW A, NEW B PROVE DOMAIN (A (+) SetToBag(B)) = (DOMAIN A) \union B
<1>1. DOMAIN SetToBag(B) = B
  BY DEF SetToBag
<1>. QED BY <1>1 DEF (+)

(* One more file of a request.                                              *)
LEMMA OneMore ==
  ASSUME TableInv, RequestRows, request.pc = "read", NEW f \in request.todo
  PROVE  request.rows (+) SetToBag(f)
           = SetToBag(RowsAt(request.of) \ UNION (request.todo \ {f}))
<1>1. PICK n \in 1..Len(snapshots) : n = request.of /\ request.todo \subseteq snapshots[n].files
  BY DEF TableInv, ReadsFiles
<1>2. /\ UNION snapshots[n].files = RowsAt(n)
      /\ \A g, h \in snapshots[n].files : g # h => g \cap h = {}
  BY DEF TableInv, RowsInv, EveryRowOnce
<1>3. f \subseteq RowsAt(n) /\ \A g \in request.todo \ {f} : g \cap f = {}
  BY <1>1, <1>2
<1>4. UNION request.todo = (UNION (request.todo \ {f})) \union f
  <2>1. {f} \in SUBSET request.todo /\ UNION {f} = f
    OBVIOUS
  <2>. QED BY <2>1, UnionSplit
<1>5. (UNION (request.todo \ {f})) \cap f = {}
  BY <1>3
<1>6. /\ (RowsAt(n) \ UNION request.todo) \cap f = {}
      /\ (RowsAt(n) \ UNION request.todo) \union f = RowsAt(n) \ UNION (request.todo \ {f})
  BY <1>3, <1>4, <1>5
<1>7. request.rows = SetToBag(RowsAt(n) \ UNION request.todo)
  BY <1>1 DEF RequestRows
<1>. QED BY <1>1, <1>6, <1>7, BagAdd

LEMMA RequestRowsStep ==
  ASSUME TableInv, RequestRows, [Next]_vars PROVE RequestRows'
<1>1. ASSUME UNCHANGED request, request.pc = "read" => RowsAt(request.of)' = RowsAt(request.of)
      PROVE  RequestRows'
  BY <1>1 DEF RequestRows
<1>2. CASE AppendRows \/ RewriteCommit
  <2>1. (\A n \in 0..Len(snapshots) : RowsAt(n)' = RowsAt(n)) /\ UNCHANGED request
    BY <1>2, CommitKeeps
  <2>3. ASSUME request.pc = "read" PROVE RowsAt(request.of)' = RowsAt(request.of)
    <3>1. PICK n \in 0..Len(snapshots) : n = request.of
      BY <2>3 DEF TableInv, ReadsFiles
    <3>2. RowsAt(n)' = RowsAt(n)
      BY <2>1
    <3>. QED BY <2>1, <3>1, <3>2 DEF RowsAt, Appended
  <2>. QED BY <1>1, <2>1, <2>3
<1>3. ASSUME UNCHANGED <<snapshots, request>> PROVE RequestRows'
  BY <1>1, <1>3 DEF RowsAt, Appended
<1>4. CASE Plan
  <2>1. request' = [pc |-> IF Current = {} THEN "answered" ELSE "read",
                    of |-> Len(snapshots), todo |-> Current, rows |-> EmptyBag]
        /\ UNCHANGED snapshots
    BY <1>4 DEF Plan, table
  <2>2. request'.of = Len(snapshots) /\ request'.todo = Current /\ request'.rows = EmptyBag
    BY <2>1
  <2>3. RowsAt(request.of)' = RowsAt(Len(snapshots))
    BY <2>1, <2>2 DEF RowsAt, Appended
  <2>4. RowsAt(Len(snapshots)) \ UNION Current = {}
    BY CurrentOnce DEF TableInv, OnceIn
  <2>. QED BY <2>2, <2>3, <2>4 DEF RequestRows, EmptyBag
<1>5. ASSUME NEW f \in request.todo, ReadFile(f) PROVE RequestRows'
  <2>1. UNCHANGED snapshots /\ request.pc = "read"
    BY <1>5 DEF ReadFile, table
  <2>2. CASE f \in storage
    <3>1. /\ request'.of = request.of /\ request'.todo = request.todo \ {f}
          /\ request'.rows = request.rows (+) SetToBag(f)
      BY <1>5, <2>2 DEF ReadFile, TableInv, ReadsFiles, IsRequest
    <3>2. RowsAt(request.of)' = RowsAt(request.of)
      BY <2>1, <3>1 DEF RowsAt, Appended
    <3>. QED BY <2>1, <3>1, <3>2, OneMore DEF RequestRows
  <2>3. CASE f \notin storage
    <3>1. request'.pc = "failed"
      BY <1>5, <2>3 DEF ReadFile, TableInv, ReadsFiles, IsRequest
    <3>. QED BY <3>1 DEF RequestRows
  <2>. QED BY <2>2, <2>3
<1>6. CASE NextRequest
  BY <1>6 DEF NextRequest, NoRequest, RequestRows
<1>7. CASE Maintenance /\ ~RewriteCommit
  BY <1>3, <1>7 DEF Maintenance, StartDag, TaskFails, RewritePlan, RewriteDone, ExpireBegin,
                    ExpireCommit, ExpireDone, ExpireDelete, table
<1>8. CASE Discover \/ Monitor \/ RestartReader \/ \E s \in stream.splits : ReadSplit(s)
  BY <1>3, <1>8 DEF Discover, Monitor, RestartReader, ReadSplit, table
<1>9. CASE UNCHANGED vars
  BY <1>3, <1>9 DEF vars, table
<1>. QED BY <1>2, <1>4, <1>5, <1>6, <1>7, <1>8, <1>9 DEF Next

(* The splits of the snapshots from m on, where a stream begins or goes on. *)
LEMMA NewSplitsApart ==
  ASSUME TableInv, NewRows, NEW m \in 0..Len(snapshots)
  PROVE  \A s, t \in UNION {Split(n) : n \in (m + 1)..Len(snapshots)} :
           s # t => s.file \cap t.file = {}
<1>1. PICK k \in Nat : k = Len(snapshots)
  BY LenIsNat DEF TableInv
<1>2. ASSUME NEW n \in (m + 1)..k, NEW s \in Split(n)
      PROVE  /\ n \in 1..k /\ s.of = n /\ s.file \in snapshots[n].added
             /\ s = [of |-> n, file |-> s.file]
  BY <1>1 DEF Split
<1>3. ASSUME NEW n \in (m + 1)..k, NEW i \in (m + 1)..k, i < n,
             NEW s \in Split(n), NEW t \in Split(i)
      PROVE  s.file \cap t.file = {}
  <2>1. i \in 0..Len(snapshots) /\ n \in (i + 1)..Len(snapshots) /\ i \in 1..i
    BY <1>1, <1>3
  <2>2. (UNION snapshots[n].added) \cap RowsAt(i) = {}
    BY <2>1, RowsBetween DEF TableInv
  <2>3. UNION snapshots[i].added \subseteq RowsAt(i)
    BY <2>1, InRows
  <2>. QED BY <1>2, <2>2, <2>3
<1>4. ASSUME NEW n \in (m + 1)..k, NEW s \in Split(n), NEW t \in Split(n), s # t
      PROVE  s.file \cap t.file = {}
  <2>1. s.file # t.file
    BY <1>2, <1>4
  <2>2. snapshots[n].added \subseteq snapshots[n].files
    BY <1>1, <1>2 DEF TableInv, StorageInv, AddedIsThere
  <2>. QED BY <1>1, <1>2, <2>1, <2>2 DEF TableInv, RowsInv, EveryRowOnce
<1> SUFFICES ASSUME NEW n \in (m + 1)..k, NEW i \in (m + 1)..k,
                    NEW s \in Split(n), NEW t \in Split(i), s # t
             PROVE  s.file \cap t.file = {}
  BY <1>1
<1>5. n < i \/ i < n \/ i = n
  OBVIOUS
<1>6. CASE n < i
  <2>1. t.file \cap s.file = {}
    BY <1>3, <1>6
  <2>. QED BY <2>1
<1>. QED BY <1>3, <1>4, <1>5, <1>6

(* The stream begins.                                                       *)
LEMMA StreamBegins ==
  ASSUME TableInv, NewRows, Discover
  PROVE  /\ stream' = [pc |-> "run", from |-> stream'.from, last |-> Len(snapshots),
                       splits |-> stream'.splits, rows |-> EmptyBag]
         /\ stream'.from \in 0..Len(snapshots)
         /\ UNION {s.file : s \in stream'.splits}
              = RowsAt(Len(snapshots)) \ RowsAt(stream'.from)
         /\ \A s, t \in stream'.splits : s # t => s.file \cap t.file = {}
<1> DEFINE k == Len(snapshots)
<1>1. k \in Nat /\ k \in 1..k /\ k - 1 \in 0..k /\ Current = snapshots[k].files
  BY EmptySeq, LenProperties DEF Discover, Current, TableInv, RowsInv
<1>2. PICK splits \in {{[of |-> k, file |-> f] : f \in Current}, Split(k)} :
        stream' = [pc |-> "run", last |-> k, splits |-> splits, rows |-> EmptyBag,
                   from |-> IF splits = Split(k) THEN k - 1 ELSE 0]
  BY DEF Discover
<1>3. /\ stream' = [pc |-> "run", from |-> stream'.from, last |-> k,
                    splits |-> stream'.splits, rows |-> EmptyBag]
      /\ stream'.splits = splits
  BY <1>2
<1>4. CASE splits = Split(k)
  <2>1. stream'.from = k - 1
    BY <1>2, <1>4
  <2>2. Split(k) = UNION {Split(n) : n \in ((k - 1) + 1)..k}
    <3>1. \A n : n \in ((k - 1) + 1)..k <=> n = k
      BY <1>1
    <3>. QED BY <3>1
  <2>3. UNION {s.file : s \in Split(k)} = RowsAt(k) \ RowsAt(k - 1)
    BY <1>1, <2>2, RowsBetween DEF TableInv
  <2>4. \A s, t \in Split(k) : s # t => s.file \cap t.file = {}
    BY <1>1, <2>2, NewSplitsApart
  <2>5. RowsAt(stream'.from) = RowsAt(k - 1)
    BY <2>1
  <2>. QED BY <1>1, <1>3, <1>4, <2>1, <2>3, <2>4, <2>5
<1>5. CASE splits # Split(k)
  <2>1. stream'.from = 0 /\ splits = {[of |-> k, file |-> f] : f \in Current}
    BY <1>2, <1>5
  <2>2. \A f : [of |-> k, file |-> f].file = f
    OBVIOUS
  <2>3. {s.file : s \in splits} = Current
    <3>1. \A s \in splits : s.file \in Current
      BY <2>1, <2>2
    <3>2. \A f \in Current : \E s \in splits : s.file = f
      BY <2>1, <2>2
    <3>. QED BY <3>1, <3>2
  <2>4. UNION Current = RowsAt(k) /\ \A f, g \in Current : f # g => f \cap g = {}
    BY CurrentOnce DEF TableInv, OnceIn
  <2>5. \A s, t \in splits : s # t => s.file \cap t.file = {}
    BY <2>1, <2>4
  <2>6. RowsAt(stream'.from) = {}
    BY <2>1, NoRows
  <2>. QED BY <1>1, <1>3, <2>1, <2>3, <2>4, <2>5, <2>6
<1>. QED BY <1>4, <1>5

LEMMA FilesMore ==
  ASSUME NEW A, NEW B
  PROVE  UNION {s.file : s \in A \union B}
           = (UNION {s.file : s \in A}) \union UNION {s.file : s \in B}
<1>1. \A S, x : x \in UNION {s.file : s \in S} <=> \E s \in S : x \in s.file
  OBVIOUS
<1>2. \A x : (\E s \in A \union B : x \in s.file)
               <=> (\E s \in A : x \in s.file) \/ \E s \in B : x \in s.file
  OBVIOUS
<1>. QED BY <1>1, <1>2

LEMMA FilesLess ==
  ASSUME NEW A, NEW s \in A, \A t, u \in A : t # u => t.file \cap u.file = {}
  PROVE  UNION {t.file : t \in A \ {s}} = (UNION {t.file : t \in A}) \ s.file
<1>1. \A S, x : x \in UNION {t.file : t \in S} <=> \E t \in S : x \in t.file
  OBVIOUS
<1>2. \A x : (\E t \in A \ {s} : x \in t.file) <=> (\E t \in A : x \in t.file) /\ x \notin s.file
  OBVIOUS
<1>. QED BY <1>1, <1>2

LEMMA StreamRowsStep ==
  ASSUME TableInv, NewRows, StreamRows, [Next]_vars PROVE StreamRows'
<1> DEFINE k == Len(snapshots)
<1>0. k \in Nat /\ IsStream(stream)
  BY LenIsNat DEF TableInv, StreamsFiles
<1>1. CASE AppendRows \/ RewriteCommit
  <2>1. Len(snapshots') = k + 1 /\ (\A n \in 0..k : RowsAt(n)' = RowsAt(n)) /\ UNCHANGED stream
    BY <1>1, CommitKeeps
  <2>2. PICK n \in 0..k : n = stream.from
    BY DEF StreamRows
  <2>3. stream'.from \in 0..Len(snapshots')
    BY <1>0, <2>1, <2>2
  <2>4. ASSUME stream.pc = "run"
        PROVE  /\ stream'.last \in stream'.from..Len(snapshots')
               /\ RowsAt(stream.last)' = RowsAt(stream.last)
               /\ RowsAt(stream.from)' = RowsAt(stream.from)
    <3>1. PICK m \in n..k : m = stream.last
      BY <2>2, <2>4 DEF StreamRows
    <3>2. m \in 0..k /\ m \in n..(k + 1)
      BY <1>0, <3>1
    <3>3. RowsAt(m)' = RowsAt(m) /\ RowsAt(n)' = RowsAt(n)
      BY <2>1, <3>2
    <3>4. stream'.last = m /\ stream'.from = n
      BY <2>1, <2>2, <3>1
    <3>. QED BY <2>1, <2>2, <3>1, <3>2, <3>3, <3>4 DEF RowsAt, Appended
  <2>. QED BY <2>1, <2>3, <2>4 DEF StreamRows, Due
<1>2. ASSUME UNCHANGED <<snapshots, stream>> PROVE StreamRows'
  <2>1. RowsAt(stream.last)' = RowsAt(stream.last) /\ RowsAt(stream.from)' = RowsAt(stream.from)
    BY <1>2 DEF RowsAt, Appended
  <2>2. Due' = Due
    BY <1>2 DEF Due
  <2>. QED BY <1>2, <2>1, <2>2 DEF StreamRows
<1>3. CASE Discover
  <2>1. /\ stream' = [pc |-> "run", from |-> stream'.from, last |-> k,
                      splits |-> stream'.splits, rows |-> EmptyBag]
        /\ stream'.from \in 0..k
        /\ UNION {s.file : s \in stream'.splits} = RowsAt(k) \ RowsAt(stream'.from)
        /\ \A s, t \in stream'.splits : s # t => s.file \cap t.file = {}
    BY <1>3, StreamBegins
  <2>2. stream'.last = k /\ stream'.rows = EmptyBag /\ UNCHANGED snapshots
    BY <1>3, <2>1 DEF Discover, table
  <2>3. DOMAIN EmptyBag = {}
    BY DEF EmptyBag, SetToBag
  <2>4. RowsAt(stream.last)' = RowsAt(k) /\ RowsAt(stream.from)' = RowsAt(stream'.from)
    BY <2>2 DEF RowsAt, Appended
  <2>5. Due' = UNION {s.file : s \in stream'.splits}
    BY DEF Due
  <2>6. stream'.last \in stream'.from..k
    BY <1>0, <2>1, <2>2
  <2>. QED BY <2>1, <2>2, <2>3, <2>4, <2>5, <2>6 DEF StreamRows
<1>4. CASE Monitor
  <2>0. stream.pc = "run" /\ UNCHANGED snapshots
    BY <1>4 DEF Monitor, table
  <2>1. CASE stream.last >= expired
    <3>1. /\ stream'.last = k /\ stream'.from = stream.from /\ stream'.rows = stream.rows
          /\ stream'.splits = stream.splits \union NewSplits
      BY <1>4, <2>1, <1>0 DEF Monitor, IsStream
    <3>2. PICK n \in 0..k : n = stream.from
      BY DEF StreamRows
    <3>3. PICK m \in n..k : m = stream.last
      BY <2>0, <3>2 DEF StreamRows
    <3>4. m \in 0..k /\ k \in n..k /\ n \in Nat /\ m \in Nat /\ n <= m /\ m <= k
      BY <1>0, <3>2, <3>3
    <3>5. UNION {s.file : s \in NewSplits} = RowsAt(k) \ RowsAt(m)
      BY <3>3, <3>4, RowsBetween DEF TableInv, NewSplits
    <3>6. RowsAt(n) \subseteq RowsAt(m) /\ RowsAt(m) \subseteq RowsAt(k)
      BY <1>0, <3>4, RowsMore
    <3>7. /\ DOMAIN stream.rows \subseteq RowsAt(m)
          /\ Due = RowsAt(m) \ (RowsAt(n) \union DOMAIN stream.rows)
      BY <2>0, <3>2, <3>3 DEF StreamRows
    <3>8. Due' = Due \union UNION {s.file : s \in NewSplits}
      BY <3>1, FilesMore DEF Due
    <3>9. Due' = RowsAt(k) \ (RowsAt(n) \union DOMAIN stream.rows)
      BY <3>5, <3>6, <3>7, <3>8
    <3>10. \A s, t \in NewSplits : s # t => s.file \cap t.file = {}
      BY <3>3, <3>4, NewSplitsApart DEF NewSplits
    <3>11. \A s \in stream.splits, t \in NewSplits : s.file \cap t.file = {}
      <4>1. \A s \in stream.splits : s.file \subseteq RowsAt(m)
        BY <3>7 DEF Due
      <4>2. \A t \in NewSplits : t.file \cap RowsAt(m) = {}
        BY <3>5
      <4>. QED BY <4>1, <4>2
    <3>12. \A s, t \in stream'.splits : s # t => s.file \cap t.file = {}
      BY <2>0, <3>1, <3>10, <3>11 DEF StreamRows
    <3>13. RowsAt(stream.last)' = RowsAt(k) /\ RowsAt(stream.from)' = RowsAt(n)
      BY <2>0, <3>1, <3>2 DEF RowsAt, Appended
    <3>14. stream'.last \in stream'.from..Len(snapshots') /\ stream'.from \in 0..Len(snapshots')
      BY <2>0, <3>1, <3>2, <3>4
    <3>15. DOMAIN stream'.rows \subseteq RowsAt(k)
      BY <3>1, <3>6, <3>7
    <3>. QED BY <3>1, <3>9, <3>12, <3>13, <3>14, <3>15 DEF StreamRows
  <2>2. CASE ~(stream.last >= expired)
    <3>1. stream'.pc = "stuck" /\ stream'.from = stream.from
      BY <1>4, <2>2, <1>0 DEF Monitor, IsStream
    <3>. QED BY <2>0, <3>1 DEF StreamRows
  <2>. QED BY <2>1, <2>2
<1>5. ASSUME NEW s \in stream.splits, ReadSplit(s) PROVE StreamRows'
  <2>0. stream.pc = "run" /\ UNCHANGED snapshots
    BY <1>5 DEF ReadSplit, table
  <2>1. CASE s.file \in storage
    <3>1. /\ stream'.last = stream.last /\ stream'.from = stream.from
          /\ stream'.splits = stream.splits \ {s}
          /\ stream'.rows = stream.rows (+) SetToBag(s.file)
      BY <1>5, <2>1, <1>0 DEF ReadSplit, IsStream
    <3>2. DOMAIN stream'.rows = (DOMAIN stream.rows) \union s.file
      BY <3>1, BagDomain
    <3>3. Due' = Due \ s.file
      BY <2>0, <3>1, FilesLess DEF StreamRows, Due
    <3>4. s.file \subseteq Due
      BY DEF Due
    <3>5. RowsAt(stream.last)' = RowsAt(stream.last) /\ RowsAt(stream.from)' = RowsAt(stream.from)
      BY <2>0, <3>1 DEF RowsAt, Appended
    <3>6. /\ DOMAIN stream'.rows \subseteq RowsAt(stream.last)
          /\ Due' = RowsAt(stream.last) \ (RowsAt(stream.from) \union DOMAIN stream'.rows)
      BY <2>0, <3>2, <3>3, <3>4 DEF StreamRows
    <3>7. \A t, u \in stream'.splits : t # u => t.file \cap u.file = {}
      BY <2>0, <3>1 DEF StreamRows
    <3>. QED BY <2>0, <3>1, <3>5, <3>6, <3>7 DEF StreamRows
  <2>2. CASE s.file \notin storage
    <3>1. stream'.pc = "stuck" /\ stream'.from = stream.from
      BY <1>5, <2>2, <1>0 DEF ReadSplit, IsStream
    <3>. QED BY <2>0, <3>1 DEF StreamRows
  <2>. QED BY <2>1, <2>2
<1>6. CASE RestartReader
  <2>1. stream'.pc = "new" /\ stream'.from = 0 /\ UNCHANGED snapshots
    BY <1>6 DEF RestartReader, NewReader, table
  <2>. QED BY <1>0, <2>1 DEF StreamRows
<1>7. CASE Maintenance /\ ~RewriteCommit
  BY <1>2, <1>7 DEF Maintenance, StartDag, TaskFails, RewritePlan, RewriteDone, ExpireBegin,
                    ExpireCommit, ExpireDone, ExpireDelete, table
<1>8. CASE Plan \/ NextRequest \/ \E f \in request.todo : ReadFile(f)
  BY <1>2, <1>8 DEF Plan, NextRequest, ReadFile, table
<1>9. CASE UNCHANGED vars
  BY <1>2, <1>9 DEF vars, table
<1>. QED BY <1>1, <1>3, <1>4, <1>5, <1>6, <1>7, <1>8, <1>9 DEF Next

LEMMA ViewInit == Init => ViewInv
<1> SUFFICES ASSUME Init PROVE ViewInv
  OBVIOUS
<1>1. Len(snapshots) = 0 /\ (\A i : i \notin 1..0) /\ 0 \in 0..0
  BY DEF Init
<1>2. request.pc = "idle" /\ stream.pc = "new" /\ stream.from = 0
  BY DEF Init, NoRequest, NewReader
<1>. QED BY <1>1, <1>2 DEF Init, ViewInv, NewRows, RequestRows, StreamRows

LEMMA ViewStep ==
  ASSUME TableInv, ViewInv, [Next]_vars PROVE ViewInv'
BY NewRowsStep, RequestRowsStep, StreamRowsStep DEF ViewInv

-----------------------------------------------------------------------------
(* The mapping of Readers.                                                  *)
Rows == RowsAt(Len(snapshots))

Asked == [pc   |-> request.pc,
          rows |-> CASE request.pc = "read" -> SetToBag(RowsAt(request.of))
                     [] request.pc = "failed" -> EmptyBag
                     [] OTHER -> request.rows]

Streamed == [pc     |-> stream.pc,
             since  |-> RowsAt(stream.from),
             due    |-> Due,
             handed |-> stream.rows]

(* The bags of the append-only table are the bags of the table.              *)
LEMMA BagsAlike ==
  /\ Readers!EmptyBag = EmptyBag
  /\ \A S : Readers!SetToBag(S) = SetToBag(S)
  /\ \A B : Readers!BagToSet(B) = BagToSet(B)
  /\ \A A, B : Readers!(+)(A, B) = A (+) B
<1>1. /\ Readers!EmptyBag = EmptyBag
      /\ \A S : Readers!SetToBag(S) = SetToBag(S)
      /\ \A B : Readers!BagToSet(B) = BagToSet(B)
  BY DEF EmptyBag, SetToBag, BagToSet, Readers!EmptyBag, Readers!SetToBag, Readers!BagToSet
<1>2. \A A, B : Readers!(+)(A, B) = A (+) B
  BY DEF (+), Readers!(+)
<1>. QED BY <1>1, <1>2

LEMMA RowsStay == UNCHANGED snapshots => UNCHANGED Rows
BY DEF Rows, RowsAt, Appended

LEMMA AskedStays == UNCHANGED <<snapshots, request>> => UNCHANGED Asked
BY DEF Asked, RowsAt, Appended

LEMMA StreamedStays == UNCHANGED <<snapshots, stream>> => UNCHANGED Streamed
BY DEF Streamed, Due, RowsAt, Appended

LEMMA CommitMaps ==
  ASSUME TableInv, ViewInv, AppendRows \/ RewriteCommit
  PROVE  Rows \subseteq Rows' /\ UNCHANGED <<Asked, Streamed>>
<1>1. /\ Len(snapshots') = Len(snapshots) + 1 /\ Len(snapshots) \in Nat
      /\ \A n \in 0..Len(snapshots) : RowsAt(n)' = RowsAt(n)
      /\ UNCHANGED <<request, stream>>
  BY CommitKeeps, LenIsNat DEF TableInv
<1>2. Rows \subseteq Rows'
  <2>1. PICK k \in Nat : k = Len(snapshots)
    BY <1>1
  <2>2. \A i \in 1..k : i \in 1..(k + 1)
    OBVIOUS
  <2>3. Rows = RowsAt(k)
    BY <2>1 DEF Rows
  <2>4. RowsAt(k)' = RowsAt(k)
    BY <1>1, <2>1
  <2>5. Rows' = RowsAt(k + 1)'
    BY <1>1, <2>1 DEF Rows, RowsAt, Appended
  <2>6. RowsAt(k)' \subseteq RowsAt(k + 1)'
    <3>1. Appended(1, k)' \subseteq Appended(1, k + 1)'
      BY <2>2 DEF Appended
    <3>. QED BY <3>1 DEF RowsAt
  <2>. QED BY <2>3, <2>4, <2>5, <2>6
<1>3. UNCHANGED Asked
  <2>1. ASSUME request.pc = "read" PROVE RowsAt(request.of)' = RowsAt(request.of)
    <3>1. PICK n \in 0..Len(snapshots) : n = request.of
      BY <1>1, <2>1 DEF TableInv, ReadsFiles
    <3>2. RowsAt(n)' = RowsAt(n)
      BY <1>1
    <3>. QED BY <1>1, <3>1, <3>2 DEF RowsAt, Appended
  <2>. QED BY <1>1, <2>1 DEF Asked
<1>4. UNCHANGED Streamed
  <2>1. PICK n \in 0..Len(snapshots) : n = stream.from
    BY DEF ViewInv, StreamRows
  <2>2. RowsAt(n)' = RowsAt(n)
    BY <1>1
  <2>3. RowsAt(stream.from)' = RowsAt(stream.from)
    BY <1>1, <2>1, <2>2 DEF RowsAt, Appended
  <2>4. Due' = Due
    BY <1>1 DEF Due
  <2>. QED BY <1>1, <2>3, <2>4 DEF Streamed
<1>. QED BY <1>2, <1>3, <1>4

(* A request of the table is one of the append-only table.                  *)
LEMMA PlanMaps ==
  ASSUME TableInv, ViewInv, Plan
  PROVE  /\ Asked.pc = "idle"
         /\ Asked' = [pc |-> IF Rows = {} THEN "answered" ELSE "read", rows |-> SetToBag(Rows)]
<1>1. /\ request.pc = "idle" /\ UNCHANGED snapshots
      /\ request' = [pc |-> IF Current = {} THEN "answered" ELSE "read",
                     of |-> Len(snapshots), todo |-> Current, rows |-> EmptyBag]
  BY DEF Plan, table
<1>2. UNION Current = Rows
  BY CurrentOnce DEF TableInv, OnceIn, Rows
<1>3. Current = {} <=> Rows = {}
  <2>1. Current # {} => {} \notin Current
    BY CurrentFiles DEF TableInv, ViewInv, NewRows
  <2>. QED BY <1>2, <2>1
<1>4. CASE Current = {}
  <2>1. request'.pc = "answered" /\ request'.rows = EmptyBag
    BY <1>1, <1>4
  <2>2. SetToBag(Rows) = EmptyBag
    BY <1>3, <1>4 DEF EmptyBag
  <2>. QED BY <1>1, <1>3, <1>4, <2>1, <2>2 DEF Asked
<1>5. CASE Current # {}
  <2>1. request'.pc = "read" /\ request'.of = Len(snapshots)
    BY <1>1, <1>5
  <2>2. RowsAt(request.of)' = Rows
    BY <1>1, <2>1 DEF Rows, RowsAt, Appended
  <2>. QED BY <1>1, <1>3, <1>5, <2>1, <2>2 DEF Asked
<1>. QED BY <1>4, <1>5

LEMMA ReadFileMaps ==
  ASSUME TableInv, ViewInv, NEW f \in request.todo, ReadFile(f)
  PROVE  /\ Asked.pc = "read"
         /\ \/ UNCHANGED Asked
            \/ Asked' = [pc |-> "answered", rows |-> Asked.rows]
            \/ Asked' = [pc |-> "failed", rows |-> EmptyBag]
<1>1. request.pc = "read" /\ UNCHANGED snapshots /\ IsRequest(request)
  BY DEF ReadFile, table, TableInv, ReadsFiles
<1>2. Asked.pc = "read" /\ Asked.rows = SetToBag(RowsAt(request.of))
  BY <1>1 DEF Asked
<1>3. CASE f \in storage /\ request.todo = {f}
  <2>1. request'.pc = "answered" /\ request'.rows = request.rows (+) SetToBag(f)
    BY <1>1, <1>3 DEF ReadFile, IsRequest
  <2>2. request'.rows = SetToBag(RowsAt(request.of) \ UNION (request.todo \ {f}))
    BY <1>1, <2>1, OneMore DEF ViewInv
  <2>3. RowsAt(request.of) \ UNION (request.todo \ {f}) = RowsAt(request.of)
    BY <1>3
  <2>4. Asked' = [pc |-> "answered", rows |-> SetToBag(RowsAt(request.of))]
    BY <2>1, <2>2, <2>3 DEF Asked
  <2>. QED BY <1>2, <2>4
<1>4. CASE f \in storage /\ request.todo # {f}
  <2>1. request'.pc = "read" /\ request'.of = request.of
    BY <1>1, <1>4 DEF ReadFile, IsRequest
  <2>2. RowsAt(request.of)' = RowsAt(request.of)
    BY <1>1, <2>1 DEF RowsAt, Appended
  <2>. QED BY <1>1, <1>2, <2>1, <2>2 DEF Asked
<1>5. CASE f \notin storage
  <2>1. request'.pc = "failed"
    BY <1>1, <1>5 DEF ReadFile, IsRequest
  <2>2. Asked' = [pc |-> "failed", rows |-> EmptyBag]
    BY <2>1 DEF Asked
  <2>. QED BY <1>2, <2>2
<1>. QED BY <1>2, <1>3, <1>4, <1>5

LEMMA DiscoverMaps ==
  ASSUME TableInv, ViewInv, Discover
  PROVE  /\ Streamed.pc = "new"
         /\ \E since \in SUBSET Rows :
              Streamed' = [pc |-> "run", since |-> since, due |-> Rows \ since, handed |-> EmptyBag]
<1>1. /\ stream' = [pc |-> "run", from |-> stream'.from, last |-> Len(snapshots),
                    splits |-> stream'.splits, rows |-> EmptyBag]
      /\ stream'.from \in 0..Len(snapshots)
      /\ UNION {s.file : s \in stream'.splits} = Rows \ RowsAt(stream'.from)
  BY StreamBegins DEF ViewInv, Rows
<1>2. stream'.pc = "run" /\ stream'.rows = EmptyBag /\ UNCHANGED snapshots /\ stream.pc = "new"
  BY <1>1 DEF Discover, table
<1>3. PICK n \in 0..Len(snapshots) : n = stream'.from
  BY <1>1
<1>4. RowsAt(n) \in SUBSET Rows
  <2>1. Len(snapshots) \in Nat /\ n \in Nat /\ n <= Len(snapshots)
    BY <1>3, LenIsNat DEF TableInv
  <2>. QED BY <2>1, RowsMore DEF Rows
<1>5. RowsAt(stream.from)' = RowsAt(n)
  BY <1>2, <1>3 DEF RowsAt, Appended
<1>6. Due' = Rows \ RowsAt(n)
  BY <1>1, <1>3 DEF Due
<1>7. Streamed' = [pc |-> "run", since |-> RowsAt(n), due |-> Rows \ RowsAt(n), handed |-> EmptyBag]
  BY <1>2, <1>5, <1>6 DEF Streamed
<1>. QED BY <1>2, <1>4, <1>7 DEF Streamed

StreamIs(pc, due, handed) == [pc |-> pc, since |-> Streamed.since, due |-> due, handed |-> handed]

IsReader(s) == s = [pc |-> s.pc, since |-> s.since, due |-> s.due, handed |-> s.handed]

LEMMA TwoFields ==
  ASSUME NEW S, NEW d, NEW h, IsReader(S)
  PROVE  [S EXCEPT !.due = d, !.handed = h]
           = [pc |-> S.pc, since |-> S.since, due |-> d, handed |-> h]
<1>1. PICK T : T = [S EXCEPT !.due = d, !.handed = h]
  OBVIOUS
<1>2. T.pc = S.pc /\ T.since = S.since /\ T.due = d /\ T.handed = h
  BY <1>1 DEF IsReader
<1>3. IsReader(T)
  BY <1>1 DEF IsReader
<1>. QED BY <1>1, <1>2, <1>3 DEF IsReader

LEMMA MonitorMaps ==
  ASSUME TableInv, ViewInv, Monitor
  PROVE  /\ Streamed.pc = "run"
         /\ \/ Streamed' = StreamIs("run", Rows \ (Streamed.since \union BagToSet(Streamed.handed)),
                                   Streamed.handed)
            \/ Streamed' = StreamIs("stuck", Streamed.due, Streamed.handed)
<1>1. stream.pc = "run" /\ UNCHANGED snapshots /\ IsStream(stream)
  BY DEF Monitor, table, TableInv, StreamsFiles
<1>2. CASE stream.last >= expired
  <2>1. /\ stream'.pc = "run" /\ stream'.last = Len(snapshots)
        /\ stream'.from = stream.from /\ stream'.rows = stream.rows
    BY <1>1, <1>2 DEF Monitor, IsStream
  <2>2. StreamRows'
    <3>1. Next
      BY DEF Next
    <3>. QED BY <3>1, StreamRowsStep DEF ViewInv
  <2>3. /\ RowsAt(stream.last)' = Rows /\ RowsAt(stream.from)' = RowsAt(stream.from)
    BY <1>1, <2>1 DEF RowsAt, Appended, Rows
  <2>4. Due' = Rows \ (RowsAt(stream.from) \union DOMAIN stream.rows)
    BY <2>1, <2>2, <2>3 DEF StreamRows
  <2>. QED BY <1>1, <2>1, <2>3, <2>4 DEF Streamed, BagToSet, StreamIs
<1>3. CASE ~(stream.last >= expired)
  <2>1. /\ stream'.pc = "stuck" /\ stream'.splits = stream.splits
        /\ stream'.from = stream.from /\ stream'.rows = stream.rows
    BY <1>1, <1>3 DEF Monitor, IsStream
  <2>2. Due' = Due /\ RowsAt(stream.from)' = RowsAt(stream.from)
    BY <1>1, <2>1 DEF RowsAt, Appended, Due
  <2>. QED BY <1>1, <2>1, <2>2 DEF Streamed, StreamIs
<1>. QED BY <1>2, <1>3

LEMMA ReadSplitMaps ==
  ASSUME TableInv, ViewInv, NEW s \in stream.splits, ReadSplit(s)
  PROVE  /\ Streamed.pc = "run"
         /\ \/ \E some \in SUBSET Streamed.due :
                 Streamed' = StreamIs("run", Streamed.due \ some, Streamed.handed (+) SetToBag(some))
            \/ Streamed' = StreamIs("stuck", Streamed.due, Streamed.handed)
<1>1. stream.pc = "run" /\ UNCHANGED snapshots /\ IsStream(stream)
  BY DEF ReadSplit, table, TableInv, StreamsFiles
<1>2. CASE s.file \in storage
  <2>1. /\ stream'.pc = "run" /\ stream'.from = stream.from
        /\ stream'.splits = stream.splits \ {s}
        /\ stream'.rows = stream.rows (+) SetToBag(s.file)
    BY <1>1, <1>2 DEF ReadSplit, IsStream
  <2>2. Due' = Due \ s.file
    BY <1>1, <2>1, FilesLess DEF ViewInv, StreamRows, Due
  <2>3. s.file \in SUBSET Due
    BY DEF Due
  <2>4. RowsAt(stream.from)' = RowsAt(stream.from)
    BY <1>1, <2>1 DEF RowsAt, Appended
  <2>5. Streamed' = StreamIs("run", Streamed.due \ s.file, Streamed.handed (+) SetToBag(s.file))
    BY <1>1, <2>1, <2>2, <2>4 DEF Streamed, StreamIs
  <2>. QED BY <1>1, <2>3, <2>5 DEF Streamed
<1>3. CASE s.file \notin storage
  <2>1. /\ stream'.pc = "stuck" /\ stream'.splits = stream.splits
        /\ stream'.from = stream.from /\ stream'.rows = stream.rows
    BY <1>1, <1>3 DEF ReadSplit, IsStream
  <2>2. Due' = Due /\ RowsAt(stream.from)' = RowsAt(stream.from)
    BY <1>1, <2>1 DEF RowsAt, Appended, Due
  <2>. QED BY <1>1, <2>1, <2>2 DEF Streamed, StreamIs
<1>. QED BY <1>2, <1>3

LEMMA ReaderMaps ==
  ASSUME TableInv, ViewInv, RestartReader
  PROVE  /\ Streamed.pc # "new"
         /\ Streamed' = [pc |-> "new", since |-> {}, due |-> {}, handed |-> EmptyBag]
<1>1. /\ stream.pc # "new" /\ stream'.pc = "new" /\ stream'.from = 0
      /\ stream'.splits = {} /\ stream'.rows = EmptyBag /\ UNCHANGED snapshots
  BY DEF RestartReader, NewReader, table
<1>2. RowsAt(stream.from)' = RowsAt(0)
  BY <1>1 DEF RowsAt, Appended
<1>3. Due' = {}
  BY <1>1 DEF Due
<1>. QED BY <1>1, <1>2, <1>3, NoRows DEF Streamed

(* However files are rewritten and snapshots expired, the readers see a     *)
(* table to which rows are appended and from which none goes: a request is  *)
(* answered with the rows there were when it was planned, each once, and a  *)
(* stream hands on each row that came after its start once                  *)
(* (compaction_silver.py, expire_snapshots.py; duckdb_iceberg.py).           *)
THEOREM TableSeen == Spec => ReadersSeeATable
<1>1. Init => Readers!Init
  <2> SUFFICES ASSUME Init PROVE Readers!Init
    OBVIOUS
  <2>1. Rows = {}
    <3>1. Len(snapshots) = 0
      BY DEF Init
    <3>. QED BY <3>1, NoRows DEF Rows
  <2>2. Asked = [pc |-> "idle", rows |-> EmptyBag]
    BY DEF Init, NoRequest, Asked
  <2>3. Streamed = [pc |-> "new", since |-> {}, due |-> {}, handed |-> EmptyBag]
    BY NoRows DEF Init, NewReader, Streamed, Due
  <2>. QED BY <2>1, <2>2, <2>3, BagsAlike
       DEF Readers!Init, Readers!Idle, Readers!New, Rows, Asked, Streamed, Due
<1>2. TableInv /\ ViewInv /\ [Next]_vars => [Readers!Next]_Readers!vars
  <2> SUFFICES ASSUME TableInv, ViewInv, [Next]_vars
               PROVE  Readers!Next \/ UNCHANGED <<Rows, Asked, Streamed>>
    BY DEF Readers!vars, Rows, Asked, Streamed, Due
  <2>1. CASE AppendRows \/ RewriteCommit
    BY <2>1, CommitMaps DEF Readers!Next, Readers!AppendSome, Rows, Asked, Streamed, Due
  <2>2. CASE Plan
    <3>1. UNCHANGED <<Rows, Streamed>>
      BY <2>2, RowsStay, StreamedStays DEF Plan, table
    <3>2. Readers!Ask
      BY <2>2, <3>1, PlanMaps, BagsAlike DEF Readers!Ask, Rows, Asked, Streamed, Due
    <3>. QED BY <3>2 DEF Readers!Next
  <2>3. ASSUME NEW f \in request.todo, ReadFile(f)
        PROVE  Readers!Next \/ UNCHANGED <<Rows, Asked, Streamed>>
    <3>1. UNCHANGED <<Rows, Streamed>>
      BY <2>3, RowsStay, StreamedStays DEF ReadFile, table
    <3>2. ASSUME Asked' = [pc |-> "answered", rows |-> Asked.rows] PROVE Readers!Answer
      <4>1. Asked' = [Asked EXCEPT !.pc = "answered"]
        BY <3>2 DEF Asked
      <4>. QED BY <2>3, <3>1, <4>1, ReadFileMaps DEF Readers!Answer, Rows, Asked, Streamed, Due
    <3>3. ASSUME Asked' = [pc |-> "failed", rows |-> EmptyBag] PROVE Readers!Fail
      BY <2>3, <3>1, <3>3, ReadFileMaps, BagsAlike DEF Readers!Fail, Rows, Asked, Streamed, Due
    <3>. QED BY <2>3, <3>1, <3>2, <3>3, ReadFileMaps DEF Readers!Next
  <2>4. CASE NextRequest
    <3>1. UNCHANGED <<Rows, Streamed>>
      BY <2>4, RowsStay, StreamedStays DEF NextRequest, table
    <3>2. /\ Asked.pc \in {"answered", "failed"}
          /\ Asked' = [pc |-> "idle", rows |-> EmptyBag]
      BY <2>4 DEF NextRequest, NoRequest, Asked
    <3>3. Readers!Forget
      BY <3>1, <3>2, BagsAlike DEF Readers!Forget, Readers!Idle, Rows, Asked, Streamed, Due
    <3>. QED BY <3>3 DEF Readers!Next
  <2>5. ASSUME Discover \/ Monitor \/ RestartReader \/ \E s \in stream.splits : ReadSplit(s)
        PROVE  UNCHANGED <<Rows, Asked>>
    BY <2>5, RowsStay, AskedStays DEF Discover, Monitor, RestartReader, ReadSplit, table
  <2>6. CASE Discover
    <3>1. Readers!Begin
      BY <2>5, <2>6, DiscoverMaps, BagsAlike DEF Readers!Begin, Rows, Asked, Streamed, Due
    <3>. QED BY <3>1 DEF Readers!Next
  <2>7. ASSUME Streamed.pc = "run", UNCHANGED <<Rows, Asked>>,
               Streamed' = StreamIs("stuck", Streamed.due, Streamed.handed)
        PROVE  Readers!Stick
    <3>1. Streamed' = [Streamed EXCEPT !.pc = "stuck"]
      BY <2>7 DEF Streamed, StreamIs
    <3>. QED BY <2>7, <3>1 DEF Readers!Stick, Rows, Asked, Streamed, Due
  <2>8. CASE Monitor
    <3>1. ASSUME Streamed' = StreamIs("run", Rows \ (Streamed.since \union BagToSet(Streamed.handed)),
                                      Streamed.handed)
          PROVE  Readers!TakeUp
      <4>1. Streamed' = [Streamed EXCEPT !.due = Rows \ (Streamed.since \union BagToSet(Streamed.handed))]
        BY <2>8, <3>1, MonitorMaps DEF Streamed, StreamIs
      <4>. QED BY <2>5, <2>8, <4>1, MonitorMaps, BagsAlike DEF Readers!TakeUp, Rows, Asked, Streamed, Due
    <3>. QED BY <2>5, <2>7, <2>8, <3>1, MonitorMaps DEF Readers!Next
  <2>9. ASSUME NEW s \in stream.splits, ReadSplit(s) PROVE Readers!Next
    <3>1. ASSUME NEW some \in SUBSET Streamed.due,
                 Streamed' = StreamIs("run", Streamed.due \ some, Streamed.handed (+) SetToBag(some))
          PROVE  Readers!HandOn
      <4>0. PICK d, h : d = Streamed.due \ some /\ h = Streamed.handed (+) SetToBag(some)
        OBVIOUS
      <4>1. Streamed' = [Streamed EXCEPT !.due = d, !.handed = h]
        <5>1. Streamed.pc = "run" /\ Streamed' = StreamIs("run", d, h)
          BY <2>9, <3>1, <4>0, ReadSplitMaps
        <5>2. IsReader(Streamed)
          BY DEF Streamed, IsReader
        <5>3. PICK S : S = Streamed
          OBVIOUS
        <5>. QED BY <5>1, <5>2, <5>3, TwoFields DEF StreamIs
      <4>. QED BY <2>5, <2>9, <4>0, <4>1, ReadSplitMaps, BagsAlike
               DEF Readers!HandOn, Rows, Asked, Streamed, Due
    <3>. QED BY <2>5, <2>7, <2>9, <3>1, ReadSplitMaps DEF Readers!Next
  <2>10. CASE RestartReader
    <3>1. Readers!Restart
      BY <2>5, <2>10, ReaderMaps, BagsAlike DEF Readers!Restart, Readers!New, Rows, Asked, Streamed, Due
    <3>. QED BY <3>1 DEF Readers!Next
  <2>11. CASE Maintenance /\ ~RewriteCommit
    <3>1. UNCHANGED <<snapshots, request, stream>>
      BY <2>11 DEF Maintenance, StartDag, TaskFails, RewritePlan, RewriteDone, ExpireBegin,
                   ExpireCommit, ExpireDone, ExpireDelete, table
    <3>. QED BY <3>1, RowsStay, AskedStays, StreamedStays
  <2>12. CASE UNCHANGED vars
    BY <2>12, RowsStay, AskedStays, StreamedStays DEF vars, table
  <2>. QED BY <2>1, <2>2, <2>3, <2>4, <2>6, <2>8, <2>9, <2>10, <2>11, <2>12 DEF Next
<1>. QED BY <1>1, <1>2, TableInit, TableStep, ViewInit, ViewStep, PTL
     DEF Spec, ReadersSeeATable, Readers!Spec

-----------------------------------------------------------------------------
(* GoldTable.                                                              *)
(* The schema of a table that the migration has added the column to.        *)
Migrated == Append(Old, TARGET_COLUMN)

Schemas == {NoTable, Old, Legacy, Select, Migrated}
Done == {Select, Migrated}

MigrationPc == {"idle", "delete", "refresh", "add", "ok", "failed"}

SchemaOK ==
  /\ columns \in Schemas
  /\ migration \in [Migrations -> [pc : MigrationPc, names : Schemas]]

(* The legacy column is only ever dropped, and the table never goes: what a *)
(* migration has seen of the schema bounds what the schema can be now.      *)
NoWayBack ==
  \A m \in Migrations :
    /\ migration[m].pc = "delete" => migration[m].names = Legacy
    /\ migration[m].pc \in {"refresh", "add"} =>
         columns \in {Old} \union Done /\ migration[m].names \in {Old} \union Done
    /\ migration[m].pc = "ok" => columns \in Done

GoldInv == SchemaOK /\ NoWayBack

-----------------------------------------------------------------------------
(* The columns of the five schemas.                                         *)
LEMMA SchemaLengths ==
  /\ Len(NoTable) = 0 /\ Len(Old) = 2
  /\ Len(Legacy) = 3 /\ Len(Select) = 3 /\ Len(Migrated) = 3
  BY DEF NoTable, Old, Legacy, Select, Migrated, TARGET_COLUMN, LEGACY_COLUMN

LEMMA SchemaCells ==
  /\ Old[1] = "last_api_response_ts" /\ Old[2] = "gold_arrival_ts"
  /\ Legacy[1] = Old[1] /\ Legacy[2] = Old[2] /\ Legacy[3] = LEGACY_COLUMN
  /\ Migrated[1] = Old[1] /\ Migrated[2] = Old[2] /\ Migrated[3] = TARGET_COLUMN
  /\ Select[1] = Old[1] /\ Select[2] = TARGET_COLUMN /\ Select[3] = Old[2]
  BY DEF Old, Legacy, Select, Migrated, TARGET_COLUMN, LEGACY_COLUMN

LEMMA SchemaHas ==
  /\ \A s \in Schemas : Has(s, TARGET_COLUMN) <=> s \in Done
  /\ \A s \in Schemas : Has(s, LEGACY_COLUMN) <=> s = Legacy
<1> USE SchemaLengths, SchemaCells DEF Has, TARGET_COLUMN, LEGACY_COLUMN
<1>1. ~Has(NoTable, TARGET_COLUMN) /\ ~Has(NoTable, LEGACY_COLUMN)
  OBVIOUS
<1>2. ~Has(Old, TARGET_COLUMN) /\ ~Has(Old, LEGACY_COLUMN)
  OBVIOUS
<1>3. ~Has(Legacy, TARGET_COLUMN) /\ Has(Legacy, LEGACY_COLUMN)
  OBVIOUS
<1>4. Has(Select, TARGET_COLUMN) /\ ~Has(Select, LEGACY_COLUMN)
  OBVIOUS
<1>5. Has(Migrated, TARGET_COLUMN) /\ ~Has(Migrated, LEGACY_COLUMN)
  OBVIOUS
<1> HIDE DEF Has
<1> QED
  BY <1>1, <1>2, <1>3, <1>4, <1>5 DEF Schemas, Done

(* The schemas are five, told apart by their columns.                       *)
LEMMA SchemasDiffer ==
  /\ NoTable \notin {Old, Legacy} \union Done
  /\ Old \notin {Legacy} \union Done
  /\ Legacy \notin Done
<1>1. NoTable # Old /\ NoTable # Legacy /\ Old # Legacy
  BY SchemaLengths
<1>2. NoTable # Select /\ NoTable # Migrated /\ Old # Select /\ Old # Migrated
  BY SchemaLengths
<1>3. Legacy # Select /\ Legacy # Migrated
  BY SchemaCells DEF TARGET_COLUMN, LEGACY_COLUMN
<1> QED
  BY <1>1, <1>2, <1>3 DEF Done

LEMMA WithoutLegacy == Without(Legacy, LEGACY_COLUMN) = Old
<1> DEFINE Timestamps == {"last_api_response_ts", "gold_arrival_ts"}
<1> DEFINE k == CHOOSE i \in 1..Len(Legacy) : Legacy[i] = LEGACY_COLUMN
<1>1. \E i \in 1..Len(Legacy) : Legacy[i] = LEGACY_COLUMN
  BY SchemaLengths, SchemaCells
<1>2. k \in 1..3 /\ Legacy[k] = LEGACY_COLUMN
  BY <1>1, SchemaLengths
<1>3. k = 3
  BY <1>2, SchemaCells DEF LEGACY_COLUMN
<1>4. Old \in Seq(Timestamps)
  BY DEF Old
<1>5. SubSeq(Legacy, 1, 2) = Old
  <2>1. \A i \in 1..2 : Legacy[i] \in Timestamps
    <3>1. Legacy[1] = "last_api_response_ts" /\ Legacy[2] = "gold_arrival_ts"
      BY SchemaCells
    <3> QED
      BY <3>1
  <2>2. /\ SubSeq(Legacy, 1, 2) \in Seq(Timestamps)
        /\ Len(SubSeq(Legacy, 1, 2)) = 2
        /\ \A i \in 1..2 : SubSeq(Legacy, 1, 2)[i] = Legacy[i]
    BY <2>1, SubSeqProperties
  <2>3. \A i \in 1..2 : SubSeq(Legacy, 1, 2)[i] = Old[i]
    BY <2>2, SchemaCells
  <2> QED
    BY <1>4, <2>2, <2>3, SchemaLengths, SeqEqual
<1>6. SubSeq(Legacy, 4, 3) = <<>>
  BY SubSeqEmpty
<1>7. Old \o <<>> = Old
  BY <1>4, ConcatEmptySeq
<1>8. Without(Legacy, LEGACY_COLUMN) = SubSeq(Legacy, 1, k - 1) \o SubSeq(Legacy, k + 1, Len(Legacy))
  BY DEF Without
<1> HIDE DEF k
<1>9. k - 1 = 2 /\ k + 1 = 4 /\ Len(Legacy) = 3
  BY <1>3, SchemaLengths
<1> QED
  BY <1>5, <1>6, <1>7, <1>8, <1>9

-----------------------------------------------------------------------------
LEMMA GoldInitially == GoldInit => GoldInv
  BY DEF GoldInit, GoldInv, SchemaOK, NoWayBack, Schemas, MigrationPc

(* CREATE TABLE IF NOT EXISTS meets no migration that is under way.         *)
LEMMA SubmitStep == GoldInv /\ SubmitJob => GoldInv'
<1> SUFFICES ASSUME GoldInv, SubmitJob PROVE GoldInv'
  OBVIOUS
<1>1. columns' \in Schemas /\ (columns # NoTable => columns' = columns)
  BY DEF GoldInv, SchemaOK, SubmitJob, Schemas
<1>2. columns = NoTable => columns' \in Done
  BY DEF SubmitJob, Done
<1>3. migration' = migration
  BY DEF SubmitJob
<1> QED
  BY <1>1, <1>2, <1>3, SchemasDiffer DEF GoldInv, SchemaOK, NoWayBack

(* A step of a migration that leaves the schema alone.                      *)
LEMMA SameSchema ==
  ASSUME GoldInv, columns' = columns, NEW m \in Migrations,
         NEW pc \in MigrationPc, NEW names \in Schemas,
         migration' = [migration EXCEPT ![m] = [pc |-> pc, names |-> names]],
         pc = "delete" => names = Legacy,
         pc \in {"refresh", "add"} => columns \in {Old} \union Done /\ names \in {Old} \union Done,
         pc = "ok" => columns \in Done
  PROVE  GoldInv'
  BY DEF GoldInv, SchemaOK, NoWayBack

LEMMA FailedStep ==
  ASSUME GoldInv, columns' = columns, NEW m \in Migrations, NEW pc \in {"idle", "failed"},
         Goto(m, pc)
  PROVE  GoldInv'
  BY DEF GoldInv, SchemaOK, NoWayBack, Goto, MigrationPc

LEMMA LoadStep ==
  ASSUME GoldInv, NEW m \in Migrations, Load(m) PROVE GoldInv'
<1> DEFINE names == {columns[i] : i \in 1..Len(columns)}
<1> DEFINE pc == IF columns = NoTable THEN "failed" ELSE Case(names)
<1>1. migration' = [migration EXCEPT ![m] = [pc |-> pc, names |-> columns]] /\ columns' = columns
  BY DEF Load
<1>2. /\ TARGET_COLUMN \in names <=> columns \in Done
      /\ LEGACY_COLUMN \in names <=> columns = Legacy
  BY SchemaHas DEF GoldInv, SchemaOK, Has
<1>3. /\ pc \in {"failed", "ok", "delete", "add"}
      /\ pc = "ok" => columns \in Done
      /\ pc = "delete" => columns = Legacy
      /\ pc = "add" => columns \notin ({NoTable, Legacy} \union Done)
  BY <1>2, SchemasDiffer DEF Case
<1>4. pc = "add" => columns = Old
  BY <1>3 DEF GoldInv, SchemaOK, Schemas, Done
<1> HIDE DEF pc
<1> QED
  BY <1>1, <1>3, <1>4, SameSchema DEF GoldInv, SchemaOK, MigrationPc

(* The commits: `schema` is what the schema becomes.                        *)
LEMMA CommitStep ==
  ASSUME GoldInv, NEW m \in Migrations, NEW schema \in {Old} \union Done,
         NEW pc \in {"refresh", "ok"}, Commit(m, schema, pc),
         pc = "ok" => schema \in Done,
         columns = migration[m].names =>
           columns = Legacy \/ schema \in Done
  PROVE  GoldInv'
<1>1. CASE columns # migration[m].names
  BY <1>1, FailedStep DEF Commit
<1>2. CASE columns = migration[m].names
  <2>1. columns' = schema /\ schema \in Schemas
    BY <1>2 DEF Commit, Schemas, Done
  <2>2. \/ migration' = [migration EXCEPT ![m] = [pc |-> pc, names |-> schema]]
        \/ migration' = [migration EXCEPT ![m].pc = "failed"]
    BY <1>2 DEF Commit, Goto
  <2>3. migration' \in [Migrations -> [pc : MigrationPc, names : Schemas]]
    BY <2>1, <2>2 DEF GoldInv, SchemaOK, MigrationPc
  <2>4. ASSUME NEW k \in Migrations PROVE
          /\ migration'[k].pc = "delete" => migration'[k].names = Legacy
          /\ migration'[k].pc \in {"refresh", "add"} =>
               columns' \in {Old} \union Done /\ migration'[k].names \in {Old} \union Done
          /\ migration'[k].pc = "ok" => columns' \in Done
    <3>1. CASE k = m
      BY <3>1, <2>1, <2>2 DEF GoldInv, SchemaOK, NoWayBack
    <3>2. CASE k # m
      <4>1. migration'[k] = migration[k]
        BY <3>2, <2>2 DEF GoldInv, SchemaOK
      <4>2. migration[k].pc = "ok" => schema \in Done
        BY <1>2, SchemasDiffer DEF GoldInv, NoWayBack
      <4> QED
        BY <4>1, <4>2, <2>1 DEF GoldInv, NoWayBack
    <3> QED
      BY <3>1, <3>2
  <2> QED
    BY <2>1, <2>3, <2>4 DEF GoldInv, SchemaOK, NoWayBack
<1> QED
  BY <1>1, <1>2

LEMMA DeleteStep ==
  ASSUME GoldInv, NEW m \in Migrations, DeleteColumn(m) PROVE GoldInv'
<1>1. migration[m].names = Legacy
  BY DEF DeleteColumn, GoldInv, NoWayBack
<1>2. Commit(m, Old, "refresh")
  BY <1>1, WithoutLegacy DEF DeleteColumn
<1> QED
  BY <1>1, <1>2, CommitStep

LEMMA AddStep ==
  ASSUME GoldInv, NEW m \in Migrations, AddColumn(m) PROVE GoldInv'
<1>1. migration[m].pc = "add" /\ migration[m].names \in {Old} \union Done
  BY DEF AddColumn, GoldInv, NoWayBack
<1>2. CASE Has(migration[m].names, TARGET_COLUMN)
  BY <1>2, FailedStep DEF AddColumn
<1>3. CASE ~Has(migration[m].names, TARGET_COLUMN)
  <2>1. migration[m].names = Old
    BY <1>1, <1>3, SchemaHas DEF Schemas, Done
  <2>2. Commit(m, Migrated, "ok")
    BY <1>3, <2>1 DEF AddColumn, Migrated
  <2> QED
    BY <2>2, CommitStep DEF Done
<1> QED
  BY <1>2, <1>3

LEMMA RefreshStep ==
  ASSUME GoldInv, NEW m \in Migrations, Refresh(m) PROVE GoldInv'
<1>1. columns \in {Old} \union Done
  BY DEF Refresh, GoldInv, NoWayBack
<1> QED
  BY <1>1, SameSchema DEF Refresh, GoldInv, SchemaOK, MigrationPc

LEMMA GoldStep == GoldInv /\ [GoldNext]_goldVars => GoldInv'
<1> SUFFICES ASSUME GoldInv, [GoldNext]_goldVars PROVE GoldInv'
  OBVIOUS
<1>1. CASE SubmitJob
  BY <1>1, SubmitStep
<1>2. CASE StopJob \/ WriteWindow \/ Pass
  <2>1. columns' = columns /\ migration' = migration
    BY <1>2 DEF StopJob, WriteWindow, Pass
  <2> QED
    BY <2>1 DEF GoldInv, SchemaOK, NoWayBack
<1>3. ASSUME NEW m \in Migrations, MigrationStep(m) PROVE GoldInv'
  BY <1>3, LoadStep, DeleteStep, RefreshStep, AddStep DEF MigrationStep
<1>4. ASSUME NEW m \in Migrations, MigrationDies(m) \/ MigrateAgain(m) PROVE GoldInv'
  BY <1>4, FailedStep DEF MigrationDies, MigrateAgain
<1>5. CASE UNCHANGED goldVars
  BY <1>5 DEF goldVars, GoldInv, SchemaOK, NoWayBack
<1> QED
  BY <1>1, <1>2, <1>3, <1>4, <1>5 DEF GoldNext

(* A migration that reports success leaves the gold table with the new      *)
(* column and without the legacy one (migrate_gold_add_kafka_ts.py main).   *)
THEOREM MigratedOnSuccess == GoldSpec => []SuccessMeansMigrated
<1>1. GoldInv => SuccessMeansMigrated
  BY SchemaHas, SchemasDiffer DEF GoldInv, SchemaOK, NoWayBack, SuccessMeansMigrated
<1> QED
  BY <1>1, GoldInitially, GoldStep, PTL DEF GoldSpec

-----------------------------------------------------------------------------
(* Bootstrap.                                                              *)
ScriptPc == {"idle", "project", "look", "create", "update", "ok", "failed"}

BootTypeOK ==
  /\ terms \in {"open", "accepted"}
  /\ warehouse \in {"none", "signing", "direct"}
  /\ script \in [Scripts -> ScriptPc]

(* A run that has found its project has terms that are accepted.            *)
PastProject ==
  \A s \in Scripts :
    script[s] \in {"look", "create", "update", "ok"} => terms = "accepted"

OkIsDirect == \A s \in Scripts : script[s] = "ok" => warehouse = "direct"

BootInv == BootTypeOK /\ PastProject /\ OkIsDirect

LEMMA BootInitially == BootInit => BootInv
  BY DEF BootInit, BootInv, BootTypeOK, PastProject, OkIsDirect, ScriptPc

(* Every request keeps what a run before it has achieved: the terms stay    *)
(* accepted and a profile without remote signing stays as it is.            *)
LEMMA BootStep == BootInv /\ [BootNext]_bootVars => BootInv'
<1> SUFFICES ASSUME BootInv, [BootNext]_bootVars PROVE BootInv'
  OBVIOUS
<1> USE DEF BootInv, BootTypeOK, PastProject, OkIsDirect, ScriptPc, At, StepTo, Answered
<1>1. ASSUME NEW s \in Scripts, ensure_server_bootstrapped(s) PROVE BootInv'
  BY <1>1 DEF ensure_server_bootstrapped
<1>2. ASSUME NEW s \in Scripts, get_default_project_id(s) PROVE BootInv'
  BY <1>2 DEF get_default_project_id
<1>3. ASSUME NEW s \in Scripts, get_warehouse_id(s) PROVE BootInv'
  BY <1>3 DEF get_warehouse_id
<1>4. ASSUME NEW s \in Scripts, create_warehouse(s) PROVE BootInv'
  BY <1>4 DEF create_warehouse
<1>5. ASSUME NEW s \in Scripts, update_warehouse_storage(s) PROVE BootInv'
  BY <1>5 DEF update_warehouse_storage
<1>6. ASSUME NEW s \in Scripts, ScriptDies(s) PROVE BootInv'
  BY <1>6 DEF ScriptDies
<1>7. ASSUME NEW s \in Scripts, RunAgain(s) PROVE BootInv'
  BY <1>7 DEF RunAgain
<1>8. CASE UNCHANGED bootVars
  BY <1>8 DEF bootVars
<1> QED
  BY <1>1, <1>2, <1>3, <1>4, <1>5, <1>6, <1>7, <1>8 DEF BootNext, main

(* A run that reports success leaves the terms accepted and the warehouse   *)
(* with a profile that the jobs can use (bootstrap.py main).                *)
THEOREM BootstrapReady == BootSpec => []SuccessMeansReady
<1>1. BootInv => SuccessMeansReady
  BY DEF BootInv, PastProject, OkIsDirect, SuccessMeansReady
<1> QED
  BY <1>1, BootInitially, BootStep, PTL DEF BootSpec
=============================================================================
