-------------------------- MODULE SilverToGold_proofs --------------------------
(* For any rows, districts, window length, delay and bounds: a run of         *)
(* silver_to_gold writes a window of a district once, and no row that it has  *)
(* read is forgotten, whatever failures and replays do to it.                 *)
EXTENDS SilverToGold, SequenceTheorems, TLAPS

Districts == {DistrictOf[a] : a \in DOMAIN DistrictOf}

(* What the operators make of a row, and of a set of rows.                    *)
LEMMA RowTypes ==
  ASSUME NEW q \in Read
  PROVE  /\ q[1] \in Nat \ {0} /\ q[2] \in Rows /\ q[2].time \in Nat
         /\ WindowOf(q) \in Nat
         /\ DistrictOfRow(q) \in Districts
<1>1. q[1] \in Nat \ {0} /\ q[2] \in Rows
  BY DEF Read
<1>2. q[2].time \in Nat /\ q[2].area \in DOMAIN DistrictOf
  BY <1>1, ConstantsAssumption
<1>3. \A a \in Nat, b \in Nat \ {0} : a \div b \in Nat
  OBVIOUS
<1>4. WindowOf(q) \in Nat
  BY <1>2, <1>3, ConstantsAssumption DEF WindowOf
<1>. QED BY <1>1, <1>2, <1>4 DEF DistrictOfRow, Districts

LEMMA ClosesType == \A w \in Nat : Closes(w) \in Nat /\ Closes(w) > 0
<1>1. \A w \in Nat, b \in Nat \ {0} : (w + 1) * b \in Nat /\ (w + 1) * b > 0
  OBVIOUS
<1>. QED BY <1>1, ConstantsAssumption DEF Closes

Key(x) == <<x.window, x.district>>

(* One result for each window and district of a set of rows, and no row is    *)
(* in none of them.                                                           *)
LEMMA ResultsOf ==
  ASSUME NEW S \in SUBSET Read
  PROVE  /\ Results(S) \in SUBSET Result
         /\ \A x \in Results(S) : \E q \in S : x.window = WindowOf(q)
         /\ \A x, y \in Results(S) : Key(x) = Key(y) => x = y
         /\ \A q \in S : \E x \in Results(S) : q \in x.rows
<1>1. \A x \in Results(S) : \E q \in S : x = ResultOf(S, WindowOf(q), DistrictOfRow(q))
  BY DEF Results
<1>2. \A w, d : /\ ResultOf(S, w, d).window = w
                /\ ResultOf(S, w, d).district = d
                /\ ResultOf(S, w, d).rows \in SUBSET Read
                /\ \A q \in S : WindowOf(q) = w /\ DistrictOfRow(q) = d => q \in ResultOf(S, w, d).rows
  BY DEF ResultOf
<1>3. \A w \in Nat, d \in Districts : ResultOf(S, w, d) \in Result
  BY <1>2 DEF ResultOf, Result, Districts
<1>4. Results(S) \in SUBSET Result
  BY <1>1, <1>3, RowTypes
<1>5. \A x \in Results(S) : x = ResultOf(S, x.window, x.district)
  BY <1>1, <1>2
<1>6. \A x, y \in Results(S) : Key(x) = Key(y) => x = y
  <2> SUFFICES ASSUME NEW x \in Results(S), NEW y \in Results(S), Key(x) = Key(y)
               PROVE  x = y
    OBVIOUS
  <2>1. x.window = y.window /\ x.district = y.district
    BY DEF Key
  <2>. QED BY <2>1, <1>5
<1>7. \A q \in S : ResultOf(S, WindowOf(q), DistrictOfRow(q)) \in Results(S)
  BY DEF Results
<1>8. \A q \in S : \E x \in Results(S) : q \in x.rows
  BY <1>2, <1>7
<1>. QED BY <1>1, <1>2, <1>4, <1>6, <1>8

-----------------------------------------------------------------------------
Commit == [run : Nat \ {0}, rows : SUBSET Result]

(* Where a run may begin, and what the reader then holds.                     *)
LEMMA FirstType == ASSUME silver \in Seq(SUBSET Rows), NEW n \in FirstSnapshots
                   PROVE  n \in Nat /\ n <= Len(silver)
<1>1. Len(silver) \in Nat /\ (silver # <<>> => Len(silver) > 0)
  BY EmptySeq, LenProperties
<1>. QED BY <1>1 DEF FirstSnapshots

LEMMA ClosedType == ASSUME TypeOK, NEW wm PROVE ClosedBy(wm) \in SUBSET Read
  BY DEF TypeOK, ClosedBy, Operator

(* A reader stands between the snapshot where the run began and the last one, *)
(* and what it has not read is of the snapshot that it took up.               *)
AtReader(rd) ==
  /\ rd.pos \in first..Len(silver)
  /\ rd.unread # {} => rd.pos > first /\ rd.unread \subseteq silver[rd.pos]

Readers == AtReader(reader) /\ AtReader(ckpt.reader)

LEMMA EmptyTypes ==
  /\ NoWindows \in Operator /\ \A n \in Nat : ReadFrom(n) \in Reader
  BY DEF NoWindows, Operator, ReadFrom, Reader

(* The steps that begin anew or end leave a reader without a row to read.     *)
LEMMA BeginType ==
  ASSUME TypeOK, silver' = silver, Begin
  PROVE  /\ first' \in Nat /\ reader' \in Reader /\ windows' \in Operator /\ results' = {}
         /\ ckpt' \in [reader : Reader, windows : Operator]
         /\ Readers'
<1>1. PICK n \in FirstSnapshots : /\ first' = n /\ reader' = ReadFrom(n)
                                 /\ ckpt' = [reader |-> ReadFrom(n), windows |-> NoWindows]
  BY DEF Begin
<1>2. n \in Nat /\ n <= Len(silver) /\ Len(silver) \in Nat
  BY FirstType, LenProperties DEF TypeOK
<1>3. reader' \in Reader /\ ckpt' \in [reader : Reader, windows : Operator]
  BY <1>1, <1>2, EmptyTypes
<1>4. reader'.pos = n /\ reader'.unread = {} /\ ckpt'.reader = reader'
  BY <1>1 DEF ReadFrom
<1>5. Readers'
  BY <1>1, <1>2, <1>4 DEF Readers, AtReader
<1>. QED BY <1>1, <1>2, <1>3, <1>5, EmptyTypes DEF Begin

(* The state has the declared shape in every reachable state.                 *)
THEOREM GoldJobTypeCorrect == Spec => [](TypeOK /\ Readers)
<1>1. Init => TypeOK /\ Readers
  <2> SUFFICES ASSUME Init PROVE TypeOK /\ Readers
    OBVIOUS
  <2>1. silver \in Seq(SUBSET Rows) /\ gold \in Seq(Commit) /\ Len(silver) = 0
    BY EmptySeq DEF Init
  <2>2. TypeOK
    BY <2>1, EmptyTypes DEF Init, TypeOK, Commit
  <2>3. reader.pos = 0 /\ reader.unread = {} /\ ckpt.reader = reader /\ first = 0
    BY DEF Init, ReadFrom
  <2>. QED BY <2>1, <2>2, <2>3 DEF Readers, AtReader
<1>2. TypeOK /\ Readers /\ [Next]_vars => TypeOK' /\ Readers'
  <2> SUFFICES ASSUME TypeOK, Readers, [Next]_vars PROVE TypeOK' /\ Readers'
    OBVIOUS
  <2>0. Len(silver) \in Nat /\ first \in Nat /\ reader.pos \in Nat /\ ckpt.reader.pos \in Nat
    BY LenProperties DEF TypeOK, Reader
  <2>1. ASSUME NEW rows \in (SUBSET Rows) \ {{}}, CommitSilver(rows) PROVE TypeOK' /\ Readers'
    <3>1. /\ silver' \in Seq(SUBSET Rows) /\ Len(silver') = Len(silver) + 1
          /\ \A n \in 1..Len(silver) : silver'[n] = silver[n]
      BY <2>1, AppendProperties DEF CommitSilver, TypeOK
    <3>2. TypeOK'
      BY <2>1, <3>1 DEF CommitSilver, TypeOK, jobVars
    <3>3. Readers'
      BY <2>0, <2>1, <3>1 DEF CommitSilver, Readers, AtReader, jobVars
    <3>. QED BY <3>2, <3>3
  <2>2. CASE TakeSnapshot
    <3>1. reader.pos + 1 \in 1..Len(silver)
      BY <2>0, <2>2 DEF TakeSnapshot
    <3>2. silver[reader.pos + 1] \in SUBSET Rows
      BY <3>1, ElementOfSeq DEF TypeOK
    <3>3. reader' \in Reader /\ reader'.pos = reader.pos + 1 /\ reader'.unread = silver[reader.pos + 1]
      BY <2>0, <2>2, <3>2 DEF TakeSnapshot, Reader
    <3>4. TypeOK'
      BY <2>2, <3>3 DEF TakeSnapshot, TypeOK
    <3>5. Readers'
      BY <2>0, <2>2, <3>1, <3>3 DEF TakeSnapshot, Readers, AtReader
    <3>. QED BY <3>4, <3>5
  <2>3. ASSUME NEW r \in Rows, ReadRow(r) PROVE TypeOK' /\ Readers'
    <3>1. reader' \in Reader /\ reader'.pos = reader.pos /\ reader'.unread \subseteq reader.unread
      BY <2>3 DEF ReadRow, TypeOK, Reader
    <3>2. maxSeen' \in Nat \union {NothingSeen}
      BY <2>3, ConstantsAssumption DEF ReadRow, TypeOK
    <3>3. <<reader.pos, r>> \in Read
      BY <2>0, <2>3 DEF ReadRow, Readers, AtReader, Read
    <3>4. windows' \in Operator
      BY <2>3, <3>3 DEF ReadRow, TypeOK, Operator
    <3>5. TypeOK'
      BY <2>3, <3>1, <3>2, <3>4 DEF ReadRow, TypeOK
    <3>6. Readers'
      BY <2>3, <3>1 DEF ReadRow, Readers, AtReader
    <3>. QED BY <3>5, <3>6
  <2>4. CASE AdvanceWatermark
    <3>1. maxSeen - Delay \in Int
      BY <2>4, ConstantsAssumption DEF AdvanceWatermark, TypeOK, NothingSeen
    <3>2. windows' \in Operator
      BY <2>4, <3>1 DEF AdvanceWatermark, TypeOK, Operator
    <3>3. results' \subseteq Result
      BY <2>4, ClosedType, ResultsOf DEF AdvanceWatermark, TypeOK
    <3>4. TypeOK'
      BY <2>4, <3>2, <3>3 DEF AdvanceWatermark, TypeOK
    <3>. QED BY <2>4, <3>4 DEF AdvanceWatermark, Readers, AtReader
  <2>5. CASE Checkpoint
    BY <2>5 DEF Checkpoint, TypeOK, Readers, AtReader
  <2>6. CASE CommitGold
    <3>1. [run |-> run, rows |-> ready] \in Commit
      BY DEF TypeOK, Commit
    <3>2. gold' \in Seq(Commit)
      BY <2>6, <3>1, AppendProperties DEF CommitGold, TypeOK, Commit
    <3>. QED BY <2>6, <3>2 DEF CommitGold, TypeOK, Commit, Readers, AtReader
  <2>7. CASE Fail
    <3>1. CASE Restore
      BY <2>7, <3>1 DEF Fail, Restore, TypeOK, Readers, AtReader, NothingSeen
    <3>2. CASE Begin
      <4>1. TypeOK'
        BY <2>7, <3>2, BeginType DEF Fail, TypeOK
      <4>. QED BY <2>7, <3>2, <4>1, BeginType DEF Fail
    <3>. QED BY <2>7, <3>1, <3>2 DEF Fail
  <2>8. CASE StopProcess
    <3>1. reader'.pos = 0 /\ reader'.unread = {} /\ ckpt'.reader = reader' /\ first' = 0
      BY <2>8 DEF StopProcess, ReadFrom
    <3>2. reader' \in Reader /\ windows' \in Operator /\ ckpt' \in [reader : Reader, windows : Operator]
      BY <2>8, EmptyTypes DEF StopProcess
    <3>3. TypeOK'
      BY <2>8, <3>1, <3>2 DEF StopProcess, TypeOK
    <3>. QED BY <2>0, <2>8, <3>1, <3>3 DEF StopProcess, Readers, AtReader
  <2>9. CASE StartProcess
    <3>1. silver' = silver /\ Begin
      BY <2>9 DEF StartProcess
    <3>2. TypeOK'
      BY <2>9, <3>1, BeginType DEF StartProcess, TypeOK
    <3>. QED BY <3>1, <3>2, BeginType
  <2>10. CASE UNCHANGED vars
    BY <2>10 DEF vars, jobVars, TypeOK, Readers, AtReader
  <2>. QED BY <2>1, <2>2, <2>3, <2>4, <2>5, <2>6, <2>7, <2>8, <2>9, <2>10 DEF Next, Job
<1>. QED BY <1>1, <1>2, PTL DEF Spec

-----------------------------------------------------------------------------
(* Where results come from: those that wait for a checkpoint were closed after *)
(* the last one, those before it had been passed by then, and a row is open    *)
(* only in a window that the watermark has not passed.                         *)
Unique(S) == \A x, y \in S : Key(x) = Key(y) => x = y

OpenIsAhead(win) == \A q \in win.open : Closes(WindowOf(q)) > win.watermark

PassedAt(S, wm) == \A x \in S : Closes(x.window) <= wm

CommittedOfRun(n) == n \in 1..Len(gold) /\ gold[n].run = run

Order ==
  /\ \A n \in 1..Len(gold) : gold[n].run <= run
  /\ ckpt.windows.watermark <= windows.watermark
  /\ OpenIsAhead(windows) /\ OpenIsAhead(ckpt.windows)
  /\ PassedAt(results, windows.watermark)
  /\ \A x \in results : Closes(x.window) > ckpt.windows.watermark
  /\ PassedAt(ready, ckpt.windows.watermark)
  /\ job # "stopped" =>
       \A n : CommittedOfRun(n) => PassedAt(gold[n].rows, ckpt.windows.watermark)
  /\ Unique(results) /\ Unique(ready)
  /\ \A x \in ready : \A n : CommittedOfRun(n) => \A y \in gold[n].rows : Key(x) # Key(y)
  /\ job # "checkpointed" => ready = {}
  /\ job = "fresh" => \A n : ~CommittedOfRun(n)

OnceInv == Order /\ WindowOncePerRun

LEMMA ClosesInt ==
  ASSUME TypeOK
  PROVE  /\ windows.watermark \in Int /\ ckpt.windows.watermark \in Int
         /\ \A q \in windows.open \union ckpt.windows.open : Closes(WindowOf(q)) \in Int
         /\ \A x \in results \union ready : Closes(x.window) \in Int
         /\ \A n \in 1..Len(gold) : /\ gold[n].run \in Nat /\ gold[n].rows \in SUBSET Result
                                   /\ \A x \in gold[n].rows : Closes(x.window) \in Int
<1>1. windows.open \union ckpt.windows.open \in SUBSET Read
  BY DEF TypeOK, Operator
<1>2. \A x \in Result : Closes(x.window) \in Int
  BY ClosesType DEF Result
<1>3. \A n \in 1..Len(gold) : gold[n] \in [run : Nat \ {0}, rows : SUBSET Result]
  BY ElementOfSeq DEF TypeOK
<1>4. \A q \in windows.open \union ckpt.windows.open : Closes(WindowOf(q)) \in Int
  BY <1>1, RowTypes, ClosesType
<1>. QED BY <1>2, <1>3, <1>4 DEF TypeOK, Operator

LEMMA KeyWindow == \A x, y : Key(x) = Key(y) => x.window = y.window
  BY DEF Key

(* Steps that leave both watermarks and what was written alone.               *)
LEMMA OrderAlone ==
  ASSUME OnceInv, UNCHANGED <<job, run, windows, results, ckpt, ready, gold>>
  PROVE  OnceInv'
BY DEF OnceInv, Order, WindowOncePerRun, OpenIsAhead, PassedAt, CommittedOfRun, Unique

LEMMA OnceRead ==
  ASSUME TypeOK, TypeOK', OnceInv, NEW r \in Rows, ReadRow(r)
  PROVE  OnceInv'
<1>1. UNCHANGED <<job, run, results, ckpt, ready, gold>> /\ windows'.watermark = windows.watermark
  BY DEF ReadRow, TypeOK, Operator
<1>2. OpenIsAhead(windows')
  <2> DEFINE q == <<reader.pos, r>>
  <2>1. CASE windows' = windows
    BY <2>1 DEF OnceInv, Order
  <2>2. CASE ~Passed(WindowOf(q)) /\ windows' = [windows EXCEPT !.open = @ \union {q}]
    <3>1. windows'.open = windows.open \union {q}
      BY <2>2 DEF TypeOK, Operator
    <3>2. Closes(WindowOf(q)) \in Int /\ windows.watermark \in Int
      <4>1. q \in windows'.open
        BY <3>1
      <4>2. q \in Read
        BY <4>1 DEF TypeOK, Operator
      <4>. QED BY <4>2, RowTypes, ClosesType, ClosesInt
    <3>3. Closes(WindowOf(q)) > windows.watermark
      BY <2>2, <3>2 DEF Passed
    <3>. QED BY <1>1, <3>1, <3>3 DEF OnceInv, Order, OpenIsAhead
  <2>. QED BY <2>1, <2>2 DEF ReadRow
<1>. QED BY <1>1, <1>2 DEF OnceInv, Order, WindowOncePerRun, OpenIsAhead, PassedAt, CommittedOfRun, Unique

(* The watermark closes windows that it passes now and had not before.        *)
LEMMA OnceAdvance ==
  ASSUME TypeOK, OnceInv, AdvanceWatermark
  PROVE  OnceInv'
<1> DEFINE wm == maxSeen - Delay
           new == Results(ClosedBy(wm))
<1>1. wm \in Int /\ wm > windows.watermark
  BY ConstantsAssumption DEF AdvanceWatermark, TypeOK, NothingSeen
<1>2. /\ windows'.watermark = wm /\ windows'.open = windows.open \ ClosedBy(wm)
      /\ results' = results \union new
      /\ UNCHANGED <<job, run, ckpt, ready, gold>>
  BY DEF AdvanceWatermark
<1>3. \A x \in new : Closes(x.window) \in Int /\ Closes(x.window) > windows.watermark /\ Closes(x.window) <= wm
  <2> SUFFICES ASSUME NEW x \in new
               PROVE  Closes(x.window) \in Int /\ Closes(x.window) > windows.watermark /\ Closes(x.window) <= wm
    OBVIOUS
  <2>1. PICK q \in ClosedBy(wm) : x.window = WindowOf(q)
    BY ClosedType, ResultsOf
  <2>2. q \in windows.open /\ wm >= Closes(WindowOf(q))
    BY DEF ClosedBy
  <2>. QED BY <1>1, <2>1, <2>2, ClosesInt DEF OnceInv, Order, OpenIsAhead
<1>4. Unique(new)
  BY ClosedType, ResultsOf DEF Unique
<1>5. OpenIsAhead(windows')
  <2>1. \A q \in windows.open \ ClosedBy(wm) : Closes(WindowOf(q)) > wm
    BY <1>1, ClosesInt DEF ClosedBy
  <2>. QED BY <1>2, <2>1 DEF OpenIsAhead
<1> HIDE DEF wm, new
<1>6. Unique(results')
  <2> SUFFICES ASSUME NEW x \in results', NEW y \in results', Key(x) = Key(y) PROVE x = y
    BY DEF Unique
  <2>0. x.window = y.window
    BY KeyWindow
  <2>1. CASE x \in results /\ y \in results
    BY <2>1 DEF OnceInv, Order, Unique
  <2>2. CASE x \in new /\ y \in new
    BY <2>2, <1>4 DEF Unique
  <2>3. \A a \in results, b \in new : Closes(a.window) < Closes(b.window)
    BY <1>3, ClosesInt DEF OnceInv, Order, PassedAt
  <2>4. ~(x \in results /\ y \in new) /\ ~(y \in results /\ x \in new)
    <3>1. Closes(x.window) = Closes(y.window)
      BY <2>0
    <3>. QED BY <2>3, <3>1, <1>3
  <2>. QED BY <1>2, <2>1, <2>2, <2>4
<1>7. PassedAt(results', wm) /\ \A x \in results' : Closes(x.window) > ckpt.windows.watermark
  BY <1>1, <1>2, <1>3, ClosesInt DEF OnceInv, Order, PassedAt
<1>8. ckpt.windows.watermark <= wm
  BY <1>1, ClosesInt DEF OnceInv, Order
<1>. QED BY <1>2, <1>5, <1>6, <1>7, <1>8 DEF OnceInv, Order, WindowOncePerRun, PassedAt, CommittedOfRun

(* A checkpoint: what it takes along was closed after the one before.         *)
LEMMA OnceCheckpoint ==
  ASSUME TypeOK, OnceInv, Checkpoint
  PROVE  OnceInv'
<1>1. /\ ckpt'.windows = windows /\ ready' = ready \union results /\ results' = {}
      /\ job' = "checkpointed"
      /\ UNCHANGED <<run, windows, gold>>
  BY DEF Checkpoint
<1>2. \A x \in ready, y \in results : Closes(x.window) < Closes(y.window)
  BY ClosesInt DEF OnceInv, Order, PassedAt
<1>3. \A n : CommittedOfRun(n) => \A x \in gold[n].rows, y \in results : Closes(x.window) < Closes(y.window)
  BY ClosesInt DEF OnceInv, Order, PassedAt, CommittedOfRun, Checkpoint
<1>4. Unique(ready')
  <2> SUFFICES ASSUME NEW x \in ready', NEW y \in ready', Key(x) = Key(y) PROVE x = y
    BY DEF Unique
  <2>1. Closes(x.window) = Closes(y.window)
    BY KeyWindow
  <2>2. ~(x \in ready /\ y \in results) /\ ~(y \in ready /\ x \in results)
    BY <1>2, <2>1, ClosesInt
  <2>. QED BY <1>1, <2>2 DEF OnceInv, Order, Unique
<1>5. \A x \in ready' : \A n : CommittedOfRun(n) => \A y \in gold[n].rows : Key(x) # Key(y)
  <2> SUFFICES ASSUME NEW x \in results, NEW n, CommittedOfRun(n), NEW y \in gold[n].rows, Key(x) = Key(y)
               PROVE  FALSE
    BY <1>1 DEF OnceInv, Order
  <2>1. Closes(x.window) = Closes(y.window)
    BY KeyWindow
  <2>. QED BY <1>3, <2>1, ClosesInt DEF CommittedOfRun
<1>6. PassedAt(ready', windows.watermark)
  BY <1>1, ClosesInt DEF OnceInv, Order, PassedAt
<1>7. \A n : CommittedOfRun(n) => PassedAt(gold[n].rows, windows.watermark)
  BY ClosesInt DEF OnceInv, Order, PassedAt, CommittedOfRun, Checkpoint
<1>8. windows.watermark <= windows.watermark
  BY ClosesInt
<1>. QED BY <1>1, <1>4, <1>5, <1>6, <1>7, <1>8
         DEF OnceInv, Order, WindowOncePerRun, OpenIsAhead, PassedAt, CommittedOfRun, Unique

(* A commit: one snapshot of gold more, with the results that were ready.     *)
LEMMA OnceCommit ==
  ASSUME TypeOK, OnceInv, CommitGold
  PROVE  OnceInv'
<1> DEFINE e == [run |-> run, rows |-> ready]
           k == Len(gold)
<1>1. /\ ready # {} /\ ready' = {} /\ gold' = Append(gold, e)
      /\ UNCHANGED <<job, run, windows, results, ckpt>>
  BY DEF CommitGold
<1>2. /\ k \in Nat /\ Len(gold') = k + 1 /\ gold'[k + 1] = e
      /\ \A n \in 1..k : gold'[n] = gold[n]
  BY <1>1, AppendProperties, LenProperties DEF TypeOK
<1>3. job # "fresh" /\ job # "stopped" /\ run \in Nat
  BY <1>1 DEF OnceInv, Order, CommitGold, TypeOK
<1>4. e.run = run /\ e.rows = ready
  OBVIOUS
<1> HIDE DEF e
<1>5. \A n \in 1..Len(gold') : n \in 1..k \/ n = k + 1
  BY <1>2
<1>6. \A n \in 1..Len(gold') : gold'[n].run <= run
  BY <1>2, <1>3, <1>4, <1>5 DEF OnceInv, Order
<1>7. \A n : CommittedOfRun(n)' => PassedAt(gold'[n].rows, ckpt.windows.watermark)
  BY <1>1, <1>2, <1>3, <1>4, <1>5 DEF OnceInv, Order, CommittedOfRun
<1>8. WindowOncePerRun'
  <2> SUFFICES ASSUME NEW m \in 1..Len(gold'), NEW n \in 1..Len(gold'),
                      NEW x \in gold'[m].rows, NEW y \in gold'[n].rows,
                      gold'[m].run = gold'[n].run, Key(x) = Key(y)
               PROVE  m = n /\ x = y
    BY DEF WindowOncePerRun, Key
  <2>1. CASE m \in 1..k /\ n \in 1..k
    BY <1>2, <2>1 DEF OnceInv, WindowOncePerRun, Key
  <2>2. CASE m = k + 1 /\ n = k + 1
    BY <1>2, <1>4, <2>2 DEF OnceInv, Order, Unique
  <2>3. CASE m \in 1..k /\ n = k + 1
    <3>1. CommittedOfRun(m) /\ x \in gold[m].rows /\ y \in ready
      BY <1>2, <1>4, <2>3 DEF CommittedOfRun
    <3>. QED BY <3>1 DEF OnceInv, Order
  <2>4. CASE m = k + 1 /\ n \in 1..k
    <3>1. CommittedOfRun(n) /\ y \in gold[n].rows /\ x \in ready
      BY <1>2, <1>4, <2>4 DEF CommittedOfRun
    <3>. QED BY <3>1 DEF OnceInv, Order
  <2>. QED BY <1>5, <2>1, <2>2, <2>3, <2>4
<1>. QED BY <1>1, <1>3, <1>6, <1>7, <1>8
         DEF OnceInv, Order, OpenIsAhead, PassedAt, Unique

(* Back to the checkpoint, or to a new beginning.                             *)
LEMMA OnceRestore ==
  ASSUME TypeOK, OnceInv, Restore, UNCHANGED <<job, run, ready, gold>>
  PROVE  OnceInv'
<1>1. windows' = ckpt.windows /\ ckpt' = ckpt /\ results' = {}
  BY DEF Restore
<1>2. ckpt.windows.watermark <= ckpt.windows.watermark
  BY ClosesInt
<1>. QED BY <1>1, <1>2
         DEF OnceInv, Order, WindowOncePerRun, OpenIsAhead, PassedAt, CommittedOfRun, Unique

LEMMA OnceBegin ==
  ASSUME TypeOK, OnceInv, gold' = gold, ready' = {}, results' = {},
         windows' = NoWindows, ckpt'.windows = NoWindows, run' \in Nat, run' >= run,
         job' = "stopped" \/ \A n \in 1..Len(gold) : gold[n].run # run'
  PROVE  OnceInv'
<1>1. NoWindows.watermark = -1 /\ NoWindows.open = {}
  BY DEF NoWindows
<1>2. \A n \in 1..Len(gold') : gold'[n].run <= run'
  <2>1. run \in Nat /\ \A n \in 1..Len(gold) : gold[n].run \in Nat
    BY ClosesInt DEF TypeOK
  <2>2. \A n \in 1..Len(gold) : gold[n].run <= run
    BY DEF OnceInv, Order
  <2>. QED BY <2>1, <2>2
<1>3. WindowOncePerRun'
  BY DEF OnceInv, WindowOncePerRun
<1>4. /\ ckpt'.windows.watermark <= windows'.watermark
      /\ OpenIsAhead(windows') /\ OpenIsAhead(ckpt'.windows)
      /\ PassedAt(results', windows'.watermark) /\ PassedAt(ready', ckpt'.windows.watermark)
      /\ Unique(results') /\ Unique(ready')
  BY <1>1, <1>2 DEF OpenIsAhead, PassedAt, Unique
<1>5. job' = "stopped" \/ \A n : ~CommittedOfRun(n)'
  BY DEF CommittedOfRun
<1>6. /\ job' # "stopped" =>
           \A n : CommittedOfRun(n)' => PassedAt(gold'[n].rows, ckpt'.windows.watermark)
      /\ job' = "fresh" => \A n : ~CommittedOfRun(n)'
  BY <1>5
<1>7. /\ \A x \in results' : Closes(x.window) > ckpt'.windows.watermark
      /\ \A x \in ready' : \A n : CommittedOfRun(n)' => \A y \in gold'[n].rows : Key(x) # Key(y)
      /\ job' # "checkpointed" => ready' = {}
  OBVIOUS
<1>8. Order'
  BY <1>2, <1>4, <1>6, <1>7 DEF Order, OpenIsAhead, PassedAt, Unique, CommittedOfRun
<1>. QED BY <1>3, <1>8 DEF OnceInv

LEMMA OnceStep ==
  ASSUME TypeOK, TypeOK', OnceInv, [Next]_vars
  PROVE  OnceInv'
<1>1. ASSUME NEW rows \in (SUBSET Rows) \ {{}}, CommitSilver(rows) PROVE OnceInv'
  BY <1>1, OrderAlone DEF CommitSilver, jobVars
<1>2. CASE TakeSnapshot
  BY <1>2, OrderAlone DEF TakeSnapshot
<1>3. CASE Fail /\ job = "fresh" /\ Begin
  <2>1. ready = {} /\ \A n \in 1..Len(gold) : gold[n].run # run
    BY <1>3 DEF OnceInv, Order, CommittedOfRun
  <2>2. run \in Nat /\ run >= run
    BY DEF TypeOK
  <2>3. windows' = NoWindows /\ ckpt'.windows = NoWindows /\ results' = {}
    BY <1>3 DEF Begin
  <2>. QED BY <1>3, <2>1, <2>2, <2>3, OnceBegin DEF Fail
<1>4. CASE StopProcess
  <2>1. run \in Nat /\ run >= run
    BY DEF TypeOK
  <2>2. /\ windows' = NoWindows /\ ckpt'.windows = NoWindows /\ results' = {} /\ ready' = {}
        /\ job' = "stopped" /\ gold' = gold /\ run' = run
    BY <1>4 DEF StopProcess
  <2>. QED BY <2>1, <2>2, OnceBegin
<1>5. CASE StartProcess
  <2>1. run' \in Nat /\ run' > run /\ run \in Nat
    BY <1>5 DEF StartProcess, TypeOK
  <2>2. \A n \in 1..Len(gold) : gold[n].run # run'
    BY <2>1, ClosesInt DEF OnceInv, Order
  <2>3. windows' = NoWindows /\ ckpt'.windows = NoWindows /\ results' = {} /\ gold' = gold
    BY <1>5 DEF Begin, StartProcess
  <2>4. ready' = {}
    BY <1>5 DEF StartProcess, OnceInv, Order
  <2>. QED BY <2>1, <2>2, <2>3, <2>4, OnceBegin
<1>6. CASE Fail /\ Restore
  BY <1>6, OnceRestore DEF Fail
<1>7. CASE UNCHANGED vars
  BY <1>7, OrderAlone DEF vars, jobVars
<1>. QED
  BY <1>1, <1>2, <1>3, <1>4, <1>5, <1>6, <1>7, OnceRead, OnceAdvance, OnceCheckpoint, OnceCommit
  DEF Next, Job, Fail

(* A run of silver_to_gold writes a window of a district once, through every  *)
(* failure (silver_to_gold.py run).                                           *)
THEOREM WindowOnce == Spec => []WindowOncePerRun
<1>1. Init => OnceInv
  <2> SUFFICES ASSUME Init PROVE OnceInv
    OBVIOUS
  <2>1. NoWindows.watermark = -1 /\ NoWindows.open = {} /\ Len(gold) = 0
    BY EmptySeq DEF NoWindows, Init
  <2>. QED BY <2>1 DEF Init, OnceInv, Order, WindowOncePerRun, OpenIsAhead, PassedAt, CommittedOfRun, Unique
<1>2. OnceInv => WindowOncePerRun
  BY DEF OnceInv
<1>. QED BY <1>1, <1>2, OnceStep, GoldJobTypeCorrect, PTL DEF Spec

-----------------------------------------------------------------------------
(* Where rows are: what a reader has read of the run's snapshots is open, in a *)
(* result, or was late; and what made it late is a row that was read as well.  *)
Ahead(n, bound) ==
  \E m \in (first + 1)..n : \E a \in silver[m] : a.time - Delay >= bound

Accounted(rd, open, res) ==
  \A n \in (first + 1)..rd.pos : \A r \in silver[n] :
    \/ n = rd.pos /\ r \in rd.unread
    \/ <<n, r>> \in open
    \/ \E x \in res : <<n, r>> \in x.rows
    \/ Ahead(n, Closes(r.time \div Window))

Source(wm, n) == wm = -1 \/ Ahead(n, wm)

AccInv ==
  /\ Accounted(reader, windows.open, RunResults)
  /\ Accounted(ckpt.reader, ckpt.windows.open, ready \union GoldRowsOf(run))
  /\ Source(windows.watermark, reader.pos)
  /\ Source(ckpt.windows.watermark, ckpt.reader.pos)
  /\ maxSeen = NothingSeen \/ Ahead(reader.pos, maxSeen - Delay)

(* A commit moves the results that are ready to gold.                         *)
LEMMA CommitMoves ==
  ASSUME TypeOK, CommitGold
  PROVE  GoldRowsOf(run)' = GoldRowsOf(run) \union ready
<1> DEFINE e == [run |-> run, rows |-> ready]
           k == Len(gold)
<1>1. /\ k \in Nat /\ Len(gold') = k + 1 /\ gold'[k + 1] = e
      /\ \A n \in 1..k : gold'[n] = gold[n]
  BY AppendProperties, LenProperties DEF TypeOK, CommitGold
<1>2. \A x : x \in GoldRowsOf(run) <=> \E n \in 1..k : gold[n].run = run /\ x \in gold[n].rows
  BY DEF GoldRowsOf
<1>3. run' = run
  BY DEF CommitGold
<1>4. \A x : x \in GoldRowsOf(run)' <=> \E n \in 1..Len(gold') : gold'[n].run = run /\ x \in gold'[n].rows
  BY <1>3 DEF GoldRowsOf
<1>5. e.run = run /\ e.rows = ready
  OBVIOUS
<1> HIDE DEF e
<1>6. \A n : n \in 1..Len(gold') <=> n \in 1..k \/ n = k + 1
  BY <1>1
<1>7. \A x : x \in GoldRowsOf(run)' <=> x \in GoldRowsOf(run) \/ x \in ready
  BY <1>1, <1>2, <1>4, <1>5, <1>6
<1>. QED BY <1>7

LEMMA AccCommitSilver ==
  ASSUME TypeOK, Readers, AccInv, NEW rows \in (SUBSET Rows) \ {{}}, CommitSilver(rows)
  PROVE  AccInv'
<1>1. /\ Len(silver) \in Nat /\ first \in Nat /\ reader.pos \in Nat /\ ckpt.reader.pos \in Nat
      /\ \A n \in 1..Len(silver) : silver'[n] = silver[n]
  BY AppendProperties, LenProperties DEF CommitSilver, TypeOK, Reader
<1>2. \A n \in (first + 1)..reader.pos \union (first + 1)..ckpt.reader.pos : silver'[n] = silver[n]
  BY <1>1 DEF Readers, AtReader
<1>3. UNCHANGED <<run, first, reader, maxSeen, windows, results, ckpt, ready, gold>>
  BY DEF CommitSilver, jobVars
<1>4. \A n \in 0..reader.pos \union 0..ckpt.reader.pos : \A b : Ahead(n, b) => Ahead(n, b)'
  BY <1>1, <1>2, <1>3 DEF Ahead
<1>5. GoldRowsOf(run)' = GoldRowsOf(run) /\ RunResults' = RunResults
  BY <1>3 DEF GoldRowsOf, RunResults
<1>6. ASSUME NEW rd, NEW open, NEW res, rd.pos \in Nat, rd.pos <= Len(silver), Accounted(rd, open, res),
             NEW n \in (first + 1)..rd.pos, NEW r \in silver[n]
      PROVE  \/ n = rd.pos /\ r \in rd.unread
             \/ <<n, r>> \in open
             \/ \E x \in res : <<n, r>> \in x.rows
             \/ Ahead(n, Closes(r.time \div Window))'
  <2>1. n \in 1..Len(silver)
    BY <1>1, <1>6
  <2>2. Ahead(n, Closes(r.time \div Window)) => Ahead(n, Closes(r.time \div Window))'
    BY <1>1, <1>3, <2>1 DEF Ahead
  <2>. QED BY <1>6, <2>2 DEF Accounted
<1>7. reader.pos <= Len(silver) /\ ckpt.reader.pos <= Len(silver)
  BY DEF Readers, AtReader
<1>8. Accounted(reader, windows.open, RunResults)'
  BY <1>1, <1>2, <1>3, <1>5, <1>6, <1>7 DEF AccInv, Accounted
<1>9. Accounted(ckpt.reader, ckpt.windows.open, ready \union GoldRowsOf(run))'
  <2> DEFINE kept == ready \union GoldRowsOf(run)
  <2>1. /\ ckpt.reader.pos \in Nat /\ ckpt.reader.pos <= Len(silver)
        /\ Accounted(ckpt.reader, ckpt.windows.open, kept)
    BY <1>1, <1>7 DEF AccInv
  <2>2. kept' = kept /\ ckpt' = ckpt /\ first' = first
    BY <1>3, <1>5
  <2> HIDE DEF kept
  <2>3. \A n \in (first + 1)..ckpt.reader.pos : \A r \in silver[n] :
          \/ n = ckpt.reader.pos /\ r \in ckpt.reader.unread
          \/ <<n, r>> \in ckpt.windows.open
          \/ \E x \in kept : <<n, r>> \in x.rows
          \/ Ahead(n, Closes(r.time \div Window))'
    BY <1>6, <2>1
  <2>4. Accounted(ckpt.reader, ckpt.windows.open, kept)'
    BY <1>2, <2>2, <2>3 DEF Accounted
  <2>. QED BY <2>4 DEF kept
<1>10. Source(windows.watermark, reader.pos)' /\ Source(ckpt.windows.watermark, ckpt.reader.pos)'
  BY <1>1, <1>3, <1>4 DEF AccInv, Source
<1>11. (maxSeen = NothingSeen \/ Ahead(reader.pos, maxSeen - Delay))'
  BY <1>1, <1>3, <1>4 DEF AccInv
<1>. QED BY <1>8, <1>9, <1>10, <1>11 DEF AccInv

LEMMA AccTake ==
  ASSUME TypeOK, Readers, AccInv, TakeSnapshot
  PROVE  AccInv'
<1>1. /\ first \in Nat /\ reader.pos \in Nat /\ reader.unread = {}
      /\ reader'.pos = reader.pos + 1 /\ reader'.unread = silver[reader.pos + 1]
      /\ UNCHANGED <<silver, first, windows, results, ckpt, ready, gold, run, maxSeen>>
  BY DEF TakeSnapshot, TypeOK, Reader
<1>2. \A n, b : Ahead(n, b)' <=> Ahead(n, b)
  BY <1>1 DEF Ahead
<1>3. \A b : Ahead(reader.pos, b) => Ahead(reader'.pos, b)
  BY <1>1 DEF Ahead
<1>4. GoldRowsOf(run)' = GoldRowsOf(run) /\ RunResults' = RunResults
  BY <1>1 DEF GoldRowsOf, RunResults
<1>5. \A n \in (first + 1)..reader'.pos : n \in (first + 1)..reader.pos \/ n = reader'.pos
  BY <1>1
<1>6. Accounted(reader, windows.open, RunResults)'
  BY <1>1, <1>2, <1>4, <1>5 DEF AccInv, Accounted
<1>. QED BY <1>1, <1>2, <1>3, <1>4, <1>6 DEF AccInv, Accounted, Source

(* A row that is dropped is behind the watermark, and so behind a row that    *)
(* the run has read before.                                                   *)
LEMMA AccRead ==
  ASSUME TypeOK, Readers, AccInv, NEW r \in Rows, ReadRow(r)
  PROVE  AccInv'
<1> DEFINE q == <<reader.pos, r>>
<1>1. /\ first \in Nat /\ reader.pos \in Nat /\ reader.pos > first /\ r \in silver[reader.pos]
      /\ reader'.pos = reader.pos /\ reader'.unread = reader.unread \ {r}
      /\ maxSeen' = IF r.time > maxSeen THEN r.time ELSE maxSeen
      /\ windows'.watermark = windows.watermark
      /\ UNCHANGED <<silver, first, results, ckpt, ready, gold, run>>
  BY DEF ReadRow, TypeOK, Reader, Readers, AtReader, Operator
<1>2. \A n, b : Ahead(n, b)' <=> Ahead(n, b)
  BY <1>1 DEF Ahead
<1>3. GoldRowsOf(run)' = GoldRowsOf(run) /\ RunResults' = RunResults
  BY <1>1 DEF GoldRowsOf, RunResults
<1>4. q \in Read /\ WindowOf(q) = r.time \div Window
  BY <1>1 DEF Read, WindowOf
<1>5. windows.open \subseteq windows'.open
  BY DEF ReadRow, TypeOK, Operator
<1>6. q \in windows'.open \/ Ahead(reader.pos, Closes(WindowOf(q)))
  <2>1. CASE ~Passed(WindowOf(q))
    BY <2>1 DEF ReadRow, TypeOK, Operator
  <2>2. CASE Passed(WindowOf(q))
    <3>1. Closes(WindowOf(q)) \in Nat /\ Closes(WindowOf(q)) > 0 /\ windows.watermark \in Int
      BY <1>4, RowTypes, ClosesType DEF TypeOK, Operator
    <3>2. Ahead(reader.pos, windows.watermark)
      BY <2>2, <3>1 DEF AccInv, Source, Passed
    <3>3. \A m \in (first + 1)..reader.pos : \A a \in silver[m] : a.time - Delay \in Int
      <4>1. \A m \in (first + 1)..reader.pos : silver[m] \in SUBSET Rows
        <5>1. Len(silver) \in Nat /\ reader.pos <= Len(silver)
          BY LenProperties DEF TypeOK, Readers, AtReader
        <5>. QED BY <1>1, <5>1, ElementOfSeq DEF TypeOK
      <4>. QED BY <4>1, ConstantsAssumption
    <3>. QED BY <2>2, <3>1, <3>2, <3>3 DEF Ahead, Passed
  <2>. QED BY <2>1, <2>2
<1>7. \A n \in (first + 1)..reader.pos : \A s \in silver[n] :
        n = reader.pos /\ s \in reader.unread => s = r \/ (s \in reader'.unread)
  BY <1>1
<1>8. Accounted(reader, windows.open, RunResults)'
  <2> SUFFICES ASSUME NEW n \in (first + 1)..reader.pos, NEW s \in silver[n]
               PROVE  \/ n = reader.pos /\ s \in reader'.unread
                      \/ <<n, s>> \in windows'.open
                      \/ \E x \in RunResults : <<n, s>> \in x.rows
                      \/ Ahead(n, Closes(s.time \div Window))
    BY <1>1, <1>2, <1>3 DEF Accounted
  <2>1. CASE n = reader.pos /\ s = r
    BY <1>4, <1>6, <2>1
  <2>2. CASE ~(n = reader.pos /\ s = r)
    BY <1>5, <1>7, <2>2 DEF AccInv, Accounted
  <2>. QED BY <2>1, <2>2
<1>9. maxSeen' = NothingSeen \/ Ahead(reader.pos, maxSeen' - Delay)
  <2>1. r.time \in Nat /\ Delay \in Nat
    BY ConstantsAssumption
  <2>2. Ahead(reader.pos, r.time - Delay)
    BY <1>1, <2>1 DEF Ahead
  <2>. QED BY <1>1, <2>2 DEF AccInv
<1>. QED BY <1>1, <1>2, <1>3, <1>8, <1>9 DEF AccInv, Accounted, Source

LEMMA AccAdvance ==
  ASSUME TypeOK, AccInv, AdvanceWatermark
  PROVE  AccInv'
<1> DEFINE wm == maxSeen - Delay
<1>1. /\ windows'.watermark = wm /\ windows'.open = windows.open \ ClosedBy(wm)
      /\ results' = results \union Results(ClosedBy(wm)) /\ maxSeen # NothingSeen
      /\ UNCHANGED <<silver, first, reader, maxSeen, ckpt, ready, gold, run>>
  BY DEF AdvanceWatermark
<1> HIDE DEF wm
<1>2. \A n, b : Ahead(n, b)' <=> Ahead(n, b)
  BY <1>1 DEF Ahead
<1>3. GoldRowsOf(run)' = GoldRowsOf(run)
  BY <1>1 DEF GoldRowsOf
<1>4. RunResults' = RunResults \union Results(ClosedBy(wm))
  BY <1>1, <1>3 DEF RunResults
<1>5. \A q \in windows.open : q \in windows'.open \/ \E x \in Results(ClosedBy(wm)) : q \in x.rows
  BY <1>1, ClosedType, ResultsOf
<1>6. Accounted(reader, windows.open, RunResults)'
  BY <1>1, <1>2, <1>4, <1>5 DEF AccInv, Accounted
<1>7. Ahead(reader.pos, wm)
  BY <1>1 DEF AccInv, wm
<1>8. maxSeen' - Delay = wm
  BY <1>1 DEF wm
<1>. QED BY <1>1, <1>2, <1>3, <1>6, <1>7, <1>8 DEF AccInv, Accounted, Source

LEMMA AccMoves ==
  ASSUME TypeOK, AccInv, Checkpoint \/ CommitGold \/ (Fail /\ Restore)
  PROVE  AccInv'
<1>1. UNCHANGED <<silver, first, run>>
  BY DEF Checkpoint, CommitGold, Fail, Restore
<1>2. \A n, b : Ahead(n, b)' <=> Ahead(n, b)
  BY <1>1 DEF Ahead
<1>3. CASE Checkpoint
  <2>1. GoldRowsOf(run)' = GoldRowsOf(run)
    BY <1>3 DEF GoldRowsOf, Checkpoint
  <2>2. ready' \union GoldRowsOf(run) = RunResults /\ RunResults' = RunResults
    BY <1>3, <2>1 DEF RunResults, Checkpoint
  <2>3. ckpt'.reader = reader /\ ckpt'.windows = windows /\ UNCHANGED <<reader, windows, maxSeen>>
    BY <1>3 DEF Checkpoint
  <2>. QED BY <1>1, <1>2, <2>1, <2>2, <2>3 DEF AccInv, Accounted, Source
<1>4. CASE CommitGold
  <2>1. UNCHANGED <<reader, windows, maxSeen, results, ckpt>> /\ ready' = {}
    BY <1>4 DEF CommitGold
  <2>2. ready' \union GoldRowsOf(run)' = ready \union GoldRowsOf(run)
    BY <1>4, <2>1, CommitMoves
  <2>3. RunResults' = RunResults
    BY <2>1, <2>2 DEF RunResults
  <2>. QED BY <1>1, <1>2, <2>1, <2>2, <2>3 DEF AccInv, Accounted, Source
<1>5. CASE Fail /\ Restore
  <2>1. /\ reader' = ckpt.reader /\ windows' = ckpt.windows /\ results' = {} /\ ckpt' = ckpt
        /\ maxSeen' = NothingSeen /\ UNCHANGED <<ready, gold>>
    BY <1>5 DEF Fail, Restore
  <2>2. GoldRowsOf(run)' = GoldRowsOf(run)
    BY <1>1, <2>1 DEF GoldRowsOf
  <2>3. RunResults' = ready \union GoldRowsOf(run)
    BY <2>1, <2>2 DEF RunResults
  <2>. QED BY <1>1, <1>2, <2>1, <2>2, <2>3 DEF AccInv, Accounted, Source
<1>. QED BY <1>3, <1>4, <1>5

(* A process that is not there has seen no row.                               *)
Idle == job = "stopped" => maxSeen = NothingSeen

LEMMA AccStep ==
  ASSUME TypeOK, Readers, AccInv, TypeOK', Idle, [Next]_vars
  PROVE  AccInv'
<1>0. NoWindows.watermark = -1 /\ \A n : ReadFrom(n).pos = n
  BY DEF NoWindows, ReadFrom
<1>1. ASSUME Begin, maxSeen' = NothingSeen PROVE AccInv'
  <2>1. PICK n \in FirstSnapshots : /\ first' = n /\ reader' = ReadFrom(n)
                                   /\ ckpt' = [reader |-> ReadFrom(n), windows |-> NoWindows]
    BY <1>1 DEF Begin
  <2>2. windows' = NoWindows /\ first' \in Nat
    BY <1>1 DEF Begin, TypeOK
  <2>. QED BY <1>0, <1>1, <2>1, <2>2 DEF AccInv, Accounted, Source
<1>2. CASE StopProcess
  BY <1>0, <1>2 DEF StopProcess, AccInv, Accounted, Source
<1>3. CASE StartProcess
  <2>1. Begin /\ maxSeen' = NothingSeen
    BY <1>3 DEF StartProcess, Idle
  <2>. QED BY <1>1, <2>1
<1>4. CASE Fail
  BY <1>1, <1>4, AccMoves DEF Fail
<1>5. CASE UNCHANGED vars
  BY <1>5 DEF vars, jobVars, AccInv, Accounted, Source, Ahead, RunResults, GoldRowsOf
<1>. QED
  BY <1>2, <1>3, <1>4, <1>5, AccCommitSilver, AccTake, AccRead, AccAdvance, AccMoves DEF Next, Job
(* No row that a run of silver_to_gold has read is forgotten, whatever        *)
(* failures take back: it is open, in a result, or was late (run, the          *)
(* checkpointed source and window operator of silver_to_gold.py).             *)
THEOREM RowsAccounted == Spec => []RowsAccountedFor
<1>1. Init => AccInv /\ Idle
  <2> SUFFICES ASSUME Init PROVE AccInv /\ Idle
    OBVIOUS
  <2>1. NoWindows.watermark = -1 /\ ReadFrom(0).pos = 0
    BY DEF NoWindows, ReadFrom
  <2>. QED BY <2>1 DEF Init, AccInv, Accounted, Source, Idle
<1>2. Idle /\ [Next]_vars => Idle'
  BY DEF Idle, Next, Job, vars, jobVars, CommitSilver, TakeSnapshot, ReadRow, AdvanceWatermark,
         Checkpoint, CommitGold, Fail, StopProcess, StartProcess
<1>3. AccInv => RowsAccountedFor
  BY DEF AccInv, Accounted, Ahead, RowsAccountedFor
<1>. QED BY <1>1, <1>2, <1>3, AccStep, GoldJobTypeCorrect, PTL DEF Spec
=============================================================================
