--------------------------- MODULE Serving_proofs ---------------------------
(***************************************************************************)
(* Proofs about Serving and OpenHours, for any threads, districts, places, *)
(* hours and bounds.                                                       *)
(***************************************************************************)
EXTENDS Serving, TLAPS

-----------------------------------------------------------------------------
(* A place that the page takes for open, with its buffer of an hour, is    *)
(* open for the API now and in an hour, whenever midnight is.              *)
THEOREM OpenInAnHour ==
  ASSUME NEW o \in 0..24 \union {None}, NEW c \in 0..24 \union {None}, NEW h \in 0..23,
         isOpenAtHour(o, c, h, 60)
  PROVE  is_open_now(o, c, h) /\ is_open_now(o, c, (h + 1) % 24)
<1>1. o \in 0..24 /\ c \in 0..24 /\ h >= o /\ 60 * h < 60 * c - 60
  BY DEF isOpenAtHour
<1>2. c > o /\ h + 1 < c /\ h + 1 <= 23
  BY <1>1
<1>3. (h + 1) % 24 = h + 1
  BY <1>2
<1>4. o # None /\ c # None
  BY DEF isOpenAtHour
<1>5. is_open_now(o, c, h)
  BY <1>1, <1>2, <1>4 DEF is_open_now
<1>6. is_open_now(o, c, h + 1)
  BY <1>1, <1>2, <1>4 DEF is_open_now
<1>. QED BY <1>3, <1>5, <1>6

-----------------------------------------------------------------------------
(* Types of the constants of the state.                                    *)
LEMMA NothingType == Nothing \in Answers
  BY ConstantsAssumption DEF Nothing, Answers, Windows

LEMMA IdleType == Idle \in Requests
  BY NothingType, ConstantsAssumption DEF Idle, Requests, Kinds

LEMMA OpenedType == ASSUME NEW h \in Hours PROVE Opened(h) \in Screens
  BY DEF Opened, Screens

LEMMA AskedType == Asked \in Fetches
  BY NothingType DEF Asked, Fetches

(* Who waits for whom.                                                     *)
Awaited ==
  \A k \in Kinds : fetch[k].pc = "forwarded" =>
    fetch[k].by \in Threads /\ req[fetch[k].by].pc # "idle" /\ req[fetch[k].by].kind = k

(* A step of a thread that stays at its request keeps the type.            *)
LEMMA ThreadStep ==
  ASSUME TypeOK, NEW t \in Threads, NEW r \in Requests, req[t].pc # "idle",
         req' = [req EXCEPT ![t] = r], r.pc # "idle", r.kind = req[t].kind,
         r.plan <= Len(gold), UNCHANGED <<gold, fetch, stored, screen, hour>>,
         cached' \in Threads \union {None}, configured' \subseteq Threads
  PROVE  TypeOK'
<1>1. req' \in [Threads -> Requests] /\ \A u \in Threads : req'[u].plan <= Len(gold)
  BY DEF TypeOK
<1>2. Awaited'
  BY DEF TypeOK, Awaited
<1>. QED BY <1>1, <1>2 DEF TypeOK, Awaited

LEMMA TypeInit == Init => TypeOK
<1>. SUFFICES ASSUME Init PROVE TypeOK
  OBVIOUS
<1>1. gold \in Seq([district : Districts, window : 1..MaxWindow]) /\ Len(gold) = 0
  BY DEF Init
<1>2. req \in [Threads -> Requests] /\ \A t \in Threads : req[t].plan = 0
  BY IdleType DEF Init, Idle
<1>3. fetch \in [Kinds -> Fetches] /\ \A k \in Kinds : fetch[k].pc = "asked"
  BY AskedType DEF Init, Asked
<1>4. /\ stored \in [Kinds -> Answers \union {None}] /\ hour \in Hours
      /\ screen \in Screens
  BY OpenedType DEF Init
<1>5. cached \in Threads \union {None} /\ configured \subseteq Threads
  BY DEF Init
<1>6. Len(gold) <= MaxRows /\ \A t \in Threads : req[t].plan <= Len(gold)
  BY <1>1, <1>2, ConstantsAssumption
<1>. QED BY <1>1, <1>2, <1>3, <1>4, <1>5, <1>6 DEF TypeOK

LEMMA TypeStep == TypeOK /\ [Next]_vars => TypeOK'
<1>. SUFFICES ASSUME TypeOK, [Next]_vars PROVE TypeOK'
  OBVIOUS
<1>. USE DEF api, page
<1>1. CASE WriteGold
  <2>1. PICK d \in Districts, w \in 1..MaxWindow :
          gold' = Append(gold, [district |-> d, window |-> w])
    BY <1>1 DEF WriteGold
  <2>2. /\ gold' \in Seq([district : Districts, window : 1..MaxWindow])
        /\ Len(gold') = Len(gold) + 1 /\ Len(gold) \in Nat
    BY <2>1 DEF TypeOK
  <2>3. Len(gold') <= MaxRows
    BY <1>1, <2>2, ConstantsAssumption DEF WriteGold
  <2>4. \A t \in Threads : req[t].plan \in Nat /\ req[t].plan <= Len(gold')
    BY <2>2 DEF TypeOK, Requests
  <2>. QED BY <1>1, <2>2, <2>3, <2>4 DEF WriteGold, TypeOK
<1>2. CASE Tick
  BY <1>2 DEF Tick, TypeOK
<1>3. CASE Load
  <2>1. fetch \in [Kinds -> Fetches] /\ stored \in [Kinds -> Answers \union {None}]
    BY DEF TypeOK
  <2>2. \A k \in Kinds : stored'[k] = IF fetch[k].pc = "ok" THEN fetch[k].ans ELSE stored[k]
    BY <1>3 DEF Load
  <2>3. \A f \in Fetches : f.ans \in Answers
    BY DEF Fetches
  <2>4. stored' \in [Kinds -> Answers \union {None}]
    BY <1>3, <2>1, <2>3 DEF Load
  <2>5. PICK fresh \in SUBSET {k \in Kinds : stored'[k] # None} :
          fetch' = [k \in Kinds |-> IF k \in fresh
                                   THEN [pc |-> "ok", by |-> None, ans |-> stored'[k]]
                                   ELSE Asked]
    BY <1>3 DEF Load
  <2>6. \A k \in fresh : stored'[k] \in Answers
    BY <2>4, <2>5
  <2>7. \A a \in Answers : [pc |-> "ok", by |-> None, ans |-> a] \in Fetches
    BY DEF Fetches
  <2>8. fetch' \in [Kinds -> Fetches]
    BY <2>5, <2>6, <2>7, AskedType
  <2>9. \A k \in Kinds : fetch'[k].pc # "forwarded"
    BY <2>5 DEF Asked
  <2>10. screen' \in Screens
    BY <1>3, OpenedType DEF Load, TypeOK
  <2>. QED BY <1>3, <2>4, <2>8, <2>9, <2>10 DEF Load, TypeOK
<1>4. ASSUME NEW k \in Kinds, Timeout(k) PROVE TypeOK'
  <2>1. fetch[k] \in Fetches
    BY DEF TypeOK
  <2>2. [fetch[k] EXCEPT !.pc = "failed", !.by = None] \in Fetches
    BY <2>1 DEF Fetches
  <2>3. fetch' = [fetch EXCEPT ![k] = [fetch[k] EXCEPT !.pc = "failed", !.by = None]]
    BY <1>4 DEF Timeout
  <2>4. fetch' \in [Kinds -> Fetches] /\ fetch'[k].pc = "failed"
    BY <2>1, <2>2, <2>3 DEF TypeOK, Fetches
  <2>. QED BY <1>4, <2>3, <2>4 DEF Timeout, TypeOK
<1>5. ASSUME NEW t \in Threads, NEW k \in Kinds, Take(t, k) PROVE TypeOK'
  <2>. DEFINE r == [Idle EXCEPT !.pc = "plan", !.kind = k]
              f == [fetch[k] EXCEPT !.pc = "forwarded", !.by = t]
  <2>1. r \in Requests /\ r.pc = "plan" /\ r.kind = k /\ r.plan = 0
    BY IdleType DEF Idle, Requests
  <2>2. f \in Fetches /\ f.pc = "forwarded" /\ f.by = t
    BY DEF TypeOK, Fetches
  <2>3. req' = [req EXCEPT ![t] = r] /\ fetch' = [fetch EXCEPT ![k] = f] /\ req[t].pc = "idle"
    BY <1>5 DEF Take
  <2>. HIDE DEF r, f
  <2>4. Len(gold) \in Nat
    BY DEF TypeOK
  <2>5. /\ req' \in [Threads -> Requests] /\ fetch' \in [Kinds -> Fetches]
        /\ \A u \in Threads : req'[u].plan <= Len(gold)
    BY <2>1, <2>2, <2>3, <2>4 DEF TypeOK
  <2>6. Awaited'
    BY <2>1, <2>2, <2>3 DEF TypeOK, Awaited
  <2>. QED BY <1>5, <2>5, <2>6 DEF Take, TypeOK, Awaited
<1>8. CASE Show \/ Select
  <2>1. /\ screen \in Screens /\ hour \in Hours
        /\ fetch["chill"] \in Fetches /\ fetch["chill"].ans.hour \in Hours \union {None}
    BY DEF TypeOK, Kinds, Fetches, Answers
  <2>2. screen' \in Screens
    BY <1>8, <2>1 DEF Show, Select, Screens
  <2>. QED BY <1>8, <2>2 DEF Show, Select, TypeOK
<1>6. ASSUME NEW t \in Threads,
             Plan(t) \/ Cursor(t) \/ Connect(t) \/ Configure(t) \/ Raises(t) \/ Query(t) \/ Respond(t)
      PROVE TypeOK'
  <2>0. /\ req[t] \in Requests /\ Len(gold) \in 0..MaxRows /\ req[t].plan <= Len(gold)
        /\ cached \in Threads \union {None}
    BY ConstantsAssumption DEF TypeOK
  <2>1. CASE Plan(t)
    <3>. DEFINE r == [req[t] EXCEPT !.plan = Len(gold), !.pc = IF gold = <<>> THEN "answer" ELSE "cursor"]
    <3>1. r \in Requests /\ r.pc # "idle" /\ r.kind = req[t].kind /\ r.plan = Len(gold)
      BY <2>0 DEF Requests
    <3>2. req' = [req EXCEPT ![t] = r] /\ req[t].pc = "plan"
      BY <2>1 DEF Plan
    <3>. HIDE DEF r
    <3>. QED BY <2>0, <2>1, <3>1, <3>2, ThreadStep DEF Plan, TypeOK
  <2>2. CASE Cursor(t)
    <3>. DEFINE r == [req[t] EXCEPT !.con = cached, !.pc = IF cached = None THEN "connect" ELSE "query"]
    <3>1. r \in Requests /\ r.pc # "idle" /\ r.kind = req[t].kind /\ r.plan = req[t].plan
      BY <2>0 DEF Requests
    <3>2. req' = [req EXCEPT ![t] = r] /\ req[t].pc = "cursor"
      BY <2>2 DEF Cursor
    <3>. HIDE DEF r
    <3>. QED BY <2>0, <2>2, <3>1, <3>2, ThreadStep DEF Cursor, TypeOK
  <2>3. CASE Connect(t)
    <3>. DEFINE r == [req[t] EXCEPT !.con = t, !.pc = "configure"]
    <3>1. r \in Requests /\ r.pc # "idle" /\ r.kind = req[t].kind /\ r.plan = req[t].plan
      BY <2>0 DEF Requests
    <3>2. req' = [req EXCEPT ![t] = r] /\ req[t].pc = "connect"
      BY <2>3 DEF Connect
    <3>. HIDE DEF r
    <3>. QED BY <2>0, <2>3, <3>1, <3>2, ThreadStep DEF Connect, TypeOK
  <2>4. CASE Configure(t)
    <3>. DEFINE r == [req[t] EXCEPT !.pc = "query"]
    <3>1. r \in Requests /\ r.pc # "idle" /\ r.kind = req[t].kind /\ r.plan = req[t].plan
      BY <2>0 DEF Requests
    <3>2. req' = [req EXCEPT ![t] = r] /\ req[t].pc = "configure"
      BY <2>4 DEF Configure
    <3>. HIDE DEF r
    <3>5. UNCHANGED <<gold, fetch, stored, screen, hour>> /\ cached' \in Threads \union {None}
          /\ configured' \subseteq Threads
      BY <2>4, <2>0 DEF Configure, TypeOK
    <3>6. r.plan <= Len(gold) /\ req[t].pc # "idle"
      BY <2>0, <3>1, <3>2
    <3>. QED BY <3>1, <3>2, <3>5, <3>6, ThreadStep
  <2>5. CASE Raises(t)
    <3>. DEFINE r == [Idle EXCEPT !.pc = "error", !.kind = req[t].kind]
    <3>1. r \in Requests /\ r.pc # "idle" /\ r.kind = req[t].kind /\ r.plan = 0
      BY <2>0, IdleType DEF Idle, Requests
    <3>2. req' = [req EXCEPT ![t] = r] /\ req[t].pc # "idle"
      BY <2>5 DEF Raises
    <3>. HIDE DEF r
    <3>5. UNCHANGED <<gold, fetch, stored, screen, hour>> /\ cached' \in Threads \union {None}
          /\ configured' \subseteq Threads
      BY <2>5, <2>0 DEF Raises, TypeOK
    <3>6. r.plan <= Len(gold) /\ req[t].pc # "idle"
      BY <2>0, <3>1, <3>2
    <3>. QED BY <3>1, <3>2, <3>5, <3>6, ThreadStep
  <2>6. CASE Query(t)
    <3>1. PICK windows \in Windows :
            req' = [req EXCEPT ![t] = [Idle EXCEPT !.pc = "answer", !.kind = req[t].kind,
                      !.ans = [windows |-> windows,
                               hour |-> IF req[t].kind = "chill" THEN hour ELSE None]]]
      BY <2>6 DEF Query, Windows
    <3>. DEFINE a == [windows |-> windows, hour |-> IF req[t].kind = "chill" THEN hour ELSE None]
                r == [Idle EXCEPT !.pc = "answer", !.kind = req[t].kind, !.ans = a]
    <3>2. a \in Answers
      BY DEF Answers, TypeOK
    <3>3. r \in Requests /\ r.pc # "idle" /\ r.kind = req[t].kind /\ r.plan = 0
      BY <2>0, <3>2, IdleType DEF Idle, Requests
    <3>4. req' = [req EXCEPT ![t] = r] /\ req[t].pc # "idle"
      BY <2>6, <3>1 DEF Query
    <3>. HIDE DEF r, a
    <3>5. UNCHANGED <<gold, fetch, stored, screen, hour>> /\ cached' \in Threads \union {None}
          /\ configured' \subseteq Threads
      BY <2>6, <2>0 DEF Query, TypeOK
    <3>6. r.plan <= Len(gold) /\ req[t].pc # "idle"
      BY <2>0, <3>3, <3>4
    <3>. QED BY <3>3, <3>4, <3>5, <3>6, ThreadStep
  <2>7. CASE Respond(t)
    <3>. DEFINE k == req[t].kind
                f == [pc |-> IF req[t].pc = "answer" THEN "ok" ELSE "failed", by |-> None, ans |-> req[t].ans]
    <3>1. k \in Kinds /\ f \in Fetches /\ f.pc # "forwarded"
      BY <2>0 DEF Requests, Fetches
    <3>2. req' = [req EXCEPT ![t] = Idle] /\ UNCHANGED <<gold, cached, configured, stored, screen, hour>>
      BY <2>7 DEF Respond
    <3>3. IF Settles(t, k) THEN fetch' = [fetch EXCEPT ![k] = f] ELSE fetch' = fetch
      BY <2>7 DEF Respond
    <3>. HIDE DEF f
    <3>4. req' \in [Threads -> Requests] /\ \A u \in Threads : req'[u].plan <= Len(gold)
      BY <2>0, <3>2, IdleType DEF Idle, TypeOK
    <3>5. fetch' \in [Kinds -> Fetches]
      BY <3>1, <3>3 DEF TypeOK
    <3>6. ASSUME NEW j \in Kinds, fetch'[j].pc = "forwarded"
          PROVE  fetch'[j].by \in Threads /\ req'[fetch'[j].by].pc # "idle" /\ req'[fetch'[j].by].kind = j
      <4>1. fetch'[j] = fetch[j] /\ fetch[j].pc = "forwarded"
        BY <3>1, <3>3, <3>6 DEF TypeOK
      <4>2. fetch[j].by \in Threads /\ req[fetch[j].by].pc # "idle" /\ req[fetch[j].by].kind = j
        BY <4>1 DEF TypeOK
      <4>3. fetch[j].by # t
        <5>. SUFFICES ASSUME fetch[j].by = t PROVE FALSE
          OBVIOUS
        <5>1. k = j /\ Settles(t, k)
          BY <4>1, <4>2 DEF Settles
        <5>. QED BY <3>1, <3>3, <4>1, <5>1 DEF TypeOK
      <4>. QED BY <3>2, <4>1, <4>2, <4>3 DEF TypeOK
    <3>7. Awaited'
      BY <3>6 DEF Awaited
    <3>. QED BY <3>2, <3>4, <3>5, <3>7 DEF TypeOK, Awaited
  <2>. QED BY <1>6, <2>1, <2>2, <2>3, <2>4, <2>5, <2>6, <2>7
<1>7. CASE UNCHANGED vars
  BY <1>7 DEF vars, TypeOK
<1>. QED BY <1>1, <1>2, <1>3, <1>4, <1>5, <1>6, <1>7, <1>8 DEF Next

(* The state has the declared shape in every reachable state.              *)
THEOREM ServingTypeCorrect == Spec => []TypeOK
  BY TypeInit, TypeStep, PTL DEF Spec

-----------------------------------------------------------------------------
(* QueriesConfigured is not inductive: Connect takes a thread's connection *)
(* back, so it must be known that nobody else uses it.  The cached one is  *)
(* never being opened, and a query runs on the thread's own or on that.    *)
ConInv ==
  /\ cached # None => cached \in configured /\ req[cached].pc \notin {"connect", "configure"}
  /\ \A t \in Threads : req[t].pc = "query" =>
       req[t].con \in configured /\ req[t].con \in {t, cached}
  /\ \A t \in Threads : req[t].pc = "configure" => req[t].con = t

LEMMA ConStep == TypeOK /\ ConInv /\ [Next]_vars => ConInv'
<1>. SUFFICES ASSUME TypeOK, ConInv, [Next]_vars PROVE ConInv'
  OBVIOUS
<1>. USE DEF api, page
<1>0. /\ cached \in Threads \union {None} /\ configured \subseteq Threads /\ None \notin Threads
      /\ req \in [Threads -> Requests]
  BY ConstantsAssumption DEF TypeOK
<1>1. ASSUME UNCHANGED <<cached, configured, req>> PROVE ConInv'
  BY <1>1 DEF ConInv
(* A thread that neither opens a connection nor gets one. *)
<1>2. ASSUME NEW t \in Threads, NEW r \in Requests, req' = [req EXCEPT ![t] = r],
             r.pc \notin {"query", "connect", "configure"}, UNCHANGED <<cached, configured>>
      PROVE  ConInv'
  BY <1>0, <1>2 DEF ConInv
<1>3. ASSUME NEW t \in Threads, NEW k \in Kinds, Take(t, k) PROVE ConInv'
  <2>1. [Idle EXCEPT !.pc = "plan", !.kind = k] \in Requests
    BY IdleType DEF Idle, Requests
  <2>2. [Idle EXCEPT !.pc = "plan", !.kind = k].pc = "plan"
    BY DEF Idle
  <2>. QED BY <1>2, <1>3, <2>1, <2>2 DEF Take
<1>4. ASSUME NEW t \in Threads,
             Plan(t) \/ Cursor(t) \/ Connect(t) \/ Configure(t) \/ Raises(t) \/ Query(t) \/ Respond(t)
      PROVE  ConInv'
  <2>0. req[t] \in Requests
    BY <1>0
  <2>1. CASE Plan(t)
    BY <2>0, <2>1, <1>0 DEF Plan, ConInv, Requests
  <2>2. CASE Cursor(t)
    <3>. DEFINE r == [req[t] EXCEPT !.con = cached, !.pc = IF cached = None THEN "connect" ELSE "query"]
    <3>1. r.pc = (IF cached = None THEN "connect" ELSE "query") /\ r.con = cached
      BY <2>0 DEF Requests
    <3>2. req' = [req EXCEPT ![t] = r] /\ UNCHANGED <<cached, configured>>
      BY <2>2 DEF Cursor
    <3>. HIDE DEF r
    <3>. QED BY <1>0, <3>1, <3>2 DEF ConInv
  <2>3. CASE Connect(t)
    <3>1. /\ req'[t].pc = "configure" /\ req'[t].con = t /\ \A u \in Threads \ {t} : req'[u] = req[u]
          /\ configured' = configured \ {t} /\ cached' = cached /\ req[t].pc = "connect"
      BY <1>0, <2>0, <2>3 DEF Connect, Requests
    <3>2. cached # t
      BY <1>0, <3>1 DEF ConInv
    <3>. QED BY <1>0, <3>1, <3>2 DEF ConInv
  <2>4. CASE Configure(t)
    <3>0. req[t].con = t
      BY <2>4 DEF Configure, ConInv
    <3>1. /\ req'[t].pc = "query" /\ req'[t].con = t /\ \A u \in Threads \ {t} : req'[u] = req[u]
          /\ configured' = configured \union {t} /\ cached' = (IF cached = None THEN t ELSE cached)
      BY <1>0, <2>0, <2>4, <3>0 DEF Configure, Requests
    <3>. QED BY <1>0, <3>1 DEF ConInv
  <2>5. CASE Raises(t)
    <3>1. [Idle EXCEPT !.pc = "error", !.kind = req[t].kind] \in Requests
      BY <2>0, IdleType DEF Idle, Requests
    <3>2. [Idle EXCEPT !.pc = "error", !.kind = req[t].kind].pc = "error"
      BY DEF Idle
    <3>. QED BY <1>2, <2>5, <3>1, <3>2 DEF Raises
  <2>6. CASE Query(t)
    <3>1. PICK windows \in [Districts -> 0..MaxWindow] :
            req' = [req EXCEPT ![t] = [Idle EXCEPT !.pc = "answer", !.kind = req[t].kind,
                      !.ans = [windows |-> windows,
                               hour |-> IF req[t].kind = "chill" THEN hour ELSE None]]]
      BY <2>6 DEF Query
    <3>2. req'[t].pc = "answer" /\ \A u \in Threads \ {t} : req'[u] = req[u]
      BY <1>0, <3>1 DEF Idle
    <3>3. UNCHANGED <<cached, configured>>
      BY <2>6 DEF Query
    <3>. QED BY <1>0, <3>2, <3>3 DEF ConInv
  <2>7. CASE Respond(t)
    <3>1. Idle.pc = "idle" /\ req' = [req EXCEPT ![t] = Idle] /\ UNCHANGED <<cached, configured>>
      BY <2>7 DEF Respond, Idle
    <3>. QED BY <1>2, <3>1, IdleType
  <2>. QED BY <1>4, <2>1, <2>2, <2>3, <2>4, <2>5, <2>6, <2>7
<1>. QED BY <1>1, <1>3, <1>4 DEF Next, WriteGold, Tick, Load, Show, Select, Timeout, vars

(* No query runs on a connection without its secret.                       *)
THEOREM ConnectionsConfigured == Spec => []QueriesConfigured
<1>1. Init => ConInv
  BY DEF Init, ConInv, Idle
<1>2. TypeOK /\ ConInv => QueriesConfigured
  <2>. SUFFICES ASSUME TypeOK, ConInv PROVE QueriesConfigured
    OBVIOUS
  <2>1. configured \subseteq Threads /\ None \notin Threads
    BY ConstantsAssumption DEF TypeOK
  <2>. QED BY <2>1 DEF ConInv, QueriesConfigured
<1>. QED BY <1>1, <1>2, ConStep, ServingTypeCorrect, PTL DEF Spec

-----------------------------------------------------------------------------
(* Rows g have a row of district d, among the first n, that is not of an   *)
(* older window than w.                                                    *)
InRows(g, d, w, n) == w = 0 \/ \E i \in 1..n : g[i].district = d /\ g[i].window >= w

(* A window that the page knows is in the table, and in the plan of every  *)
(* request that the page still waits for: nobody waits for an old plan.    *)
PageInvOf(d) ==
  /\ \A k \in Kinds : InRows(gold, d, Seen(k, d), Len(gold))
  /\ \A t \in Threads :
       /\ req[t].pc # "answer" => req[t].ans.windows[d] = 0
       /\ req[t].pc = "answer" => InRows(gold, d, req[t].ans.windows[d], Len(gold))
  /\ \A k \in Kinds :
       fetch[k].pc = "ok" => /\ fetch[k].ans.windows[d] >= Seen(k, d)
                            /\ InRows(gold, d, fetch[k].ans.windows[d], Len(gold))
  /\ \A k \in Kinds : fetch[k].pc = "forwarded" =>
       /\ req[fetch[k].by].pc \in {"cursor", "connect", "configure", "query"}
            => InRows(gold, d, Seen(k, d), req[fetch[k].by].plan)
       /\ req[fetch[k].by].pc = "answer" => req[fetch[k].by].ans.windows[d] >= Seen(k, d)

PageInv == \A d \in Districts : PageInvOf(d)

LEMMA RowsGrow ==
  ASSUME NEW S, NEW g \in Seq(S), NEW x, NEW d, NEW w, NEW n \in Nat, NEW m \in Nat,
         n <= Len(g), n <= m, InRows(g, d, w, n)
  PROVE  InRows(Append(g, x), d, w, m)
<1>1. \A i \in 1..n : Append(g, x)[i] = g[i]
  OBVIOUS
<1>. QED BY <1>1 DEF InRows

LEMMA ElementOf ==
  ASSUME NEW S, NEW s \in Seq(S), NEW i \in 1..Len(s)
  PROVE  s[i] \in S
  OBVIOUS

(* The types that the steps below need.                                    *)
LEMMA PageTypes ==
  ASSUME TypeOK, NEW d \in Districts
  PROVE  /\ gold \in Seq([district : Districts, window : 1..MaxWindow]) /\ Len(gold) \in Nat
         /\ \A i \in 1..Len(gold) : gold[i].window \in Nat
         /\ \A k \in Kinds : Seen(k, d) \in Nat
         /\ \A k \in Kinds : fetch[k].ans.windows[d] \in Nat
         /\ \A t \in Threads : /\ req[t].ans.windows[d] \in Nat
                               /\ req[t].plan \in Nat /\ req[t].plan <= Len(gold)
                               /\ req[t].kind \in Kinds
         /\ req \in [Threads -> Requests] /\ fetch \in [Kinds -> Fetches]
         /\ \A k \in Kinds : fetch[k].pc = "forwarded" => fetch[k].by \in Threads
<1>1. /\ gold \in Seq([district : Districts, window : 1..MaxWindow])
      /\ req \in [Threads -> Requests] /\ fetch \in [Kinds -> Fetches]
      /\ stored \in [Kinds -> Answers \union {None}]
      /\ \A t \in Threads : req[t].plan <= Len(gold)
      /\ \A k \in Kinds : fetch[k].pc = "forwarded" => fetch[k].by \in Threads
  BY DEF TypeOK
<1>2. MaxWindow \in Nat /\ MaxRows \in Nat
  BY ConstantsAssumption
<1>3. \A k \in Kinds : fetch[k].ans \in Answers
  BY <1>1 DEF Fetches
<1>4. \A t \in Threads : req[t].ans \in Answers /\ req[t].plan \in 0..MaxRows /\ req[t].kind \in Kinds
  BY <1>1 DEF Requests
<1>5. \A a \in Answers : a.windows[d] \in Nat
  BY <1>2 DEF Answers, Windows
<1>6. \A k \in Kinds : Seen(k, d) \in Nat
  BY <1>1, <1>5 DEF Seen
<1>7. \A i \in 1..Len(gold) : gold[i] \in [district : Districts, window : 1..MaxWindow]
  BY <1>1, ElementOf
<1>8. \A i \in 1..Len(gold) : gold[i].window \in Nat
  BY <1>2, <1>7
<1>. QED BY <1>1, <1>2, <1>3, <1>4, <1>5, <1>6, <1>8

LEMMA PageInit == Init => PageInv
<1>. SUFFICES ASSUME Init, NEW d \in Districts PROVE PageInvOf(d)
  BY DEF PageInv
<1>1. \A k \in Kinds : Seen(k, d) = 0 /\ fetch[k].pc = "asked"
  BY DEF Init, Asked, Seen
<1>2. \A t \in Threads : req[t].pc = "idle" /\ req[t].ans.windows[d] = 0
  BY DEF Init, Idle, Nothing
<1>. QED BY <1>1, <1>2 DEF PageInvOf, InRows

LEMMA PageStep == TypeOK /\ PageInv /\ [Next]_vars => PageInv'
<1>. SUFFICES ASSUME TypeOK, PageInv, [Next]_vars, NEW d \in Districts PROVE PageInvOf(d)'
  BY DEF PageInv
<1>. USE DEF api, page
<1>0. PageInvOf(d)
  BY DEF PageInv
<1>9. UNCHANGED stored => \A k \in Kinds : Seen(k, d)' = Seen(k, d)
  BY DEF Seen
<1>1. CASE WriteGold
  <2>1. PICK x : gold' = Append(gold, x)
    BY <1>1 DEF WriteGold
  <2>2. UNCHANGED <<req, fetch, stored>>
    BY <1>1 DEF WriteGold
  <2>3. Len(gold') \in Nat /\ Len(gold) <= Len(gold')
    BY <2>1, PageTypes
  <2>4. \A w, n \in Nat : n <= Len(gold) /\ InRows(gold, d, w, n) => InRows(gold', d, w, n)
    BY <2>1, PageTypes, RowsGrow
  <2>5. \A w : InRows(gold, d, w, Len(gold)) => InRows(gold', d, w, Len(gold'))
    BY <2>1, <2>3, PageTypes, RowsGrow
  <2>. QED BY <1>0, <1>9, <2>2, <2>4, <2>5, PageTypes DEF PageInvOf
<1>2. CASE UNCHANGED <<gold, req, fetch, stored>>
  BY <1>0, <1>2, <1>9 DEF PageInvOf
<1>3. CASE Load
  <2>1. UNCHANGED <<gold, req>>
    BY <1>3 DEF Load
  <2>2. \A k \in Kinds : stored'[k] = IF fetch[k].pc = "ok" THEN fetch[k].ans ELSE stored[k]
    BY <1>3 DEF Load
  <2>3. \A k \in Kinds : \/ Seen(k, d)' = Seen(k, d) \/ Seen(k, d)' = 0
                         \/ (fetch[k].pc = "ok" /\ Seen(k, d)' = fetch[k].ans.windows[d])
    BY <2>2 DEF Seen
  <2>4. \A k \in Kinds : InRows(gold, d, Seen(k, d)', Len(gold))
    BY <1>0, <2>3 DEF PageInvOf, InRows
  <2>5. PICK fresh \in SUBSET {k \in Kinds : stored'[k] # None} :
          fetch' = [k \in Kinds |-> IF k \in fresh
                                   THEN [pc |-> "ok", by |-> None, ans |-> stored'[k]]
                                   ELSE Asked]
    BY <1>3 DEF Load
  <2>6. \A k \in Kinds : \/ fetch'[k].pc = "asked"
                         \/ (fetch'[k].pc = "ok" /\ fetch'[k].ans.windows[d] = Seen(k, d)')
    BY <2>5 DEF Asked, Seen
  <2>7. \A k \in Kinds : fetch'[k].pc # "forwarded"
    BY <2>6
  <2>8. \A k \in Kinds : Seen(k, d)' \in Nat
    BY <2>3, PageTypes
  <2>9. \A k \in Kinds : fetch'[k].pc = "ok" =>
          fetch'[k].ans.windows[d] >= Seen(k, d)' /\ InRows(gold, d, fetch'[k].ans.windows[d], Len(gold))
    BY <2>4, <2>6, <2>8
  <2>. QED BY <1>0, <2>1, <2>4, <2>7, <2>9 DEF PageInvOf
<1>4. ASSUME NEW k \in Kinds, Timeout(k) PROVE PageInvOf(d)'
  <2>1. fetch'[k].pc = "failed" /\ \A j \in Kinds \ {k} : fetch'[j] = fetch[j]
    BY <1>4, PageTypes DEF Timeout, Fetches
  <2>2. UNCHANGED <<gold, req, stored>>
    BY <1>4 DEF Timeout
  <2>. QED BY <1>0, <1>9, <2>1, <2>2 DEF PageInvOf
<1>5. ASSUME NEW t \in Threads, NEW k \in Kinds, Take(t, k) PROVE PageInvOf(d)'
  <2>1. /\ fetch'[k].pc = "forwarded" /\ fetch'[k].by = t
        /\ \A j \in Kinds \ {k} : fetch'[j] = fetch[j]
    BY <1>5, PageTypes DEF Take, Fetches
  <2>2. /\ req'[t].pc = "plan" /\ req'[t].ans.windows[d] = 0
        /\ \A u \in Threads \ {t} : req'[u] = req[u]
    BY <1>5, PageTypes DEF Take, Idle, Nothing
  <2>3. UNCHANGED <<gold, stored>> /\ req[t].pc = "idle"
    BY <1>5 DEF Take
  <2>4. \A j \in Kinds \ {k} : fetch[j].pc = "forwarded" => fetch[j].by \in Threads \ {t}
    BY <2>3 DEF TypeOK
  <2>. QED BY <1>0, <1>9, <2>1, <2>2, <2>3, <2>4 DEF PageInvOf
(* A thread's step in general: what its new record must satisfy.           *)
<1>6. ASSUME NEW t \in Threads, \A u \in Threads \ {t} : req'[u] = req[u],
             UNCHANGED <<gold, fetch, stored>>,
             req'[t].pc # "answer" => req'[t].ans.windows[d] = 0,
             req'[t].pc = "answer" => InRows(gold, d, req'[t].ans.windows[d], Len(gold)),
             \A k \in Kinds : fetch[k].pc = "forwarded" /\ fetch[k].by = t =>
               /\ req'[t].pc \in {"cursor", "connect", "configure", "query"}
                    => InRows(gold, d, Seen(k, d), req'[t].plan)
               /\ req'[t].pc = "answer" => req'[t].ans.windows[d] >= Seen(k, d)
      PROVE  PageInvOf(d)'
  BY <1>0, <1>6, <1>9, PageTypes DEF PageInvOf
<1>7. ASSUME NEW t \in Threads,
             Plan(t) \/ Cursor(t) \/ Connect(t) \/ Configure(t) \/ Raises(t) \/ Query(t)
      PROVE  PageInvOf(d)'
  <2>0. req[t] \in Requests /\ UNCHANGED <<gold, fetch, stored>>
    BY <1>7, PageTypes DEF Plan, Cursor, Connect, Configure, Raises, Query
  <2>8. ASSUME NEW r, req' = [req EXCEPT ![t] = r]
        PROVE  req'[t] = r /\ \A u \in Threads \ {t} : req'[u] = req[u]
    BY <2>8, PageTypes
  <2>1. CASE Plan(t)
    <3>. DEFINE r == [req[t] EXCEPT !.plan = Len(gold), !.pc = IF gold = <<>> THEN "answer" ELSE "cursor"]
    <3>1. /\ r.plan = Len(gold) /\ r.ans = req[t].ans
          /\ r.pc = (IF gold = <<>> THEN "answer" ELSE "cursor")
      BY <2>0 DEF Requests
    <3>2. req' = [req EXCEPT ![t] = r] /\ req[t].pc = "plan"
      BY <2>1 DEF Plan
    <3>. HIDE DEF r
    <3>3. r.ans.windows[d] = 0 /\ \A k \in Kinds : InRows(gold, d, Seen(k, d), Len(gold))
      BY <1>0, <3>1, <3>2 DEF PageInvOf
    <3>4. gold = <<>> => \A k \in Kinds : Seen(k, d) = 0
      <4>. SUFFICES ASSUME gold = <<>>, NEW k \in Kinds PROVE Seen(k, d) = 0
        OBVIOUS
      <4>1. Len(gold) = 0
        OBVIOUS
      <4>. QED BY <3>3, <4>1 DEF InRows
    <3>5. InRows(gold, d, r.ans.windows[d], Len(gold))
      BY <3>3 DEF InRows
    <3>6. req'[t] = r /\ \A u \in Threads \ {t} : req'[u] = req[u]
      BY <2>8, <3>2
    <3>7. r.pc = "answer" => \A k \in Kinds : r.ans.windows[d] >= Seen(k, d)
      BY <3>1, <3>3, <3>4, PageTypes
    <3>. QED BY <1>6, <2>0, <3>1, <3>3, <3>5, <3>6, <3>7
  <2>2. ASSUME NEW r, req' = [req EXCEPT ![t] = r], r.plan = req[t].plan, r.ans = req[t].ans,
               req[t].pc \in {"cursor", "connect", "configure", "query"},
               r.pc \in {"cursor", "connect", "configure", "query"}
        PROVE  PageInvOf(d)'
    <3>1. r.pc # "answer" /\ r.ans.windows[d] = 0
      BY <1>0, <2>2 DEF PageInvOf
    <3>2. \A k \in Kinds : fetch[k].pc = "forwarded" /\ fetch[k].by = t => InRows(gold, d, Seen(k, d), r.plan)
      BY <1>0, <2>2 DEF PageInvOf
    <3>3. req'[t] = r /\ \A u \in Threads \ {t} : req'[u] = req[u]
      BY <2>2, <2>8
    <3>. QED BY <1>6, <2>0, <3>1, <3>2, <3>3
  <2>3. CASE Cursor(t)
    <3>. DEFINE r == [req[t] EXCEPT !.con = cached, !.pc = IF cached = None THEN "connect" ELSE "query"]
    <3>1. r.plan = req[t].plan /\ r.ans = req[t].ans /\ r.pc \in {"connect", "query"}
      BY <2>0 DEF Requests
    <3>2. req' = [req EXCEPT ![t] = r] /\ req[t].pc = "cursor"
      BY <2>3 DEF Cursor
    <3>. HIDE DEF r
    <3>. QED BY <2>2, <3>1, <3>2
  <2>4. CASE Connect(t)
    <3>. DEFINE r == [req[t] EXCEPT !.con = t, !.pc = "configure"]
    <3>1. r.plan = req[t].plan /\ r.ans = req[t].ans /\ r.pc = "configure"
      BY <2>0 DEF Requests
    <3>2. req' = [req EXCEPT ![t] = r] /\ req[t].pc = "connect"
      BY <2>4 DEF Connect
    <3>. HIDE DEF r
    <3>. QED BY <2>2, <3>1, <3>2
  <2>5. CASE Configure(t)
    <3>. DEFINE r == [req[t] EXCEPT !.pc = "query"]
    <3>1. r.plan = req[t].plan /\ r.ans = req[t].ans /\ r.pc = "query"
      BY <2>0 DEF Requests
    <3>2. req' = [req EXCEPT ![t] = r] /\ req[t].pc = "configure"
      BY <2>5 DEF Configure
    <3>. HIDE DEF r
    <3>. QED BY <2>2, <3>1, <3>2
  <2>6. CASE Raises(t)
    <3>. DEFINE r == [Idle EXCEPT !.pc = "error", !.kind = req[t].kind]
    <3>1. r.pc = "error" /\ r.ans.windows[d] = 0
      BY DEF Idle, Nothing
    <3>2. req' = [req EXCEPT ![t] = r]
      BY <2>6 DEF Raises
    <3>. HIDE DEF r
    <3>3. req'[t] = r /\ \A u \in Threads \ {t} : req'[u] = req[u]
      BY <2>8, <3>2
    <3>. QED BY <1>6, <2>0, <3>1, <3>3
  <2>7. CASE Query(t)
    <3>1. PICK windows \in [Districts -> 0..MaxWindow] :
            /\ \/ Planned(t, d) = {} /\ windows[d] = 0
               \/ \E i \in Newest(t, d) : windows[d] = gold[i].window
            /\ req' = [req EXCEPT ![t] = [Idle EXCEPT !.pc = "answer", !.kind = req[t].kind,
                         !.ans = [windows |-> windows,
                                  hour |-> IF req[t].kind = "chill" THEN hour ELSE None]]]
      BY <2>7 DEF Query
    <3>. DEFINE r == [Idle EXCEPT !.pc = "answer", !.kind = req[t].kind,
                        !.ans = [windows |-> windows,
                                 hour |-> IF req[t].kind = "chill" THEN hour ELSE None]]
    <3>2. r.pc = "answer" /\ r.ans.windows[d] = windows[d] /\ req' = [req EXCEPT ![t] = r]
      BY <3>1 DEF Idle
    <3>3. req[t].pc = "query"
      BY <2>7 DEF Query
    <3>. HIDE DEF r
    <3>4. \A i \in Newest(t, d) : /\ i \in 1..Len(gold) /\ gold[i].district = d
                                  /\ gold[i].window \in Nat
      BY PageTypes DEF Newest, Planned
    <3>5. InRows(gold, d, windows[d], Len(gold))
      <4>1. CASE windows[d] = 0
        BY <4>1 DEF InRows
      <4>2. ASSUME NEW i \in Newest(t, d), windows[d] = gold[i].window
            PROVE  InRows(gold, d, windows[d], Len(gold))
        <5>1. i \in 1..Len(gold) /\ gold[i].district = d /\ gold[i].window >= gold[i].window
          BY <3>4
        <5>. QED BY <4>2, <5>1 DEF InRows
      <4>. QED BY <3>1, <4>1, <4>2
    <3>6. ASSUME NEW k \in Kinds, InRows(gold, d, Seen(k, d), req[t].plan) PROVE windows[d] >= Seen(k, d)
      <4>1. windows[d] \in Nat
        BY <3>1, ConstantsAssumption
      <4>2. CASE Seen(k, d) = 0
        BY <4>1, <4>2
      <4>3. CASE Seen(k, d) # 0
        <5>1. PICK i \in 1..req[t].plan : gold[i].district = d /\ gold[i].window >= Seen(k, d)
          BY <3>6, <4>3 DEF InRows
        <5>2. i \in Planned(t, d)
          BY <5>1 DEF Planned
        <5>3. PICK j \in Newest(t, d) : windows[d] = gold[j].window
          BY <3>1, <5>2
        <5>4. gold[i].window <= gold[j].window
          BY <5>2, <5>3 DEF Newest
        <5>5. gold[j].window \in Nat /\ Seen(k, d) \in Nat
          BY <3>4, PageTypes
        <5>6. req[t].plan \in Nat /\ req[t].plan <= Len(gold) /\ Len(gold) \in Nat
          BY PageTypes
        <5>7. i \in 1..Len(gold)
          BY <5>6
        <5>8. gold[i].window \in Nat
          BY <5>7, PageTypes
        <5>. QED BY <5>1, <5>3, <5>4, <5>5, <5>8
      <4>. QED BY <4>2, <4>3
    <3>7. \A k \in Kinds : fetch[k].pc = "forwarded" /\ fetch[k].by = t => windows[d] >= Seen(k, d)
      BY <1>0, <3>3, <3>6 DEF PageInvOf
    <3>8. req'[t] = r /\ \A u \in Threads \ {t} : req'[u] = req[u]
      BY <2>8, <3>2
    <3>. QED BY <1>6, <2>0, <3>2, <3>5, <3>7, <3>8
  <2>. QED BY <1>7, <2>1, <2>3, <2>4, <2>5, <2>6, <2>7
<1>8. ASSUME NEW t \in Threads, Respond(t) PROVE PageInvOf(d)'
  <2>. DEFINE k == req[t].kind
              f == [pc |-> IF req[t].pc = "answer" THEN "ok" ELSE "failed", by |-> None, ans |-> req[t].ans]
  <2>1. req' = [req EXCEPT ![t] = Idle] /\ UNCHANGED <<gold, stored>>
    BY <1>8 DEF Respond
  <2>2. IF Settles(t, k) THEN fetch' = [fetch EXCEPT ![k] = f] ELSE fetch' = fetch
    BY <1>8 DEF Respond
  <2>3. /\ req'[t].pc = "idle" /\ req'[t].ans.windows[d] = 0
        /\ \A u \in Threads \ {t} : req'[u] = req[u]
    BY <2>1, PageTypes DEF Idle, Nothing
  <2>4. f.pc \in {"ok", "failed"} /\ (f.pc = "ok" <=> req[t].pc = "answer") /\ f.ans = req[t].ans
    OBVIOUS
  <2>. HIDE DEF f
  <2>5. \A j \in Kinds \ {k} : fetch'[j] = fetch[j]
    BY <2>2, PageTypes
  <2>6. fetch'[k] = fetch[k] \/ (fetch'[k] = f /\ Settles(t, k))
    <3>1. CASE Settles(t, k)
      BY <2>2, <3>1, PageTypes
    <3>2. CASE ~Settles(t, k)
      BY <2>2, <3>2
    <3>. QED BY <3>1, <3>2
  <2>7. \A j \in Kinds : fetch'[j].pc = "forwarded" => fetch'[j] = fetch[j] /\ fetch[j].by \in Threads \ {t}
    <3>. SUFFICES ASSUME NEW j \in Kinds, fetch'[j].pc = "forwarded"
                  PROVE  fetch'[j] = fetch[j] /\ fetch[j].by \in Threads \ {t}
      OBVIOUS
    <3>1. fetch'[j] = fetch[j]
      BY <2>4, <2>5, <2>6
    <3>2. fetch[j].by \in Threads /\ req[fetch[j].by].kind = j
      BY <3>1 DEF TypeOK
    <3>3. fetch[j].by # t
      <4>. SUFFICES ASSUME fetch[j].by = t PROVE FALSE
        OBVIOUS
      <4>1. k = j /\ Settles(t, k)
        BY <3>1, <3>2 DEF Settles
      <4>2. fetch'[k] = f
        BY <2>2, <4>1, PageTypes
      <4>. QED BY <2>4, <4>1, <4>2
    <3>. QED BY <3>1, <3>2, <3>3
  <2>8. \A j \in Kinds : fetch'[j].pc = "ok" =>
          fetch'[j].ans.windows[d] >= Seen(j, d) /\ InRows(gold, d, fetch'[j].ans.windows[d], Len(gold))
    BY <1>0, <2>4, <2>5, <2>6 DEF PageInvOf, Settles
  <2>. QED BY <1>0, <1>9, <2>1, <2>3, <2>7, <2>8 DEF PageInvOf
<1>. QED BY <1>1, <1>2, <1>3, <1>4, <1>5, <1>7, <1>8 DEF Next, Tick, Show, Select, vars

(* A page does not go back to an older window, whatever is written again   *)
(* and however late an answer comes.                                       *)
THEOREM PageForward == Spec => []PageNeverGoesBack
<1>1. PageInv => PageNeverGoesBack
  BY DEF PageInv, PageInvOf, PageNeverGoesBack
<1>. QED BY <1>1, PageInit, PageStep, ServingTypeCorrect, PTL DEF Spec

(* However old the answer of the API is, what the page shows is open in the *)
(* hour it rendered and in the one after (page.tsx openNow).                *)
THEOREM ShownOpen == Spec => []ShownStaysOpen
<1>1. TypeOK => ShownStaysOpen
  <2>. SUFFICES ASSUME TypeOK, NEW p \in Shown, hour \in {screen.at, (screen.at + 1) % 24}
                PROVE  is_open_now(p.open_hour, p.close_hour, hour)
    BY DEF ShownStaysOpen
  <2>1. screen.at \in 0..23
    BY ConstantsAssumption DEF TypeOK, Screens
  <2>2. p.open_hour \in 0..24 \union {None} /\ p.close_hour \in 0..24 \union {None}
    BY ConstantsAssumption DEF Shown
  <2>3. isOpenAtHour(p.open_hour, p.close_hour, screen.at, 60)
    BY DEF Shown
  <2>4. /\ is_open_now(p.open_hour, p.close_hour, screen.at)
        /\ is_open_now(p.open_hour, p.close_hour, (screen.at + 1) % 24)
    BY <2>1, <2>2, <2>3, OpenInAnHour
  <2>. QED BY <2>4
<1>. QED BY <1>1, ServingTypeCorrect, PTL
=============================================================================
