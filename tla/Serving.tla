------------------------------- MODULE Serving -------------------------------
(***************************************************************************)
(* From gold.fact_hotspot_congestion_5min to the page: the API (src/src/api*)
(* deps.py and routes) whose endpoints run on a pool of threads and share  *)
(* one DuckDB connection, the Edge handlers app/api/v1/hotspots and        *)
(* chill-open-now, and a page that asks both at once when it is loaded.    *)
(*                                                                         *)
(* A file of the table is one row of one district; a plan is the number of *)
(* rows there are, since the table only grows here (what maintenance does  *)
(* to a plan is IcebergTable, and part of Raises).  Of the places in an    *)
(* answer only the hour is kept at which they were found open: any of them *)
(* may be missing, by its district's score.  The handlers let the browser  *)
(* keep an answer for 60 seconds, which is any while here.                 *)
(*                                                                         *)
(* The page reads the clock when it renders: when its answers are there    *)
(* and when another district is selected.  Time alone renders nothing.     *)
(***************************************************************************)
EXTENDS Integers, Sequences, OpenHours

CONSTANTS
  Threads,    \* of the API's pool
  Districts,
  Places,     \* active places: [open_hour, close_hour]
  Hours,      \* bound: the hours of the day that a behaviour sees
  MaxWindow,  \* bound: windows of silver_to_gold
  MaxRows     \* bound: rows of the table

ASSUME ConstantsAssumption ==
  /\ None \notin Threads /\ None \notin Int /\ Hours \subseteq 0..23
  /\ MaxWindow \in Nat /\ MaxRows \in Nat
  /\ Places \subseteq [open_hour : 0..24 \union {None}, close_hour : 0..24 \union {None}]

Kinds == {"hotspots", "chill"}

VARIABLES
  gold,        \* rows in the order of their commits: [district, window]
  cached,      \* the connection in the lru_cache: the thread that opened it
  configured,  \* threads whose last connection has got its secret
  req,         \* what a thread is at
  fetch,       \* the page's two fetches
  stored,      \* per kind the last answer earlier loads got, or None
  screen,      \* what is rendered: [loaded, selected, found, at], the places found
               \* open at the hour found, or None, as of the hour at
  hour

api == <<cached, configured, req>>
page == <<fetch, stored, screen>>
vars == <<gold, cached, configured, req, fetch, stored, screen, hour>>

-----------------------------------------------------------------------------
Nothing == [windows |-> [d \in Districts |-> 0], hour |-> None]
Idle == [pc |-> "idle", kind |-> "hotspots", plan |-> 0, con |-> None, ans |-> Nothing]
Asked == [pc |-> "asked", by |-> None, ans |-> Nothing]
Opened(now) == [loaded |-> FALSE, selected |-> FALSE, found |-> None, at |-> now]

Init ==
  /\ gold = <<>>
  /\ cached = None /\ configured = {}
  /\ req = [t \in Threads |-> Idle]
  /\ fetch = [k \in Kinds |-> Asked]
  /\ stored = [k \in Kinds |-> None]
  /\ hour \in Hours
  /\ screen = Opened(hour)

(* silver_to_gold: the next window of a district, or, in a run that reads  *)
(* old rows again, one that is behind others.                              *)
WriteGold ==
  /\ Len(gold) < MaxRows
  /\ \E d \in Districts : \E w \in 1..MaxWindow :
       gold' = Append(gold, [district |-> d, window |-> w])
  /\ UNCHANGED <<api, page, hour>>

Tick ==
  /\ (hour + 1) % 24 \in Hours
  /\ hour' = (hour + 1) % 24
  /\ UNCHANGED <<gold, api, page>>

-----------------------------------------------------------------------------
(* The page and the Edge handlers.                                         *)
(* load() of page.tsx, when the page is opened or opened again, perhaps    *)
(* before its fetches have ended.  What is stored may still be fresh.      *)
Load ==
  /\ stored' = [k \in Kinds |-> IF fetch[k].pc = "ok" THEN fetch[k].ans ELSE stored[k]]
  /\ \E fresh \in SUBSET {k \in Kinds : stored'[k] # None} :
       fetch' = [k \in Kinds |-> IF k \in fresh
                                THEN [pc |-> "ok", by |-> None, ans |-> stored'[k]]
                                ELSE Asked]
  /\ screen' = Opened(hour)
  /\ UNCHANGED <<gold, api, hour>>

(* Both fetches have come to something; a failed one has no places.        *)
Show ==
  /\ ~screen.loaded
  /\ \A k \in Kinds : fetch[k].pc \in {"ok", "failed"}
  /\ screen' = [screen EXCEPT !.loaded = TRUE, !.at = hour,
                 !.found = IF fetch["chill"].pc = "ok" THEN fetch["chill"].ans.hour ELSE None]
  /\ UNCHANGED <<gold, api, fetch, stored, hour>>

(* A click on a district that is not the selected one: its places are      *)
(* shown, and the page renders.  (So it does when the shapes of the        *)
(* districts arrive, before which there is nothing to click on.)           *)
Select ==
  /\ screen' = [screen EXCEPT !.selected = TRUE, !.at = hour]
  /\ UNCHANGED <<gold, api, fetch, stored, hour>>

(* UPSTREAM_TIMEOUT_MS, or a fetch that fails.                             *)
Timeout(k) ==
  /\ fetch[k].pc \in {"asked", "forwarded"}
  /\ fetch' = [fetch EXCEPT ![k] = [@ EXCEPT !.pc = "failed", !.by = None]]
  /\ UNCHANGED <<gold, api, stored, screen, hour>>

(* A thread of the pool takes the request up.                              *)
Take(t, k) ==
  /\ req[t].pc = "idle" /\ fetch[k].pc = "asked"
  /\ req' = [req EXCEPT ![t] = [Idle EXCEPT !.pc = "plan", !.kind = k]]
  /\ fetch' = [fetch EXCEPT ![k] = [@ EXCEPT !.pc = "forwarded", !.by = t]]
  /\ UNCHANGED <<gold, cached, configured, stored, screen, hour>>

-----------------------------------------------------------------------------
(* The API.  gold_table_paths, and the early return when there is nothing. *)
Plan(t) ==
  /\ req[t].pc = "plan"
  /\ req' = [req EXCEPT ![t] = [@ EXCEPT !.plan = Len(gold),
                                         !.pc = IF gold = <<>> THEN "answer" ELSE "cursor"]]
  /\ UNCHANGED <<gold, cached, configured, page, hour>>

(* duck_cursor: the lru_cache holds no lock while duck_connection runs.    *)
Cursor(t) ==
  /\ req[t].pc = "cursor"
  /\ req' = [req EXCEPT ![t] = [@ EXCEPT !.con = cached,
                                         !.pc = IF cached = None THEN "connect" ELSE "query"]]
  /\ UNCHANGED <<gold, cached, configured, page, hour>>

(* Mutant of Connect: the connection is put where others find it at once.  *)
ConnectAndCache(t) ==
  /\ req[t].pc = "connect"
  /\ req' = [req EXCEPT ![t] = [@ EXCEPT !.con = t, !.pc = "configure"]]
  /\ configured' = configured \ {t}
  /\ cached' = IF cached = None THEN t ELSE cached
  /\ UNCHANGED <<gold, page, hour>>

Connect(t) ==
  /\ req[t].pc = "connect"
  /\ req' = [req EXCEPT ![t] = [@ EXCEPT !.con = t, !.pc = "configure"]]
  /\ configured' = configured \ {t}
  /\ UNCHANGED <<gold, cached, page, hour>>

(* The thread goes on with its own connection, the cache keeps the first.  *)
Configure(t) ==
  /\ req[t].pc = "configure"
  /\ configured' = configured \union {t}
  /\ cached' = IF cached = None THEN t ELSE cached
  /\ req' = [req EXCEPT ![t].pc = "query"]
  /\ UNCHANGED <<gold, page, hour>>

(* An exception of the catalog, of configure_duckdb or of the query.       *)
Raises(t) ==
  /\ req[t].pc \in {"plan", "connect", "configure", "query"}
  /\ req' = [req EXCEPT ![t] = [Idle EXCEPT !.pc = "error", !.kind = req[t].kind]]
  /\ UNCHANGED <<gold, cached, configured, page, hour>>

Planned(t, d) == {i \in 1..req[t].plan : gold[i].district = d}

(* Mutant of Newest: the way list_areas ranks its rows.                    *)
LastArrived(t, d) ==
  {i \in Planned(t, d) : \A j \in Planned(t, d) : j <= i}

(* row_number() OVER (PARTITION BY district ORDER BY window_start DESC)    *)
(* = 1: one of the rows of the newest window.                              *)
Newest(t, d) ==
  {i \in Planned(t, d) : \A j \in Planned(t, d) : gold[j].window <= gold[i].window}

(* list_hotspots and chill_open.                                           *)
Query(t) ==
  /\ req[t].pc = "query"
  /\ \E windows \in [Districts -> 0..MaxWindow] :
       /\ \A d \in Districts :
            \/ Planned(t, d) = {} /\ windows[d] = 0
            \/ \E i \in Newest(t, d) : windows[d] = gold[i].window
       /\ req' = [req EXCEPT ![t] = [Idle EXCEPT
            !.pc = "answer", !.kind = req[t].kind,
            !.ans = [windows |-> windows,
                     hour |-> IF req[t].kind = "chill" THEN hour ELSE None]]]
  /\ UNCHANGED <<gold, cached, configured, page, hour>>

(* The fetch of kind k still waits for thread t.                           *)
Settles(t, k) == fetch[k].pc = "forwarded" /\ fetch[k].by = t

(* The answer reaches the page, unless its fetch was aborted meanwhile.    *)
Respond(t) ==
  /\ req[t].pc \in {"answer", "error"}
  /\ LET k == req[t].kind
         ok == req[t].pc = "answer"
     IN  IF Settles(t, k)
         THEN fetch' = [fetch EXCEPT ![k] =
                [pc |-> IF ok THEN "ok" ELSE "failed", by |-> None, ans |-> req[t].ans]]
         ELSE UNCHANGED fetch
  /\ req' = [req EXCEPT ![t] = Idle]
  /\ UNCHANGED <<gold, cached, configured, stored, screen, hour>>

-----------------------------------------------------------------------------
Next ==
  \/ WriteGold \/ Tick \/ Load \/ Show \/ Select
  \/ \E k \in Kinds : Timeout(k)
  \/ \E t \in Threads, k \in Kinds : Take(t, k)
  \/ \E t \in Threads : Plan(t) \/ Cursor(t) \/ Connect(t) \/ Configure(t)
                        \/ Raises(t) \/ Query(t) \/ Respond(t)

Spec == Init /\ [][Next]_vars

-----------------------------------------------------------------------------
Windows == [Districts -> 0..MaxWindow]
Answers == [windows : Windows, hour : Hours \union {None}]
Requests == [pc : {"idle", "plan", "cursor", "connect", "configure", "query", "answer", "error"},
             kind : Kinds, plan : 0..MaxRows, con : Threads \union {None}, ans : Answers]
Fetches == [pc : {"asked", "forwarded", "ok", "failed"}, by : Threads \union {None},
            ans : Answers]
Screens == [loaded : BOOLEAN, selected : BOOLEAN, found : Hours \union {None}, at : Hours]

(* The state has the shape the declarations give it; a plan is of rows     *)
(* there are; a fetch waits for a thread that is at its request.           *)
TypeOK ==
  /\ gold \in Seq([district : Districts, window : 1..MaxWindow]) /\ Len(gold) <= MaxRows
  /\ cached \in Threads \union {None}
  /\ configured \subseteq Threads
  /\ req \in [Threads -> Requests]
  /\ \A t \in Threads : req[t].plan <= Len(gold)
  /\ fetch \in [Kinds -> Fetches]
  /\ \A k \in Kinds : fetch[k].pc = "forwarded" =>
       fetch[k].by \in Threads /\ req[fetch[k].by].pc # "idle" /\ req[fetch[k].by].kind = k
  /\ stored \in [Kinds -> Answers \union {None}]
  /\ screen \in Screens /\ hour \in Hours

(* The first requests of a process come together and none of them holds a  *)
(* lock; still no query runs on a connection that has not got its secret,  *)
(* and none that failed to get it stays in the cache.                      *)
QueriesConfigured ==
  /\ \A t \in Threads : req[t].pc = "query" => req[t].con \in configured
  /\ cached # None => cached \in configured

Seen(k, d) == IF stored[k] = None THEN 0 ELSE stored[k].windows[d]

(* While silver_to_gold writes old windows a second time, answers of an    *)
(* earlier load come late and others out of the cache, neither the map nor *)
(* the places of a page go back to an older window.                        *)
PageNeverGoesBack ==
  \A k \in Kinds : fetch[k].pc = "ok" =>
    \A d \in Districts : fetch[k].ans.windows[d] >= Seen(k, d)

(* What the page shows: what the API found open, as far as it was open     *)
(* with the buffer when the page rendered.                                 *)
Shown ==
  {p \in Places : /\ screen.selected /\ screen.found # None
                  /\ is_open_now(p.open_hour, p.close_hour, screen.found)
                  /\ isOpenAtHour(p.open_hour, p.close_hour, screen.at, 60)}

(* Whatever the hour was when the API answered, however old the answer and *)
(* whenever it came: what the page shows is still open in the hour that    *)
(* follows the one in which it rendered ("마감 1h+").  A page that is left    *)
(* alone for longer may show what has closed.                              *)
ShownStaysOpen ==
  hour \in {screen.at, (screen.at + 1) % 24} =>
    \A p \in Shown : is_open_now(p.open_hour, p.close_hour, hour)
=============================================================================
