--------------------------- MODULE AppendOnlyTable ---------------------------
(***************************************************************************)
(* What a table of this repository is to those who read it: a set of rows  *)
(* that only grows.  A request gets the table as it was when the request   *)
(* began, every row once, or fails.  A stream begins somewhere, takes up   *)
(* whatever has been appended since, and hands each of these rows on once, *)
(* until it is stuck or is started again.  That rows are moved from file   *)
(* to file and old snapshots thrown away is not to be seen.                *)
(***************************************************************************)
EXTENDS Bags

VARIABLES
  rows,      \* the rows appended so far
  request,   \* a request: [pc, rows], the rows as a bag
  stream     \* the streaming reader: [pc, since, due, handed]

vars == <<rows, request, stream>>

Idle == [pc |-> "idle", rows |-> EmptyBag]
New == [pc |-> "new", since |-> {}, due |-> {}, handed |-> EmptyBag]

Init == rows = {} /\ request = Idle /\ stream = New

AppendSome == rows \subseteq rows' /\ UNCHANGED <<request, stream>>

(* A request of an empty table is answered at once.                        *)
Ask ==
  /\ request.pc = "idle"
  /\ request' = [pc |-> IF rows = {} THEN "answered" ELSE "read",
                 rows |-> SetToBag(rows)]
  /\ UNCHANGED <<rows, stream>>

Answer ==
  /\ request.pc = "read"
  /\ request' = [request EXCEPT !.pc = "answered"]
  /\ UNCHANGED <<rows, stream>>

Fail ==
  /\ request.pc = "read"
  /\ request' = [pc |-> "failed", rows |-> EmptyBag]
  /\ UNCHANGED <<rows, stream>>

Forget ==
  /\ request.pc \in {"answered", "failed"}
  /\ request' = Idle
  /\ UNCHANGED <<rows, stream>>

Begin ==
  /\ stream.pc = "new"
  /\ \E since \in SUBSET rows :
       stream' = [pc |-> "run", since |-> since, due |-> rows \ since, handed |-> EmptyBag]
  /\ UNCHANGED <<rows, request>>

TakeUp ==
  /\ stream.pc = "run"
  /\ stream' = [stream EXCEPT !.due = rows \ (stream.since \union BagToSet(stream.handed))]
  /\ UNCHANGED <<rows, request>>

HandOn ==
  /\ stream.pc = "run"
  /\ \E some \in SUBSET stream.due :
       stream' = [stream EXCEPT !.due = @ \ some, !.handed = @ (+) SetToBag(some)]
  /\ UNCHANGED <<rows, request>>

Stick ==
  /\ stream.pc = "run"
  /\ stream' = [stream EXCEPT !.pc = "stuck"]
  /\ UNCHANGED <<rows, request>>

Restart ==
  /\ stream.pc # "new"
  /\ stream' = New
  /\ UNCHANGED <<rows, request>>

Next ==
  \/ AppendSome
  \/ Ask \/ Answer \/ Fail \/ Forget
  \/ Begin \/ TakeUp \/ HandOn \/ Stick \/ Restart

Spec == Init /\ [][Next]_vars
=============================================================================
