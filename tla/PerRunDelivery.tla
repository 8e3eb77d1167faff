--------------------------- MODULE PerRunDelivery ---------------------------
(***************************************************************************)
(* What one streaming insert of this repository promises to the table it   *)
(* writes, whatever the connector does inside: rows are only ever taken    *)
(* from what the source offers, every commit adds rows that this run of    *)
(* the job has not committed before, and nothing is promised from one run  *)
(* of the process to the next (a new run may commit everything again).     *)
(***************************************************************************)
EXTENDS Naturals, Sequences

VARIABLES
  offered,   \* the set of rows the source has shown so far
  run,       \* the number of the current run of the process
  out        \* the committed snapshots: [run, rows], oldest first

vars == <<offered, run, out>>

(* The rows that run r has committed. *)
CommittedBy(r) ==
  {x \in offered : \E n \in 1..Len(out) : out[n].run = r /\ x \in out[n].rows}

Init ==
  /\ offered = {}
  /\ run = 1
  /\ out = <<>>

Offer ==
  /\ offered \subseteq offered'
  /\ UNCHANGED <<run, out>>

Deliver ==
  /\ \E rows \in SUBSET offered :
       /\ rows # {}
       /\ rows \cap CommittedBy(run) = {}
       /\ out' = Append(out, [run |-> run, rows |-> rows])
  /\ UNCHANGED <<offered, run>>

NewRun ==
  /\ run' = run + 1
  /\ UNCHANGED <<offered, out>>

Next == Offer \/ Deliver \/ NewRun

Spec == Init /\ [][Next]_vars
=============================================================================
