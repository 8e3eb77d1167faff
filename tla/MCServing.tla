------------------------------ MODULE MCServing ------------------------------
(* An instance of Serving: two threads for the page's two requests, one     *)
(* district with two windows, and places with every kind of opening hours.  *)
(*                                                                          *)
(* A behaviour is at noon, where no time passes and the threads run against *)
(* each other, or in the evening, with one thread at a time and one row.    *)
EXTENDS Serving, FiniteSets, TLC

Place(open, close) == [open_hour |-> open, close_hour |-> close]

MCDistricts == {"d"}
MCPlaces == {Place(9, 23), Place(9, 24), Place(18, 4), Place(0, 24), Place(None, 22)}
Interchangeable == Permutations(Threads)

Noon == 12
Evening == {21, 22, 23, 0}
NoonOrEvening == {Noon} \union Evening

MCNext ==
  /\ Next
  /\ hour \in Evening => /\ Len(gold') <= 1
                         /\ Cardinality({t \in Threads : req'[t] # Idle}) <= 1

MCSpec == Init /\ [][MCNext]_vars
=============================================================================
