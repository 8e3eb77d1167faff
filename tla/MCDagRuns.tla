------------------------------ MODULE MCDagRuns ------------------------------
(* An instance of DagRuns: lags around the thresholds, few and many of them, *)
(* hours that begin and end on the hour or not, and two backfills that have  *)
(* nothing to do: their texts are ordered and their times are not (a blank   *)
(* in one and a T in the other before the hour), or there is no table.       *)
EXTENDS DagRuns

(* n samples, k of them above the threshold by more, the slow ones first.    *)
Lags(threshold, n, k, more) == [i \in 1..n |-> IF i <= k THEN threshold + more ELSE threshold]

Freshness ==
  {Lags(SLO_DATA_FRESHNESS_SECONDS, n, k, more) :
     n \in {20, 21, 22}, k \in 0..3, more \in {1, 10}}
  \union {Lags(SLO_DATA_FRESHNESS_SECONDS, n, k, 1) : n \in 0..2, k \in 0..1}

Latency == {<<>>, <<420>>, <<420, 421>>, <<430, 420>>}

Asks(s, e, ordered, tables) == [start |-> s, end |-> e, ordered |-> ordered, tables |-> tables]

Hours ==
  {Asks(s, e, s < e, 1) : s \in {0, 30}, e \in {30, 120, 135}}
  \union {Asks(120, 0, TRUE, 1), Asks(0, 120, TRUE, 0)}
=============================================================================
