----------------------------- MODULE SloMetrics -----------------------------
(***************************************************************************)
(* The pure half of src/src/flink_jobs/slo_metrics.py: a list of lags in   *)
(* seconds to percentiles and a verdict.  Percentages are integers, and    *)
(* Python's floats the rationals they stand for.                           *)
(***************************************************************************)
EXTENDS Integers, Sequences, FiniteSets

SLO_DATA_FRESHNESS_SECONDS == 45 * 60
SLO_PLATFORM_LATENCY_SECONDS == 7 * 60

(* round(v / d): to the nearest, and to the even one of two.               *)
Round(v, d) ==
  LET low == v \div d
      rest == 2 * (v % d)
  IN  IF rest < d \/ (rest = d /\ low % 2 = 0) THEN low ELSE low + 1

(* s is sorted; the rank is p% of Len(s) - 1, counted from 0.              *)
Percentile(s, p) ==
  IF s = <<>> THEN 0
  ELSE LET rank == p * (Len(s) - 1)
           lo == rank \div 100
           frac == rank % 100
       IN  IF frac = 0 THEN s[lo + 1]
           ELSE Round(100 * s[lo + 1] + (s[lo + 2] - s[lo + 1]) * frac, 100)

Violated(p95, threshold) == p95 > threshold

(* How many samples are v or less.                                         *)
UpTo(s, v) == Cardinality({j \in 1..Len(s) : s[j] <= v})

(* Mutant of Sorted: the samples as they come.                             *)
Unsorted(s) == s

(* sorted(s): at i the sample with fewer than i below it, and i up to it.  *)
Sorted(s) ==
  [i \in 1..Len(s) |-> CHOOSE v \in {s[j] : j \in 1..Len(s)} :
                        UpTo(s, v - 1) < i /\ i <= UpTo(s, v)]

summarize_one(samples, threshold) ==
  LET s == Sorted(samples)
      p95 == Percentile(s, 95)
  IN  IF samples = <<>>
      THEN [count |-> 0, p50 |-> 0, p95 |-> 0, p99 |-> 0, max |-> 0, slo_violated |-> FALSE]
      ELSE [count |-> Len(s), p50 |-> Percentile(s, 50), p95 |-> p95,
            p99 |-> Percentile(s, 99), max |-> s[Len(s)],
            slo_violated |-> Violated(p95, threshold)]

summarize_dual(freshness, latency) ==
  [data_freshness   |-> summarize_one(freshness, SLO_DATA_FRESHNESS_SECONDS),
   platform_latency |-> summarize_one(latency, SLO_PLATFORM_LATENCY_SECONDS)]

(* Mutant of any_violated.                                                 *)
AllViolated(report) ==
  report.data_freshness.slo_violated /\ report.platform_latency.slo_violated

any_violated(report) ==
  report.data_freshness.slo_violated \/ report.platform_latency.slo_violated
=============================================================================
