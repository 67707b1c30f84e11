------------------------------- MODULE Metrics -------------------------------
(***************************************************************************)
(* The registry of src/src/server/metrics.rs as the HTTP handlers use it:  *)
(* the counter requests_total and the histogram request_duration_seconds,  *)
(* each behind a lock of its own, with a series per label.  Each operator  *)
(* is one critical section.                                                *)
(***************************************************************************)
EXTENDS Integers

CONSTANTS
  Labels,       (* method and path of the handlers with a MetricsGuard     *)
  Bounds        (* upper bounds of the histogram's buckets                 *)

ASSUME BoundsAssumption == Bounds \subseteq Nat

VARIABLES
  total,        (* requests_total                                          *)
  hist          (* request_duration_seconds                                *)

EmptySeries == [counts |-> [b \in Bounds |-> 0], sum |-> 0, count |-> 0]

MetricsInit ==
  /\ total = [l \in Labels |-> 0]
  /\ hist = [l \in Labels |-> EmptySeries]

CounterInc(l) == total' = [total EXCEPT ![l] = @ + 1]

(* Every bucket that a value fits, so that the buckets are cumulative.     *)
BucketsOf(v) == {b \in Bounds : v <= b}

HistogramRecord(l, v) ==
  hist' = [hist EXCEPT ![l] =
             [counts |-> [b \in Bounds |->
                            @.counts[b] + (IF b \in BucketsOf(v) THEN 1 ELSE 0)],
              sum |-> @.sum + v,
              count |-> @.count + 1]]
=============================================================================
