----------------------------- MODULE RateLimiter -----------------------------
(***************************************************************************)
(* The token buckets of src/src/server/rate_limit.rs.  Time is counted in  *)
(* ticks and tokens in the share of one that a tick refills: a bucket      *)
(* gains one unit per tick, a request costs Cost of them.  Samples of the  *)
(* clock are taken before a bucket is locked (HttpGate), so they reach it  *)
(* in any order.  evict_stale is called by tests only and left out.        *)
(***************************************************************************)
EXTENDS Integers

CONSTANTS
  Addresses,    (* the keys of the map of buckets                          *)
  Burst,        (* rate_limit_burst                                        *)
  Cost          (* ticks that refill one token: 60 s over the rate         *)

ASSUME BurstAssumption == Burst \in Nat
ASSUME CostAssumption == Cost \in Nat \ {0}

VARIABLES
  clock,        (* Instant::now()                                          *)
  bucket        (* the bucket of each address, Absent before its first use *)

Capacity == Cost * (IF Burst < 1 THEN 1 ELSE Burst)
Absent == [tokens |-> 0, last |-> -1]
Full(now) == [tokens |-> Capacity, last |-> now]

LimiterInit ==
  /\ clock = 0
  /\ bucket = [a \in Addresses |-> Absent]

Capped(units) == IF units > Capacity THEN Capacity ELSE units

(* Mutant: the cap is forgotten.                                           *)
RefilledUncapped(b, now) ==
  IF now > b.last THEN [tokens |-> b.tokens + now - b.last, last |-> now] ELSE b
(* Mutant: only whole tokens are refilled, the rest of the time is lost.   *)
RefilledWhole(b, now) ==
  IF now > b.last
  THEN [tokens |-> Capped(b.tokens + ((now - b.last) \div Cost) * Cost),
        last |-> now]
  ELSE b
(* A sample from before the last refill adds nothing and does not turn     *)
(* the bucket's clock back.                                                *)
Refilled(b, now) ==
  IF now > b.last THEN [tokens |-> Capped(b.tokens + now - b.last), last |-> now]
  ELSE b

(* check, once the lock is held: the bucket it works on, the verdict, and  *)
(* the bucket it leaves.                                                   *)
Found(a, now) ==
  Refilled(IF bucket[a] = Absent THEN Full(now) ELSE bucket[a], now)
Passes(a, now) == Found(a, now).tokens >= Cost
Consume(a, now) ==
  bucket' = [bucket EXCEPT ![a] =
               IF Passes(a, now) THEN [Found(a, now) EXCEPT !.tokens = @ - Cost]
               ELSE Found(a, now)]
=============================================================================
