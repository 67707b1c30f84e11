---------------------------- MODULE HttpGateProps ----------------------------
(***************************************************************************)
(* What must hold of the way through the router (src/src/server/mod.rs),   *)
(* of its rate limiter and of what /metrics says about it.                 *)
(***************************************************************************)
EXTENDS HttpGate

Times == 0 .. MaxTime

TypeOK ==
  /\ pc \in [Requests -> Phases]
  /\ path \in [Requests -> Paths]
  /\ key \in [Requests -> Credentials \union {NoKey}]
  /\ from \in [Requests -> Addresses]
  /\ now \in [Requests -> Times]
  /\ start \in [Requests -> Times]
  /\ seen \in [Requests -> [Labels -> Nat]]
  /\ clock \in Times
  /\ bucket \in [Addresses -> [tokens : 0 .. Capacity, last : -1 .. clock]]
  /\ total \in [Labels -> Nat]
  /\ entered \in [Labels -> Nat]
  /\ meter \in [Addresses -> Nat]
  /\ lag \in Times

(***************************************************************************)
(* The limit, against the textbook meter of it: the requests let through   *)
(* since any moment exceed what time refilled by the capacity at most, and *)
(* by the age of the oldest sample of the clock.  Whatever the order in    *)
(* which samples reach the bucket, no time is refilled twice and none is   *)
(* saved up past the capacity (rate_limit.rs:33-48, 82-90).  And "Auth     *)
(* middleware runs before rate limiting" (mod.rs:229): a request with a    *)
(* wrong key spends none of the tokens, which all clients without a        *)
(* forwarded address share, and gets no further.                           *)
(***************************************************************************)
OnlyAllowedPass ==
  \A r \in Requests : pc[r] \notin {"idle", "auth"} => Allowed(path[r], key[r])

RateBound ==
  /\ TypeOK
  /\ OnlyAllowedPass
  /\ \A a \in Addresses : meter[a] <= Capacity + lag

(***************************************************************************)
(* And no bucket refuses before its limit is reached: at every 429 its     *)
(* meter has no room for one more request, down to the last fraction of a  *)
(* token (rate_limit.rs:41-47).  The meter is a bucket's: clients that no  *)
(* proxy forwards an address for are one to it, 0.0.0.0.                   *)
(***************************************************************************)
Refused(r) == pc[r] = "locking" /\ pc'[r] = "idle"

RefusedOnlyWhenSpent ==
  [][\A r \in Requests :
       Refused(r) => meter[ClientIp(r)] + Cost > Capacity - lag']_vars

(***************************************************************************)
(* Requests are counted exactly once, whichever way they end: a handler    *)
(* that was entered is in the counter, in the histogram, or still between  *)
(* them, and the histogram's buckets are cumulative.  So a page, though    *)
(* rendered under two locks in turn, shows no request in the counter that  *)
(* the histogram lacks, except one that is being recorded (http.rs:139,    *)
(* metrics.rs:92-127, 129-185).                                            *)
(***************************************************************************)
Cumulative(s) ==
  \A b, c \in Bounds : b <= c => s.counts[b] <= s.counts[c] /\ s.counts[c] <= s.count
Recording(l) == Measured(l) \ Uncounted(l)

MetricsExact ==
  \A l \in Labels :
    /\ total[l] + Cardinality(Uncounted(l)) = entered[l]
    /\ hist[l].count + Cardinality(Measured(l)) = entered[l]
    /\ Cumulative(hist[l])
    /\ \A r \in Requests : seen[r][l] <= hist[l].count + Cardinality(Recording(l))
=============================================================================
