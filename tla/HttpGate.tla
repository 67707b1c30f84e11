------------------------------ MODULE HttpGate ------------------------------
(***************************************************************************)
(* The way of an HTTP request through the router of src/src/server/mod.rs: *)
(* authentication, the rate limiter, the handler with its MetricsGuard,    *)
(* and the page that GET /metrics renders.  What the handlers do is in     *)
(* Requests, ModelReload and the WebSocket modules.                        *)
(*                                                                         *)
(* With rate_limit_per_minute = 0 the limiter's layer is absent; here it   *)
(* is present.  The servers are started without connect info, so the       *)
(* limiter knows a client by a forwarded header or not at all.             *)
(***************************************************************************)
EXTENDS RateLimiter, Metrics, FiniteSets

CONSTANTS
  Requests,     (* tasks that serve requests, one after another            *)
  Others,       (* paths whose handlers have no MetricsGuard               *)
  AdminPaths,   (* those of them, with /metrics, that need the admin key   *)
  Credentials,  (* what clients present: right and wrong keys              *)
  NoKey,
  ApiKey, AdminKey,     (* the configured keys, NoKey when not set         *)
  TrustProxy,
  Unspecified,  (* 0.0.0.0, for a client whose address is not known        *)
  MaxTime       (* bound: the clock stops here                             *)

Scrape == "/metrics"

ASSUME PathsAssumption ==
  Scrape \notin Labels \union Others /\ AdminPaths \subseteq Others \union {Scrape}
ASSUME KeysAssumption == {ApiKey, AdminKey} \subseteq Credentials \union {NoKey}
ASSUME UnspecifiedAssumption == Unspecified \in Addresses
ASSUME MaxTimeAssumption == MaxTime \in Nat
ASSUME RequestsAssumption == IsFiniteSet(Requests)

Paths == Labels \union Others \union {Scrape}

VARIABLES
  pc,           (* where each task is                                      *)
  path, key, from,      (* its request                                     *)
  now,          (* check's sample of the clock                             *)
  start,        (* its MetricsGuard's start                                *)
  seen,         (* the counters a scrape has rendered                      *)
  entered,      (* history: guards that were made, per label               *)
  meter,        (* history: a leaky bucket per address, which every        *)
                (* request let through fills and time empties              *)
  lag           (* history: how old a sample was when it was used, at most *)

request == <<path, key, from>>
limiter == <<clock, bucket>>
metrics == <<total, hist>>
history == <<entered, meter, lag>>
vars == <<pc, request, now, start, seen, limiter, metrics, history>>

Phases == {"idle", "auth", "limit", "locking", "routing", "handler", "counting",
           "recording", "rendering"}
(* A request that is being measured, and one whose count is still to come. *)
Measured(l) == {r \in Requests : path[r] = l /\ pc[r] \in {"handler", "counting", "recording"}}
Uncounted(l) == {r \in Measured(l) : pc[r] # "recording"}
NothingSeen == [l \in Labels |-> 0]

Init ==
  /\ LimiterInit
  /\ MetricsInit
  /\ pc = [r \in Requests |-> "idle"]
  /\ path = [r \in Requests |-> Scrape]
  /\ key = [r \in Requests |-> NoKey]
  /\ from = [r \in Requests |-> Unspecified]
  /\ now = [r \in Requests |-> 0]
  /\ start = [r \in Requests |-> 0]
  /\ seen = [r \in Requests |-> NothingSeen]
  /\ entered = [l \in Labels |-> 0]
  /\ meter = [a \in Addresses |-> 0]
  /\ lag = 0

Goto(r, p) == pc' = [pc EXCEPT ![r] = p]
(* An answer; what the task kept is forgotten, its next request is new.    *)
Answer(r) ==
  /\ Goto(r, "idle")
  /\ path' = [path EXCEPT ![r] = Scrape]
  /\ key' = [key EXCEPT ![r] = NoKey]
  /\ from' = [from EXCEPT ![r] = Unspecified]
  /\ now' = [now EXCEPT ![r] = 0]
  /\ start' = [start EXCEPT ![r] = 0]
  /\ seen' = [seen EXCEPT ![r] = NothingSeen]

Tick ==
  /\ clock < MaxTime
  /\ clock' = clock + 1
  /\ meter' = [a \in Addresses |-> IF meter[a] = 0 THEN 0 ELSE meter[a] - 1]
  /\ UNCHANGED <<pc, request, now, start, seen, bucket, metrics, entered, lag>>

-----------------------------------------------------------------------------
(* The layers: the one added last runs first.                              *)

Layers == <<"auth", "limit">>
After(layer) == IF layer = Layers[1] THEN Layers[2] ELSE "routing"

Arrive(r) ==
  /\ pc[r] = "idle"
  /\ Goto(r, Layers[1])
  /\ \E p \in Paths : path' = [path EXCEPT ![r] = p]
  /\ \E k \in Credentials : key' = [key EXCEPT ![r] = k]
  /\ \E a \in Addresses : from' = [from EXCEPT ![r] = a]
  /\ UNCHANGED <<now, start, seen, limiter, metrics, history>>

(* auth_middleware *)
ExpectedKey(p) == IF p \in AdminPaths /\ AdminKey # NoKey THEN AdminKey ELSE ApiKey
Allowed(p, k) == ExpectedKey(p) \in {NoKey, k}

Authenticate(r) ==
  /\ pc[r] = "auth"
  /\ IF Allowed(path[r], key[r])
     THEN Goto(r, After("auth")) /\ UNCHANGED <<request, now, start, seen>>
     ELSE Answer(r)
  /\ UNCHANGED <<limiter, metrics, history>>

(* extract_client_ip: a forwarded address, if such headers are trusted.    *)
ClientIp(r) == IF TrustProxy THEN from[r] ELSE Unspecified

(* check samples the clock, then waits for the lock of the bucket.         *)
SampleClock(r) ==
  /\ pc[r] = "limit"
  /\ now' = [now EXCEPT ![r] = clock]
  /\ Goto(r, "locking")
  /\ UNCHANGED <<request, start, seen, limiter, metrics, history>>

Check(r) ==
  /\ pc[r] = "locking"
  /\ Consume(ClientIp(r), now[r])
  /\ lag' = IF clock - now[r] > lag THEN clock - now[r] ELSE lag
  /\ IF Passes(ClientIp(r), now[r])
     THEN /\ Goto(r, After("limit"))
          /\ meter' = [meter EXCEPT ![ClientIp(r)] = @ + Cost]
          /\ now' = [now EXCEPT ![r] = 0]
          /\ from' = [from EXCEPT ![r] = Unspecified]
          /\ UNCHANGED <<path, key, start, seen>>
     ELSE Answer(r) /\ UNCHANGED meter
  /\ UNCHANGED <<clock, metrics, entered>>

-----------------------------------------------------------------------------
(* Handlers.  A preflight, an unknown path and a body that an extractor    *)
(* refuses are answered without one.                                       *)

AnsweredUnmeasured(r) ==
  /\ pc[r] = "routing"
  /\ path[r] # Scrape
  /\ Answer(r)
  /\ UNCHANGED <<limiter, metrics, history>>

EnterHandler(r) ==
  /\ pc[r] = "routing"
  /\ path[r] \in Labels
  /\ start' = [start EXCEPT ![r] = clock]
  /\ entered' = [entered EXCEPT ![path[r]] = @ + 1]
  /\ Goto(r, "handler")
  /\ UNCHANGED <<request, now, seen, limiter, metrics, meter, lag>>

(* Mutant: a handler whose client has gone is not counted.                 *)
LeaveHandlerDropped(r) ==
  /\ pc[r] = "handler"
  /\ \/ Goto(r, "counting") /\ UNCHANGED <<request, now, start, seen>>
     \/ Answer(r)
  /\ UNCHANGED <<limiter, metrics, history>>
(* The handler returns or panics, or its future is dropped: the guard's    *)
(* drop runs in any case.                                                  *)
LeaveHandler(r) ==
  /\ pc[r] = "handler"
  /\ Goto(r, "counting")
  /\ UNCHANGED <<request, now, start, seen, limiter, metrics, history>>

Count(r) ==
  /\ pc[r] = "counting"
  /\ CounterInc(path[r])
  /\ Goto(r, "recording")
  /\ UNCHANGED <<request, now, start, seen, limiter, hist, history>>

Record(r) ==
  /\ pc[r] = "recording"
  /\ HistogramRecord(path[r], clock - start[r])
  /\ Answer(r)
  /\ UNCHANGED <<limiter, total, history>>

(* render_prometheus writes the counters, drops their lock, and then       *)
(* writes the histograms: the page of r is made of seen[r] and hist.       *)
RenderCounters(r) ==
  /\ pc[r] = "routing"
  /\ path[r] = Scrape
  /\ seen' = [seen EXCEPT ![r] = total]
  /\ Goto(r, "rendering")
  /\ UNCHANGED <<request, now, start, limiter, metrics, history>>

RenderHistograms(r) ==
  /\ pc[r] = "rendering"
  /\ Answer(r)
  /\ UNCHANGED <<limiter, metrics, history>>

Next ==
  \/ Tick
  \/ \E r \in Requests :
       \/ Arrive(r) \/ Authenticate(r) \/ SampleClock(r) \/ Check(r)
       \/ AnsweredUnmeasured(r) \/ EnterHandler(r) \/ LeaveHandler(r)
       \/ Count(r) \/ Record(r) \/ RenderCounters(r) \/ RenderHistograms(r)

Spec == Init /\ [][Next]_vars
=============================================================================
