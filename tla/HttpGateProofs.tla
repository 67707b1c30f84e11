---------------------------- MODULE HttpGateProofs ----------------------------
(***************************************************************************)
(* Proofs about the rate limiter behind the router, for any set of         *)
(* requests, addresses and keys, any burst and any rate, and about the     *)
(* counts that /metrics shows.                                             *)
(***************************************************************************)
EXTENDS HttpGateProps, FiniteSetTheorems, TLAPS

LEMMA CapacityFacts == Capacity \in Nat /\ Cost \in Nat /\ Cost > 0 /\ Capacity >= Cost
  <1> DEFINE tokens == IF Burst < 1 THEN 1 ELSE Burst
  <1>1. tokens \in Nat /\ tokens >= 1
    BY BurstAssumption
  <1>2. Cost \in Nat /\ Cost >= 1
    BY CostAssumption
  <1> HIDE DEF tokens
  <1>3. Cost * tokens \in Nat /\ Cost * tokens >= Cost
    BY <1>1, <1>2
  <1>4. Capacity = Cost * tokens
    BY DEF Capacity, tokens
  <1>5. QED
    BY <1>2, <1>3, <1>4

LEMMA LayerFacts == Layers[1] = "auth" /\ After("auth") = "limit" /\ After("limit") = "routing"
  BY DEF Layers, After

(***************************************************************************)
(* The inductive invariant.  A bucket that exists, had it been refilled    *)
(* now and without a cap, would have tokens + (clock - last); the meter is *)
(* what the capacity exceeds this by, up to the age of old samples.        *)
(***************************************************************************)
Level(a) == bucket[a].tokens + (clock - bucket[a].last)
UnusedEmpty == \A a \in Addresses : bucket[a].last = -1 => bucket[a].tokens = 0 /\ meter[a] = 0
MeterBelow ==
  \A a \in Addresses : bucket[a].last # -1 =>
    meter[a] = 0 \/ meter[a] <= Capacity + lag - Level(a)
MeterAbove ==
  \A a \in Addresses : bucket[a].last # -1 => meter[a] >= Capacity - Level(a)
SamplesPast == \A r \in Requests : now[r] <= clock

IInv ==
  /\ TypeOK
  /\ OnlyAllowedPass
  /\ UnusedEmpty
  /\ MeterBelow
  /\ MeterAbove
  /\ SamplesPast

LEMMA InitIInv == Init => IInv
  <1> SUFFICES ASSUME Init PROVE IInv
    OBVIOUS
  <1> USE DEF Init, LimiterInit, MetricsInit
  <1>1. bucket \in [Addresses -> [tokens : 0 .. Capacity, last : -1 .. clock]]
    BY CapacityFacts DEF Absent
  <1>2. seen \in [Requests -> [Labels -> Nat]]
    BY DEF NothingSeen
  <1>3. TypeOK
    BY <1>1, <1>2, UnspecifiedAssumption, MaxTimeAssumption DEF TypeOK, Times, Phases, Paths
  <1>4. OnlyAllowedPass
    BY DEF OnlyAllowedPass
  <1>5. UnusedEmpty /\ MeterBelow /\ MeterAbove
    BY DEF UnusedEmpty, MeterBelow, MeterAbove, Absent
  <1>6. SamplesPast
    BY DEF SamplesPast
  <1>7. QED
    BY <1>3, <1>4, <1>5, <1>6 DEF IInv

-----------------------------------------------------------------------------
(* What check finds in a bucket, whatever the age of its sample.           *)

LEMMA FoundBounds ==
  ASSUME IInv, NEW a \in Addresses, NEW n \in 0 .. clock,
         NEW age \in Nat, age >= lag, age >= clock - n
  PROVE  /\ Found(a, n) \in [tokens : 0 .. Capacity, last : 0 .. clock]
         /\ Found(a, n).last >= n
         /\ meter[a] <= Capacity + age - (Found(a, n).tokens + (clock - Found(a, n).last))
         /\ meter[a] >= Capacity - (Found(a, n).tokens + (clock - Found(a, n).last))
  <1> DEFINE b == bucket[a]
  <1>1. b \in [tokens : 0 .. Capacity, last : -1 .. clock]
    BY DEF IInv, TypeOK
  <1>2. clock \in Nat /\ lag \in Nat /\ meter[a] \in Nat /\ Capacity \in Nat
    BY CapacityFacts, MaxTimeAssumption DEF IInv, TypeOK, Times
  <1>3. CASE b.last = -1
    <2>1. b.tokens = 0 /\ meter[a] = 0
      BY <1>3 DEF IInv, UnusedEmpty
    <2>2. b = Absent
      BY <1>1, <1>3, <2>1 DEF Absent
    <2>3. Found(a, n) = [tokens |-> Capacity, last |-> n]
      BY <2>2 DEF Found, Refilled, Full
    <2>4. QED
      BY <1>2, <2>1, <2>3
  <1>4. CASE b.last # -1
    <2>1. b # Absent
      BY <1>4 DEF Absent
    <2>2. Found(a, n) = IF n > b.last
                        THEN [tokens |-> Capped(b.tokens + n - b.last), last |-> n]
                        ELSE b
      BY <2>1 DEF Found, Refilled
    <2>3. /\ b.tokens \in 0 .. Capacity /\ b.last \in 0 .. clock
          /\ meter[a] = 0 \/ meter[a] <= Capacity + lag - (b.tokens + (clock - b.last))
          /\ meter[a] >= Capacity - (b.tokens + (clock - b.last))
      BY <1>1, <1>2, <1>4 DEF IInv, MeterBelow, MeterAbove, Level
    <2>4. CASE n > b.last
      <3>1. Found(a, n).tokens = Capped(b.tokens + n - b.last) /\ Found(a, n).last = n
            /\ Found(a, n) = [tokens |-> Capped(b.tokens + n - b.last), last |-> n]
        BY <2>2, <2>4
      <3>2. CASE b.tokens + n - b.last > Capacity
        <4>1. Capped(b.tokens + n - b.last) = Capacity
          BY <3>2 DEF Capped
        <4>2. QED
          BY <1>2, <2>3, <2>4, <3>1, <3>2, <4>1
      <3>3. CASE ~(b.tokens + n - b.last > Capacity)
        <4>1. Capped(b.tokens + n - b.last) = b.tokens + n - b.last
          BY <3>3 DEF Capped
        <4>2. QED
          BY <1>2, <2>3, <2>4, <3>1, <3>3, <4>1
      <3>4. QED
        BY <3>2, <3>3
    <2>5. CASE ~(n > b.last)
      BY <1>1, <1>2, <2>2, <2>3, <2>5
    <2>6. QED
      BY <2>4, <2>5
  <1>5. QED
    BY <1>3, <1>4

LEMMA ClientIpKnown ==
  ASSUME TypeOK, NEW r \in Requests
  PROVE  ClientIp(r) \in Addresses
  BY UnspecifiedAssumption DEF TypeOK, ClientIp

(* The sample of a request that has the lock, and the history of ages.     *)
LEMMA AgeFacts ==
  ASSUME IInv, NEW r \in Requests, Check(r)
  PROVE  /\ now[r] \in 0 .. clock /\ lag' \in Times
         /\ lag' >= lag /\ lag' >= clock - now[r]
  <1>1. now[r] \in Nat /\ now[r] <= clock /\ clock \in 0 .. MaxTime /\ lag \in 0 .. MaxTime
    BY MaxTimeAssumption DEF IInv, TypeOK, SamplesPast, Times
  <1>2. lag' = IF clock - now[r] > lag THEN clock - now[r] ELSE lag
    BY DEF Check
  <1>3. QED
    BY <1>1, <1>2, MaxTimeAssumption DEF Times

-----------------------------------------------------------------------------
(* The part of the invariant that is not about buckets.                    *)

LEMMA AnswerTyped ==
  ASSUME TypeOK, NEW r \in Requests, Answer(r)
  PROVE  /\ pc' \in [Requests -> Phases]
         /\ path' \in [Requests -> Paths]
         /\ key' \in [Requests -> Credentials \union {NoKey}]
         /\ from' \in [Requests -> Addresses]
         /\ now' \in [Requests -> Times]
         /\ start' \in [Requests -> Times]
         /\ seen' \in [Requests -> [Labels -> Nat]]
         /\ \A q \in Requests : now'[q] = now[q] \/ now'[q] = 0
         /\ \A q \in Requests :
              pc'[q] = "idle" \/ (pc'[q] = pc[q] /\ path'[q] = path[q] /\ key'[q] = key[q])
  <1>1. seen' \in [Requests -> [Labels -> Nat]]
    BY DEF TypeOK, Answer, NothingSeen
  <1>2. QED
    BY <1>1, UnspecifiedAssumption, MaxTimeAssumption
    DEF TypeOK, Answer, Goto, Phases, Paths, Times

(* Every step of a request but Check leaves buckets and meters alone.      *)
Untouched == UNCHANGED <<clock, bucket, meter, lag>>

LEMMA ArriveStep ==
  ASSUME IInv, NEW r \in Requests, Arrive(r)
  PROVE  TypeOK' /\ OnlyAllowedPass' /\ Untouched /\ now' = now
  <1>1. Untouched /\ now' = now
    BY DEF Arrive, Untouched, limiter, history
  <1>2. pc' = [pc EXCEPT ![r] = "auth"]
    BY LayerFacts DEF Arrive, Goto
  <1>3. TypeOK'
    BY <1>1, <1>2
    DEF IInv, TypeOK, Arrive, Untouched, Phases, Paths, limiter, metrics, history, Times
  <1>4. OnlyAllowedPass'
    BY <1>2 DEF IInv, TypeOK, OnlyAllowedPass, Arrive, Allowed, ExpectedKey
  <1>5. QED
    BY <1>1, <1>3, <1>4

LEMMA AuthenticateStep ==
  ASSUME IInv, NEW r \in Requests, Authenticate(r)
  PROVE  /\ TypeOK' /\ OnlyAllowedPass' /\ Untouched
         /\ \A q \in Requests : now'[q] = now[q] \/ now'[q] = 0
  <1>1. Untouched /\ UNCHANGED <<total, entered>>
    BY DEF Authenticate, Untouched, limiter, metrics, history
  <1>2. CASE Allowed(path[r], key[r])
    <2>1. pc' = [pc EXCEPT ![r] = "limit"] /\ UNCHANGED <<path, key, from, now, start, seen>>
      BY <1>2, LayerFacts DEF Authenticate, Goto, request
    <2>2. TypeOK'
      BY <1>1, <2>1 DEF IInv, TypeOK, Untouched, Phases
    <2>3. OnlyAllowedPass'
      BY <1>2, <2>1 DEF IInv, TypeOK, OnlyAllowedPass, Allowed, ExpectedKey
    <2>4. QED
      BY <1>1, <2>1, <2>2, <2>3
  <1>3. CASE ~Allowed(path[r], key[r])
    <2>1. Answer(r) /\ TypeOK
      BY <1>3 DEF Authenticate, IInv
    <2>2. TypeOK'
      BY <1>1, <2>1, AnswerTyped DEF TypeOK, Untouched
    <2>3. OnlyAllowedPass'
      BY <2>1, AnswerTyped DEF IInv, OnlyAllowedPass, Allowed, ExpectedKey
    <2>4. QED
      BY <1>1, <2>1, <2>2, <2>3, AnswerTyped
  <1>4. QED
    BY <1>2, <1>3

LEMMA SampleStep ==
  ASSUME IInv, NEW r \in Requests, SampleClock(r)
  PROVE  /\ TypeOK' /\ OnlyAllowedPass' /\ Untouched
         /\ \A q \in Requests : now'[q] = now[q] \/ now'[q] = clock
  <1>1. Untouched /\ UNCHANGED <<path, key, from, start, seen, total, entered>>
    BY DEF SampleClock, Untouched, request, limiter, metrics, history
  <1>2. pc' = [pc EXCEPT ![r] = "locking"] /\ now' = [now EXCEPT ![r] = clock] /\ pc[r] = "limit"
    BY DEF SampleClock, Goto
  <1>3. TypeOK'
    BY <1>1, <1>2 DEF IInv, TypeOK, Untouched, Phases
  <1>4. OnlyAllowedPass'
    BY <1>1, <1>2 DEF IInv, TypeOK, OnlyAllowedPass, Allowed, ExpectedKey
  <1>5. QED
    BY <1>1, <1>2, <1>3, <1>4 DEF IInv, TypeOK

LEMMA HandlerStep ==
  ASSUME IInv, NEW r \in Requests,
         \/ AnsweredUnmeasured(r) \/ EnterHandler(r) \/ LeaveHandler(r) \/ Count(r)
         \/ Record(r) \/ RenderCounters(r) \/ RenderHistograms(r)
  PROVE  /\ TypeOK' /\ OnlyAllowedPass' /\ Untouched
         /\ \A q \in Requests : now'[q] = now[q] \/ now'[q] = 0
  <1> USE DEF request, limiter, metrics, history
  <1>1. CASE AnsweredUnmeasured(r) \/ Record(r) \/ RenderHistograms(r)
    <2>1. Answer(r) /\ TypeOK /\ Untouched /\ UNCHANGED <<total, entered>>
      BY <1>1 DEF AnsweredUnmeasured, Record, RenderHistograms, IInv, Untouched
    <2>2. TypeOK'
      BY <2>1, AnswerTyped DEF TypeOK, Untouched
    <2>3. OnlyAllowedPass'
      BY <2>1, AnswerTyped DEF IInv, OnlyAllowedPass, Allowed, ExpectedKey
    <2>4. QED
      BY <2>1, <2>2, <2>3, AnswerTyped
  <1>2. CASE EnterHandler(r)
    <2>1. Untouched /\ UNCHANGED <<path, key, from, now, seen, total>>
      BY <1>2 DEF EnterHandler, Untouched
    <2>2. pc[r] = "routing" /\ pc' = [pc EXCEPT ![r] = "handler"]
      BY <1>2 DEF EnterHandler, Goto
    <2>3. TypeOK'
      BY <1>2, <2>1, <2>2 DEF IInv, TypeOK, EnterHandler, Untouched, Phases
    <2>4. OnlyAllowedPass'
      BY <2>1, <2>2 DEF IInv, TypeOK, OnlyAllowedPass, Allowed, ExpectedKey
    <2>5. QED
      BY <2>1, <2>3, <2>4
  <1>3. CASE LeaveHandler(r) \/ Count(r) \/ RenderCounters(r)
    <2>1. Untouched /\ UNCHANGED <<path, key, from, now, start, entered>>
      BY <1>3 DEF LeaveHandler, Count, RenderCounters, Untouched
    <2>2. /\ pc[r] \notin {"idle", "auth"}
          /\ \E p \in {"counting", "recording", "rendering"} : pc' = [pc EXCEPT ![r] = p]
      BY <1>3 DEF LeaveHandler, Count, RenderCounters, Goto
    <2>3. total' \in [Labels -> Nat] /\ seen' \in [Requests -> [Labels -> Nat]]
      <3>1. CASE LeaveHandler(r)
        BY <3>1 DEF IInv, TypeOK, LeaveHandler
      <3>2. CASE Count(r)
        <4>1. total' = [total EXCEPT ![path[r]] = @ + 1] /\ seen' = seen
          BY <3>2 DEF Count, CounterInc
        <4>2. total' = [l \in Labels |-> IF l = path[r] THEN total[l] + 1 ELSE total[l]]
          BY <4>1 DEF IInv, TypeOK
        <4>3. \A l \in Labels : total[l] \in Nat
          BY DEF IInv, TypeOK
        <4>4. total' \in [Labels -> Nat]
          BY <4>2, <4>3
        <4>5. QED
          BY <4>1, <4>4 DEF IInv, TypeOK
      <3>3. CASE RenderCounters(r)
        BY <3>3 DEF IInv, TypeOK, RenderCounters
      <3>4. QED
        BY <1>3, <3>1, <3>2, <3>3
    <2>4. TypeOK'
      BY <2>1, <2>2, <2>3 DEF IInv, TypeOK, Untouched, Phases
    <2>5. OnlyAllowedPass'
      BY <2>1, <2>2 DEF IInv, TypeOK, OnlyAllowedPass, Allowed, ExpectedKey
    <2>6. QED
      BY <2>1, <2>4, <2>5
  <1>4. QED
    BY <1>1, <1>2, <1>3

(* While bucket and meter stay, so does what the invariant says of them.   *)
LEMMA BucketsStay ==
  ASSUME IInv, Untouched, TypeOK', OnlyAllowedPass',
         \A q \in Requests : now'[q] \in {now[q], 0, clock}
  PROVE  IInv'
  <1>1. clock \in Nat /\ clock' = clock
    BY MaxTimeAssumption DEF IInv, TypeOK, Times, Untouched
  <1>2. SamplesPast'
    BY <1>1 DEF IInv, SamplesPast
  <1>3. UnusedEmpty' /\ MeterBelow' /\ MeterAbove'
    BY <1>1 DEF IInv, UnusedEmpty, MeterBelow, MeterAbove, Level, Untouched
  <1>4. QED
    BY <1>2, <1>3 DEF IInv

-----------------------------------------------------------------------------
(* The clock, and the check.                                               *)

LEMMA TickStep == IInv /\ Tick => IInv'
  <1> SUFFICES ASSUME IInv, Tick PROVE IInv'
    OBVIOUS
  <1>1. /\ clock' = clock + 1 /\ clock \in Nat /\ clock' \in Times
        /\ UNCHANGED <<pc, path, key, from, now, start, seen, bucket, total, entered, lag>>
    BY MaxTimeAssumption
    DEF IInv, TypeOK, Tick, Times, request, metrics
  <1>2. /\ meter' \in [Addresses -> Nat]
        /\ \A a \in Addresses : meter'[a] = IF meter[a] = 0 THEN 0 ELSE meter[a] - 1
    <2>1. meter' = [a \in Addresses |-> IF meter[a] = 0 THEN 0 ELSE meter[a] - 1]
      BY DEF Tick
    <2>2. \A a \in Addresses : meter[a] \in Nat
      BY DEF IInv, TypeOK
    <2>3. QED
      BY <2>1, <2>2
  <1>3. bucket' \in [Addresses -> [tokens : 0 .. Capacity, last : -1 .. clock']]
    BY <1>1 DEF IInv, TypeOK
  <1>4. TypeOK'
    BY <1>1, <1>2, <1>3 DEF IInv, TypeOK
  <1>5. OnlyAllowedPass' /\ SamplesPast'
    BY <1>1, MaxTimeAssumption
    DEF IInv, TypeOK, Times, OnlyAllowedPass, SamplesPast, Allowed, ExpectedKey
  <1>6. UnusedEmpty'
    BY <1>1, <1>2 DEF IInv, UnusedEmpty
  <1>7. MeterBelow' /\ MeterAbove'
    <2> SUFFICES ASSUME NEW a \in Addresses, bucket[a].last # -1
                 PROVE  /\ meter'[a] = 0 \/ meter'[a] <= Capacity + lag - Level(a)'
                        /\ meter'[a] >= Capacity - Level(a)'
      BY <1>1 DEF MeterBelow, MeterAbove
    <2>1. Level(a)' = Level(a) + 1 /\ Level(a) \in Int /\ meter[a] \in Nat /\ lag \in Nat
      BY <1>1, MaxTimeAssumption, CapacityFacts DEF IInv, TypeOK, Times, Level
    <2>2. /\ meter[a] = 0 \/ meter[a] <= Capacity + lag - Level(a)
          /\ meter[a] >= Capacity - Level(a)
      BY DEF IInv, MeterBelow, MeterAbove
    <2>3. QED
      BY <1>2, <2>1, <2>2, CapacityFacts
  <1>8. QED
    BY <1>4, <1>5, <1>6, <1>7 DEF IInv

LEMMA CheckStep ==
  ASSUME IInv, NEW r \in Requests, NEW a \in Addresses, a = ClientIp(r), Check(r)
  PROVE  IInv'
  <1> DEFINE f == Found(a, now[r])
             left == IF Passes(a, now[r]) THEN f.tokens - Cost ELSE f.tokens
             used == IF Passes(a, now[r]) THEN meter[a] + Cost ELSE meter[a]
  <1>1. a \in Addresses /\ a = ClientIp(r)
    OBVIOUS
  <1>2. /\ now[r] \in 0 .. clock /\ lag' \in Times /\ lag' \in Nat
        /\ lag' >= lag /\ lag' >= clock - now[r]
    BY AgeFacts DEF Times
  <1>3. /\ f \in [tokens : 0 .. Capacity, last : 0 .. clock]
        /\ f.last >= now[r]
        /\ meter[a] <= Capacity + lag' - (f.tokens + (clock - f.last))
        /\ meter[a] >= Capacity - (f.tokens + (clock - f.last))
    BY <1>1, <1>2, FoundBounds
  <1>4. Passes(a, now[r]) <=> f.tokens >= Cost
    BY DEF Passes
  <1>5. /\ clock \in Nat /\ meter[a] \in Nat /\ lag \in Nat /\ clock' = clock
        /\ UNCHANGED <<total, entered>>
    BY <1>1, MaxTimeAssumption DEF IInv, TypeOK, Times, Check, metrics
  <1>6. /\ left \in 0 .. Capacity /\ used \in Nat
        /\ used <= Capacity + lag' - (left + (clock - f.last))
        /\ used >= Capacity - (left + (clock - f.last))
    BY <1>2, <1>3, <1>4, <1>5, CapacityFacts
  <1>7. bucket' = [bucket EXCEPT ![a] = [tokens |-> left, last |-> f.last]]
    <2>1. CASE Passes(a, now[r])
      <3>1. bucket' = [bucket EXCEPT ![a] = [f EXCEPT !.tokens = f.tokens - Cost]]
        BY <1>1, <2>1 DEF Check, Consume
      <3>2. [f EXCEPT !.tokens = f.tokens - Cost] = [tokens |-> left, last |-> f.last]
        BY <1>3, <2>1
      <3>3. QED
        BY <3>1, <3>2
    <2>2. CASE ~Passes(a, now[r])
      <3>1. bucket' = [bucket EXCEPT ![a] = f]
        BY <1>1, <2>2 DEF Check, Consume
      <3>2. f = [tokens |-> left, last |-> f.last]
        BY <1>3, <2>2
      <3>3. QED
        BY <3>1, <3>2
    <2>3. QED
      BY <2>1, <2>2
  <1>8. meter' = [meter EXCEPT ![a] = used]
    BY <1>1 DEF Check, IInv, TypeOK
  <1>9. /\ bucket' \in [Addresses -> [tokens : 0 .. Capacity, last : -1 .. clock']]
        /\ meter' \in [Addresses -> Nat]
    <2>1. [tokens |-> left, last |-> f.last] \in [tokens : 0 .. Capacity, last : -1 .. clock]
      BY <1>3, <1>5, <1>6
    <2>2. QED
      BY <1>5, <1>6, <1>7, <1>8, <2>1 DEF IInv, TypeOK
  <1>10. /\ TypeOK' /\ OnlyAllowedPass'
         /\ \A q \in Requests : now'[q] = now[q] \/ now'[q] = 0
    <2>1. CASE Passes(a, now[r])
      <3>1. /\ pc' = [pc EXCEPT ![r] = "routing"] /\ now' = [now EXCEPT ![r] = 0]
            /\ from' = [from EXCEPT ![r] = Unspecified]
            /\ UNCHANGED <<path, key, start, seen>>
            /\ pc[r] = "locking"
        BY <1>1, <2>1, LayerFacts DEF Check, Goto
      <3>2. pc' \in [Requests -> Phases] /\ now' \in [Requests -> Times]
            /\ from' \in [Requests -> Addresses] /\ clock' \in Times
        BY <1>5, <3>1, UnspecifiedAssumption, MaxTimeAssumption
        DEF IInv, TypeOK, Phases, Times
      <3>3. TypeOK'
        BY <1>2, <1>5, <1>9, <3>1, <3>2 DEF IInv, TypeOK
      <3>4. OnlyAllowedPass'
        BY <3>1 DEF IInv, TypeOK, OnlyAllowedPass, Allowed, ExpectedKey
      <3>5. QED
        BY <3>1, <3>3, <3>4 DEF IInv, TypeOK
    <2>2. CASE ~Passes(a, now[r])
      <3>1. Answer(r) /\ TypeOK
        BY <1>1, <2>2 DEF Check, IInv
      <3>2. TypeOK'
        BY <1>2, <1>5, <1>9, <3>1, AnswerTyped DEF TypeOK
      <3>3. OnlyAllowedPass'
        BY <3>1, AnswerTyped DEF IInv, OnlyAllowedPass, Allowed, ExpectedKey
      <3>4. QED
        BY <3>1, <3>2, <3>3, AnswerTyped
    <2>3. QED
      BY <2>1, <2>2
  <1>11. SamplesPast'
    BY <1>5, <1>10 DEF IInv, SamplesPast
  <1>12. UnusedEmpty' /\ MeterBelow' /\ MeterAbove'
    <2>1. ASSUME NEW c \in Addresses, c # a
          PROVE  /\ bucket'[c].last = -1 => bucket'[c].tokens = 0 /\ meter'[c] = 0
                 /\ bucket'[c].last # -1 =>
                      /\ meter'[c] = 0 \/ meter'[c] <= Capacity + lag' - Level(c)'
                      /\ meter'[c] >= Capacity - Level(c)'
      <3>1. bucket'[c] = bucket[c] /\ meter'[c] = meter[c] /\ Level(c)' = Level(c)
        BY <1>1, <1>5, <1>7, <1>8, <2>1 DEF Level, IInv, TypeOK
      <3>2. bucket[c].tokens \in Nat /\ bucket[c].last \in Int /\ meter[c] \in Nat
        BY CapacityFacts DEF IInv, TypeOK, Times
      <3>3. Level(c) \in Int /\ Capacity \in Nat
        BY <1>5, <3>2, CapacityFacts DEF Level
      <3>4. /\ bucket[c].last = -1 => bucket[c].tokens = 0 /\ meter[c] = 0
            /\ bucket[c].last # -1 =>
                 /\ meter[c] = 0 \/ meter[c] <= Capacity + lag - Level(c)
                 /\ meter[c] >= Capacity - Level(c)
        BY DEF IInv, UnusedEmpty, MeterBelow, MeterAbove
      <3>5. QED
        BY <1>2, <1>5, <3>1, <3>2, <3>3, <3>4
    <2>2. bucket'[a] = [tokens |-> left, last |-> f.last] /\ meter'[a] = used
      BY <1>1, <1>7, <1>8 DEF IInv, TypeOK
    <2>3. Level(a)' = left + (clock - f.last) /\ bucket'[a].last \in Nat
      BY <1>3, <1>5, <2>2 DEF Level
    <2>4. QED
      BY <1>6, <2>1, <2>2, <2>3 DEF UnusedEmpty, MeterBelow, MeterAbove
  <1>13. QED
    BY <1>10, <1>11, <1>12 DEF IInv

LEMMA NextIInv == IInv /\ [Next]_vars => IInv'
  <1> SUFFICES ASSUME IInv, [Next]_vars PROVE IInv'
    OBVIOUS
  <1>1. CASE Tick
    BY <1>1, TickStep
  <1>2. ASSUME NEW r \in Requests,
               \/ Arrive(r) \/ Authenticate(r) \/ SampleClock(r)
               \/ AnsweredUnmeasured(r) \/ EnterHandler(r) \/ LeaveHandler(r) \/ Count(r)
               \/ Record(r) \/ RenderCounters(r) \/ RenderHistograms(r)
        PROVE  IInv'
    <2>1. /\ TypeOK' /\ OnlyAllowedPass' /\ Untouched
          /\ \A q \in Requests : now'[q] \in {now[q], 0, clock}
      BY <1>2, ArriveStep, AuthenticateStep, SampleStep, HandlerStep
    <2>2. QED
      BY <2>1, BucketsStay
  <1>3. ASSUME NEW r \in Requests, Check(r)
        PROVE  IInv'
    <2>1. ClientIp(r) \in Addresses
      BY ClientIpKnown DEF IInv
    <2>2. PICK a \in Addresses : a = ClientIp(r)
      BY <2>1
    <2>3. QED
      BY <1>3, <2>2, CheckStep
  <1>4. CASE UNCHANGED vars
    <2>1. /\ UNCHANGED <<pc, path, key, from, now, start, seen, total, entered>>
          /\ Untouched
      BY <1>4 DEF vars, request, limiter, metrics, history, Untouched
    <2>2. TypeOK' /\ OnlyAllowedPass'
      BY <2>1 DEF IInv, TypeOK, OnlyAllowedPass, Allowed, ExpectedKey, Untouched
    <2>3. QED
      BY <2>1, <2>2, BucketsStay
  <1>5. QED
    BY <1>1, <1>2, <1>3, <1>4 DEF Next

LEMMA IInvAlways == Spec => []IInv
  BY InitIInv, NextIInv, PTL DEF Spec

(***************************************************************************)
(* However many requests come, from however many addresses and in whatever *)
(* order their samples of the clock reach the buckets, no more are let     *)
(* through than the textbook meter allows, and none without its key        *)
(* (rate_limit.rs:33-48, 82-90, mod.rs:255-293).                           *)
(***************************************************************************)
THEOREM LimitHolds == Spec => []RateBound
  <1>1. IInv => RateBound
    <2> SUFFICES ASSUME IInv, NEW a \in Addresses PROVE meter[a] <= Capacity + lag
      BY DEF IInv, RateBound
    <2>1. /\ bucket[a].tokens \in Nat /\ bucket[a].last \in -1 .. clock /\ clock \in Nat
          /\ lag \in Nat /\ meter[a] \in Nat /\ Capacity \in Nat
      BY CapacityFacts, MaxTimeAssumption DEF IInv, TypeOK, Times
    <2>2. CASE bucket[a].last = -1
      BY <2>1, <2>2 DEF IInv, UnusedEmpty
    <2>3. CASE bucket[a].last # -1
      <3>1. meter[a] = 0 \/ meter[a] <= Capacity + lag - Level(a)
        BY <2>3 DEF IInv, MeterBelow
      <3>2. Level(a) \in Nat
        BY <2>1, <2>3 DEF Level
      <3>3. QED
        BY <2>1, <3>1, <3>2
    <2>4. QED
      BY <2>2, <2>3
  <1>2. QED
    BY <1>1, IInvAlways, PTL

(***************************************************************************)
(* A step that answers 429 finds the meter without room for one more       *)
(* request (rate_limit.rs:41-47).                                          *)
(***************************************************************************)
LEMMA OnlyCheckRefuses ==
  ASSUME TypeOK, [Next]_vars, NEW r \in Requests, Refused(r)
  PROVE  Check(r)
  <1> USE DEF Refused, TypeOK
  <1>1. ASSUME NEW q \in Requests, q # r,
               \/ Arrive(q) \/ Authenticate(q) \/ SampleClock(q) \/ Check(q)
               \/ AnsweredUnmeasured(q) \/ EnterHandler(q) \/ LeaveHandler(q)
               \/ Count(q) \/ Record(q) \/ RenderCounters(q) \/ RenderHistograms(q)
        PROVE  FALSE
    <2>1. \E p \in Phases : pc' = [pc EXCEPT ![q] = p]
      BY <1>1, LayerFacts
      DEF Arrive, Authenticate, SampleClock, Check, AnsweredUnmeasured, EnterHandler,
          LeaveHandler, Count, Record, RenderCounters, RenderHistograms, Goto, Answer, Phases
    <2>2. QED
      BY <1>1, <2>1
  <1>2. CASE Tick \/ UNCHANGED vars
    BY <1>2 DEF Tick, vars
  <1>3. CASE \/ Arrive(r) \/ Authenticate(r) \/ SampleClock(r)
             \/ AnsweredUnmeasured(r) \/ EnterHandler(r) \/ LeaveHandler(r)
             \/ Count(r) \/ Record(r) \/ RenderCounters(r) \/ RenderHistograms(r)
    BY <1>3
    DEF Arrive, Authenticate, SampleClock, AnsweredUnmeasured, EnterHandler,
        LeaveHandler, Count, Record, RenderCounters, RenderHistograms
  <1>4. QED
    BY <1>1, <1>2, <1>3 DEF Next

THEOREM RefusalsAreDue == Spec => RefusedOnlyWhenSpent
  <1> DEFINE Due(r) == Refused(r) => meter[ClientIp(r)] + Cost > Capacity - lag'
  <1>1. IInv /\ [Next]_vars => \A r \in Requests : Due(r)
    <2> SUFFICES ASSUME IInv, [Next]_vars, NEW r \in Requests, Refused(r)
                 PROVE  meter[ClientIp(r)] + Cost > Capacity - lag'
      OBVIOUS
    <2> DEFINE a == ClientIp(r)
               f == Found(a, now[r])
    <2>1. Check(r) /\ TypeOK
      BY OnlyCheckRefuses DEF IInv
    <2>2. a \in Addresses
      BY <2>1, ClientIpKnown
    <2>3. /\ now[r] \in 0 .. clock /\ lag' \in Nat
          /\ lag' >= lag /\ lag' >= clock - now[r]
      BY <2>1, AgeFacts DEF Times
    <2>4. /\ f \in [tokens : 0 .. Capacity, last : 0 .. clock]
          /\ f.last >= now[r]
          /\ meter[a] >= Capacity - (f.tokens + (clock - f.last))
      BY <2>2, <2>3, FoundBounds
    <2>5. ~(f.tokens >= Cost)
      BY <2>1, LayerFacts DEF Check, Passes, Refused, Goto, TypeOK
    <2>6. clock \in Nat /\ meter[a] \in Nat
      BY <2>1, <2>2, MaxTimeAssumption DEF TypeOK, Times
    <2>7. QED
      BY <2>3, <2>4, <2>5, <2>6, CapacityFacts
  <1>2. QED
    BY <1>1, IInvAlways, PTL DEF Spec, RefusedOnlyWhenSpent

-----------------------------------------------------------------------------
(* What is counted.  The inductive invariant adds to MetricsExact that     *)
(* only labelled requests are measured and that a page never shows more    *)
(* than the counter, which never falls.                                    *)

InHandler == {"handler", "counting", "recording"}
Series == [counts : [Bounds -> Nat], sum : Int, count : Nat]

LabelledOnly == \A r \in Requests : pc[r] \in InHandler => path[r] \in Labels
Balanced ==
  \A l \in Labels :
    /\ total[l] + Cardinality(Uncounted(l)) = entered[l]
    /\ hist[l].count + Cardinality(Measured(l)) = entered[l]
    /\ Cumulative(hist[l])
SeenBehind == \A r \in Requests : \A l \in Labels : seen[r][l] <= total[l]

CountInv ==
  /\ hist \in [Labels -> Series]
  /\ LabelledOnly
  /\ Balanced
  /\ SeenBehind

LEMMA OneMore ==
  ASSUME NEW r \in Requests, NEW S \in SUBSET Requests
  PROVE  /\ Cardinality(S) \in Nat
         /\ r \notin S => Cardinality(S \union {r}) = Cardinality(S) + 1
         /\ r \in S => Cardinality(S \ {r}) + 1 = Cardinality(S)
  <1>1. IsFiniteSet(S)
    BY RequestsAssumption, FS_Subset
  <1>2. Cardinality(S) \in Nat
    BY <1>1, FS_CardinalityType
  <1>3. r \notin S => Cardinality(S \union {r}) = Cardinality(S) + 1
    BY <1>1, FS_AddElement
  <1>4. r \in S => Cardinality(S \ {r}) + 1 = Cardinality(S)
    <2>1. r \in S => Cardinality(S \ {r}) = Cardinality(S) - 1
      BY <1>1, FS_RemoveElement
    <2>2. QED
      BY <1>2, <2>1
  <1>5. QED
    BY <1>2, <1>3, <1>4

LEMMA MeasuredFacts ==
  ASSUME NEW l
  PROVE  /\ Measured(l) \in SUBSET Requests /\ Uncounted(l) \in SUBSET Requests
         /\ \A r \in Requests : r \in Measured(l) <=> path[r] = l /\ pc[r] \in InHandler
         /\ \A r \in Requests :
              r \in Uncounted(l) <=> path[r] = l /\ pc[r] \in {"handler", "counting"}
  BY DEF Measured, Uncounted, InHandler

LEMMA InitCounts == Init => CountInv
  <1> SUFFICES ASSUME Init PROVE CountInv
    OBVIOUS
  <1> USE DEF Init, MetricsInit
  <1>1. EmptySeries \in Series
    BY BoundsAssumption DEF EmptySeries, Series
  <1>2. hist \in [Labels -> Series]
    BY <1>1
  <1>3. LabelledOnly
    BY DEF LabelledOnly, InHandler
  <1>4. \A l \in Labels : Measured(l) = {} /\ Uncounted(l) = {}
    BY DEF Measured, Uncounted
  <1>5. \A l \in Labels : total[l] = 0 /\ entered[l] = 0 /\ hist[l].count = 0 /\ Cumulative(hist[l])
    BY DEF EmptySeries, Cumulative
  <1>6. \A l \in Labels : Cardinality(Measured(l)) = 0 /\ Cardinality(Uncounted(l)) = 0
    BY <1>4, FS_EmptySet
  <1>7. Balanced
    BY <1>5, <1>6 DEF Balanced
  <1>8. SeenBehind
    BY DEF SeenBehind, NothingSeen
  <1>9. QED
    BY <1>2, <1>3, <1>7, <1>8 DEF CountInv

(* Steps that leave everybody inside or outside the handlers, and count    *)
(* nothing.                                                                *)
LEMMA CountsStay ==
  ASSUME TypeOK, CountInv, UNCHANGED <<hist, total, entered>>,
         \A q \in Requests :
           \/ pc'[q] = pc[q] /\ path'[q] = path[q]
           \/ pc[q] \notin InHandler /\ pc'[q] \notin InHandler
           \/ {pc[q], pc'[q]} \subseteq {"handler", "counting"} /\ path'[q] = path[q],
         \A q \in Requests : seen'[q] \in {seen[q], NothingSeen, total}
  PROVE  CountInv'
  <1>1. \A q \in Requests :
          /\ pc'[q] \in InHandler <=> pc[q] \in InHandler
          /\ pc'[q] \in {"handler", "counting"} <=> pc[q] \in {"handler", "counting"}
          /\ pc[q] \in InHandler => path'[q] = path[q]
    BY DEF InHandler
  <1>2. ASSUME NEW l PROVE Measured(l)' = Measured(l) /\ Uncounted(l)' = Uncounted(l)
    <2>1. Measured(l)' = {r \in Requests : path'[r] = l /\ pc'[r] \in InHandler}
      BY DEF Measured, InHandler
    <2>2. Uncounted(l)' = {r \in Requests : path'[r] = l /\ pc'[r] \in {"handler", "counting"}}
      BY <2>1 DEF Uncounted, InHandler
    <2>3. {"handler", "counting"} \subseteq InHandler
      BY DEF InHandler
    <2>4. QED
      BY <1>1, <2>1, <2>2, <2>3, MeasuredFacts
  <1>3. hist' = hist /\ total' = total /\ entered' = entered
    OBVIOUS
  <1>4. Balanced'
    BY <1>2, <1>3 DEF CountInv, Balanced
  <1>5. LabelledOnly'
    BY <1>1 DEF CountInv, LabelledOnly
  <1>6. SeenBehind'
    <2> SUFFICES ASSUME NEW q \in Requests, NEW l \in Labels PROVE seen'[q][l] <= total'[l]
      BY DEF SeenBehind
    <2>1. total[l] \in Nat /\ seen[q][l] <= total[l] /\ NothingSeen[l] = 0
      BY DEF TypeOK, CountInv, SeenBehind, NothingSeen
    <2>2. QED
      BY <1>3, <2>1
  <1>7. QED
    BY <1>3, <1>4, <1>5, <1>6 DEF CountInv

LEMMA EnterCounts ==
  ASSUME TypeOK, CountInv, NEW r \in Requests, EnterHandler(r)
  PROVE  CountInv'
  <1>1. /\ pc[r] = "routing" /\ path[r] \in Labels
        /\ pc' = [pc EXCEPT ![r] = "handler"]
        /\ entered' = [entered EXCEPT ![path[r]] = @ + 1]
        /\ UNCHANGED <<path, seen, total, hist>>
    BY DEF EnterHandler, Goto, request, metrics
  <1>2. /\ pc'[r] = "handler" /\ \A q \in Requests : q # r => pc'[q] = pc[q]
        /\ \A l \in Labels : entered[l] \in Nat
        /\ \A l \in Labels : entered'[l] = IF l = path[r] THEN entered[l] + 1 ELSE entered[l]
    BY <1>1 DEF TypeOK
  <1>3. ASSUME NEW l
        PROVE  /\ Measured(l)' = IF path[r] = l THEN Measured(l) \union {r} ELSE Measured(l)
               /\ Uncounted(l)' = IF path[r] = l THEN Uncounted(l) \union {r} ELSE Uncounted(l)
               /\ r \notin Measured(l) /\ r \notin Uncounted(l)
    <2>1. Measured(l)' = {q \in Requests : path'[q] = l /\ pc'[q] \in InHandler}
      BY DEF Measured, InHandler
    <2>2. Uncounted(l)' = {q \in Requests : path'[q] = l /\ pc'[q] \in {"handler", "counting"}}
      BY <2>1 DEF Uncounted, InHandler
    <2>3. "handler" \in InHandler /\ "routing" \notin InHandler
      BY DEF InHandler
    <2>4. QED
      BY <1>1, <1>2, <2>1, <2>2, <2>3, MeasuredFacts
  <1>4. LabelledOnly'
    BY <1>1, <1>2 DEF CountInv, LabelledOnly
  <1>5. Balanced'
    <2> SUFFICES ASSUME NEW l \in Labels
                 PROVE  /\ total'[l] + Cardinality(Uncounted(l)') = entered'[l]
                        /\ hist'[l].count + Cardinality(Measured(l)') = entered'[l]
                        /\ Cumulative(hist'[l])
      BY DEF Balanced
    <2>1. /\ total[l] + Cardinality(Uncounted(l)) = entered[l]
          /\ hist[l].count + Cardinality(Measured(l)) = entered[l]
          /\ Cumulative(hist[l])
          /\ total[l] \in Nat /\ hist[l].count \in Nat
      BY DEF CountInv, Balanced, TypeOK, Series
    <2>2. /\ Cardinality(Uncounted(l)) \in Nat /\ Cardinality(Measured(l)) \in Nat
          /\ Cardinality(Uncounted(l) \union {r}) = Cardinality(Uncounted(l)) + 1
          /\ Cardinality(Measured(l) \union {r}) = Cardinality(Measured(l)) + 1
      BY <1>3, MeasuredFacts, OneMore
    <2>3. CASE path[r] = l
      <3>1. /\ Cardinality(Uncounted(l)') = Cardinality(Uncounted(l)) + 1
            /\ Cardinality(Measured(l)') = Cardinality(Measured(l)) + 1
        BY <1>3, <2>2, <2>3
      <3>2. total'[l] = total[l] /\ hist'[l] = hist[l] /\ entered'[l] = entered[l] + 1
        BY <1>1, <1>2, <2>3
      <3>3. entered[l] \in Nat
        BY <1>2
      <3>4. QED
        BY <2>1, <2>2, <3>1, <3>2, <3>3
    <2>4. CASE path[r] # l
      BY <1>1, <1>2, <1>3, <2>1, <2>4
    <2>5. QED
      BY <2>3, <2>4
  <1>6. QED
    BY <1>1, <1>4, <1>5 DEF CountInv, SeenBehind

LEMMA CountCounts ==
  ASSUME TypeOK, CountInv, NEW r \in Requests, Count(r)
  PROVE  CountInv'
  <1>1. /\ pc[r] = "counting"
        /\ pc' = [pc EXCEPT ![r] = "recording"]
        /\ total' = [total EXCEPT ![path[r]] = @ + 1]
        /\ UNCHANGED <<path, seen, entered, hist>>
    BY DEF Count, CounterInc, Goto, request, history
  <1>2. /\ pc'[r] = "recording" /\ \A q \in Requests : q # r => pc'[q] = pc[q]
        /\ \A l \in Labels : total[l] \in Nat
        /\ \A l \in Labels : total'[l] = IF l = path[r] THEN total[l] + 1 ELSE total[l]
    BY <1>1 DEF TypeOK
  <1>3. ASSUME NEW l
        PROVE  /\ Measured(l)' = Measured(l)
               /\ Uncounted(l)' = IF path[r] = l THEN Uncounted(l) \ {r} ELSE Uncounted(l)
               /\ path[r] = l => r \in Uncounted(l)
    <2>1. Measured(l)' = {q \in Requests : path'[q] = l /\ pc'[q] \in InHandler}
      BY DEF Measured, InHandler
    <2>2. Uncounted(l)' = {q \in Requests : path'[q] = l /\ pc'[q] \in {"handler", "counting"}}
      BY <2>1 DEF Uncounted, InHandler
    <2>3. "recording" \in InHandler /\ "counting" \in InHandler
      BY DEF InHandler
    <2>4. Measured(l)' = Measured(l)
      BY <1>1, <1>2, <2>1, <2>3, MeasuredFacts
    <2>5. \A q \in Requests : q \in Uncounted(l)' <=> q \in Uncounted(l) /\ q # r
      BY <1>1, <1>2, <2>2, MeasuredFacts
    <2>6. path[r] = l <=> r \in Uncounted(l)
      BY <1>1, MeasuredFacts
    <2>7. Uncounted(l)' \in SUBSET Requests /\ Uncounted(l) \in SUBSET Requests
      BY <2>2, MeasuredFacts
    <2>8. QED
      BY <2>4, <2>5, <2>6, <2>7
  <1>4. LabelledOnly'
    BY <1>1, <1>2 DEF CountInv, LabelledOnly, InHandler
  <1>5. Balanced'
    <2> SUFFICES ASSUME NEW l \in Labels
                 PROVE  /\ total'[l] + Cardinality(Uncounted(l)') = entered'[l]
                        /\ hist'[l].count + Cardinality(Measured(l)') = entered'[l]
                        /\ Cumulative(hist'[l])
      BY DEF Balanced
    <2>1. /\ total[l] + Cardinality(Uncounted(l)) = entered[l]
          /\ hist[l].count + Cardinality(Measured(l)) = entered[l]
          /\ Cumulative(hist[l])
      BY DEF CountInv, Balanced
    <2>2. CASE path[r] = l
      <3>1. /\ Cardinality(Uncounted(l)) \in Nat /\ Cardinality(Uncounted(l) \ {r}) \in Nat
            /\ Cardinality(Uncounted(l) \ {r}) + 1 = Cardinality(Uncounted(l))
        <4>1. Uncounted(l) \in SUBSET Requests /\ Uncounted(l) \ {r} \in SUBSET Requests
          BY MeasuredFacts
        <4>2. QED
          BY <1>3, <2>2, <4>1, OneMore
      <3>2. Uncounted(l)' = Uncounted(l) \ {r} /\ Measured(l)' = Measured(l)
        BY <1>3, <2>2
      <3>3. total'[l] = total[l] + 1 /\ hist'[l] = hist[l] /\ entered'[l] = entered[l]
        BY <1>1, <1>2, <2>2
      <3>4. total[l] \in Nat /\ Cardinality(Uncounted(l)') + 1 = Cardinality(Uncounted(l))
        BY <1>2, <3>1, <3>2
      <3>5. Cardinality(Uncounted(l)') \in Nat
        BY <3>1, <3>2
      <3>6. QED
        BY <2>1, <3>2, <3>3, <3>4, <3>5
    <2>3. CASE path[r] # l
      BY <1>1, <1>2, <1>3, <2>1, <2>3
    <2>4. QED
      BY <2>2, <2>3
  <1>6. SeenBehind'
    <2> SUFFICES ASSUME NEW q \in Requests, NEW l \in Labels PROVE seen'[q][l] <= total'[l]
      BY DEF SeenBehind
    <2>1. seen[q][l] \in Nat /\ total[l] \in Nat /\ seen[q][l] <= total[l]
      BY DEF TypeOK, CountInv, SeenBehind
    <2>2. QED
      BY <1>1, <1>2, <2>1
  <1>7. QED
    BY <1>1, <1>4, <1>5, <1>6 DEF CountInv

(* One more value in a histogram: its buckets stay cumulative.             *)
LEMMA RecordedSeries ==
  ASSUME hist \in [Labels -> Series], NEW l \in Labels, NEW v \in Int, HistogramRecord(l, v),
         Cumulative(hist[l])
  PROVE  /\ hist' \in [Labels -> Series] /\ hist'[l].count = hist[l].count + 1
         /\ Cumulative(hist'[l])
         /\ \A m \in Labels : m # l => hist'[m] = hist[m]
  <1> DEFINE old == hist[l]
             counts == [b \in Bounds |-> old.counts[b] + (IF b \in BucketsOf(v) THEN 1 ELSE 0)]
             new == [counts |-> counts, sum |-> old.sum + v, count |-> old.count + 1]
  <1>1. old \in Series
    OBVIOUS
  <1>2. \A b \in Bounds : old.counts[b] \in Nat /\ b \in Nat
    BY <1>1, BoundsAssumption DEF Series
  <1>3. hist' = [hist EXCEPT ![l] = new]
    BY DEF HistogramRecord
  <1>4. counts \in [Bounds -> Nat]
    BY <1>2
  <1>5. \A b \in Bounds : counts[b] = old.counts[b] + (IF v <= b THEN 1 ELSE 0)
    BY DEF BucketsOf
  <1> HIDE DEF counts
  <1>6. new \in Series
    BY <1>1, <1>4 DEF Series
  <1>7. ASSUME NEW b \in Bounds, NEW c \in Bounds, b <= c
        PROVE  counts[b] <= counts[c] /\ counts[c] <= old.count + 1
    <2>1. old.counts[b] <= old.counts[c] /\ old.counts[c] <= old.count /\ old.count \in Nat
      BY <1>1, <1>7 DEF Cumulative, Series
    <2>2. QED
      BY <1>2, <1>5, <1>7, <2>1
  <1>8. Cumulative(new)
    BY <1>7 DEF Cumulative
  <1> HIDE DEF new
  <1>9. hist'[l] = new /\ \A m \in Labels : m # l => hist'[m] = hist[m]
    BY <1>3
  <1>10. hist' \in [Labels -> Series]
    BY <1>3, <1>6
  <1>11. QED
    BY <1>8, <1>9, <1>10 DEF new

LEMMA RecordCounts ==
  ASSUME TypeOK, CountInv, NEW r \in Requests, Record(r)
  PROVE  CountInv'
  <1>1. /\ pc[r] = "recording"
        /\ pc' = [pc EXCEPT ![r] = "idle"]
        /\ path' = [path EXCEPT ![r] = Scrape]
        /\ seen' = [seen EXCEPT ![r] = NothingSeen]
        /\ HistogramRecord(path[r], clock - start[r])
        /\ UNCHANGED <<total, entered>>
    BY DEF Record, Answer, Goto, history
  <1>2. /\ pc'[r] = "idle"
        /\ \A q \in Requests : q # r => pc'[q] = pc[q] /\ path'[q] = path[q]
    BY <1>1 DEF TypeOK
  <1>3. path[r] \in Labels /\ clock - start[r] \in Int
    <2>1. path[r] \in Labels
      BY <1>1 DEF CountInv, LabelledOnly, InHandler
    <2>2. clock \in Int /\ start[r] \in Int
      BY MaxTimeAssumption DEF TypeOK, Times
    <2>3. QED
      BY <2>1, <2>2
  <1>4. PICK p \in Labels : p = path[r]
    BY <1>3
  <1>5. /\ hist' \in [Labels -> Series] /\ hist'[p].count = hist[p].count + 1
        /\ Cumulative(hist'[p])
        /\ \A m \in Labels : m # p => hist'[m] = hist[m]
    <2>1. hist \in [Labels -> Series] /\ Cumulative(hist[p])
      BY DEF CountInv, Balanced
    <2>2. HistogramRecord(p, clock - start[r])
      BY <1>1, <1>4
    <2>3. PICK v \in Int : v = clock - start[r]
      BY <1>3
    <2>4. HistogramRecord(p, v)
      BY <2>2, <2>3
    <2>5. QED
      BY <2>1, <2>4, RecordedSeries
  <1>6. ASSUME NEW l
        PROVE  /\ Measured(l)' = IF p = l THEN Measured(l) \ {r} ELSE Measured(l)
               /\ Uncounted(l)' = Uncounted(l)
               /\ p = l => r \in Measured(l)
    <2>1. Measured(l)' = {q \in Requests : path'[q] = l /\ pc'[q] \in InHandler}
      BY DEF Measured, InHandler
    <2>2. Uncounted(l)' = {q \in Requests : path'[q] = l /\ pc'[q] \in {"handler", "counting"}}
      BY <2>1 DEF Uncounted, InHandler
    <2>3. "recording" \in InHandler /\ "idle" \notin InHandler
      BY DEF InHandler
    <2>4. Uncounted(l)' = Uncounted(l)
      BY <1>1, <1>2, <2>2, MeasuredFacts
    <2>5. \A q \in Requests : q \in Measured(l)' <=> q \in Measured(l) /\ q # r
      BY <1>1, <1>2, <2>1, <2>3, MeasuredFacts
    <2>6. p = l <=> r \in Measured(l)
      BY <1>1, <1>4, <2>3, MeasuredFacts
    <2>7. Measured(l)' \in SUBSET Requests /\ Measured(l) \in SUBSET Requests
      BY <2>1, MeasuredFacts
    <2>8. QED
      BY <2>4, <2>5, <2>6, <2>7
  <1>7. LabelledOnly'
    BY <1>1, <1>2 DEF CountInv, LabelledOnly, InHandler
  <1>8. Balanced'
    <2> SUFFICES ASSUME NEW l \in Labels
                 PROVE  /\ total'[l] + Cardinality(Uncounted(l)') = entered'[l]
                        /\ hist'[l].count + Cardinality(Measured(l)') = entered'[l]
                        /\ Cumulative(hist'[l])
      BY DEF Balanced
    <2>1. /\ total[l] + Cardinality(Uncounted(l)) = entered[l]
          /\ hist[l].count + Cardinality(Measured(l)) = entered[l]
          /\ Cumulative(hist[l])
          /\ hist[l].count \in Nat
      BY DEF CountInv, Balanced, Series
    <2>2. CASE p = l
      <3>1. /\ Cardinality(Measured(l)) \in Nat /\ Cardinality(Measured(l) \ {r}) \in Nat
            /\ Cardinality(Measured(l) \ {r}) + 1 = Cardinality(Measured(l))
        <4>1. Measured(l) \in SUBSET Requests /\ Measured(l) \ {r} \in SUBSET Requests
          BY MeasuredFacts
        <4>2. QED
          BY <1>6, <2>2, <4>1, OneMore
      <3>2. hist'[l].count = hist[l].count + 1 /\ Cumulative(hist'[l])
        BY <1>5, <2>2
      <3>3. Measured(l)' = Measured(l) \ {r} /\ Uncounted(l)' = Uncounted(l)
        BY <1>6, <2>2
      <3>4. total'[l] = total[l] /\ entered'[l] = entered[l]
        BY <1>1
      <3>5. /\ Cardinality(Measured(l)') \in Nat
            /\ Cardinality(Measured(l)') + 1 = Cardinality(Measured(l))
        BY <3>1, <3>3
      <3>6. QED
        BY <2>1, <3>2, <3>3, <3>4, <3>5
    <2>3. CASE p # l
      BY <1>1, <1>5, <1>6, <2>1, <2>3
    <2>4. QED
      BY <2>2, <2>3
  <1>9. SeenBehind'
    <2> SUFFICES ASSUME NEW q \in Requests, NEW l \in Labels PROVE seen'[q][l] <= total'[l]
      BY DEF SeenBehind
    <2>1. total[l] \in Nat /\ seen[q][l] <= total[l] /\ NothingSeen[l] = 0
      BY DEF TypeOK, CountInv, SeenBehind, NothingSeen
    <2>2. seen'[q] \in {seen[q], NothingSeen}
      BY <1>1 DEF TypeOK
    <2>3. QED
      BY <1>1, <2>1, <2>2
  <1>10. QED
    BY <1>5, <1>7, <1>8, <1>9 DEF CountInv

LEMMA NextCounts == IInv /\ CountInv /\ [Next]_vars => CountInv'
  <1> SUFFICES ASSUME TypeOK, CountInv, [Next]_vars PROVE CountInv'
    BY DEF IInv
  <1> USE DEF request, limiter, metrics, history
  <1>1. CASE Tick \/ UNCHANGED vars
    <2>1. UNCHANGED <<pc, path, seen, hist, total, entered>>
      BY <1>1 DEF Tick, vars
    <2>2. QED
      BY <2>1, CountsStay
  <1>2. ASSUME NEW r \in Requests,
               \/ Arrive(r) \/ Authenticate(r) \/ SampleClock(r) \/ Check(r)
               \/ AnsweredUnmeasured(r) \/ RenderCounters(r) \/ RenderHistograms(r)
        PROVE  CountInv'
    <2>1. UNCHANGED <<hist, total, entered>> /\ pc[r] \notin InHandler
      BY <1>2
      DEF Arrive, Authenticate, SampleClock, Check, AnsweredUnmeasured, RenderCounters,
          RenderHistograms, InHandler
    <2>2. /\ pc'[r] \notin InHandler
          /\ \A q \in Requests : q # r => pc'[q] = pc[q] /\ path'[q] = path[q]
      BY <1>2, LayerFacts
      DEF TypeOK, Arrive, Authenticate, SampleClock, Check, AnsweredUnmeasured, RenderCounters,
          RenderHistograms, InHandler, Answer, Goto
    <2>3. \A q \in Requests : seen'[q] \in {seen[q], NothingSeen, total}
      BY <1>2
      DEF TypeOK, Arrive, Authenticate, SampleClock, Check, AnsweredUnmeasured, RenderCounters,
          RenderHistograms, Answer
    <2>4. QED
      BY <2>1, <2>2, <2>3, CountsStay
  <1>3. ASSUME NEW r \in Requests, LeaveHandler(r) PROVE CountInv'
    <2>1. /\ UNCHANGED <<path, seen, hist, total, entered>>
          /\ pc[r] = "handler" /\ pc' = [pc EXCEPT ![r] = "counting"]
      BY <1>3 DEF LeaveHandler, Goto
    <2>2. pc'[r] = "counting" /\ \A q \in Requests : q # r => pc'[q] = pc[q]
      BY <2>1 DEF TypeOK
    <2>3. QED
      BY <2>1, <2>2, CountsStay
  <1>4. QED
    BY <1>1, <1>2, <1>3, EnterCounts, CountCounts, RecordCounts DEF Next

(***************************************************************************)
(* Each request that enters a handler is counted exactly once, whichever   *)
(* way it ends and however scrapes interleave, and a page shows no request *)
(* in the counter that the histogram lacks but one being recorded          *)
(* (http.rs:139, metrics.rs:92-127, 129-185).                              *)
(***************************************************************************)
THEOREM RequestsCountedOnce == Spec => []MetricsExact
  <1>1. IInv /\ CountInv => MetricsExact
    <2> SUFFICES ASSUME TypeOK, CountInv, NEW l \in Labels
                 PROVE  /\ total[l] + Cardinality(Uncounted(l)) = entered[l]
                        /\ hist[l].count + Cardinality(Measured(l)) = entered[l]
                        /\ Cumulative(hist[l])
                        /\ \A r \in Requests :
                             seen[r][l] <= hist[l].count + Cardinality(Recording(l))
      BY DEF IInv, MetricsExact
    <2>1. /\ total[l] + Cardinality(Uncounted(l)) = entered[l]
          /\ hist[l].count + Cardinality(Measured(l)) = entered[l]
          /\ Cumulative(hist[l])
          /\ total[l] \in Nat /\ hist[l].count \in Nat
      BY DEF CountInv, Balanced, TypeOK, Series
    <2>2. Cardinality(Measured(l)) = Cardinality(Uncounted(l)) + Cardinality(Recording(l))
      <3>1. IsFiniteSet(Measured(l)) /\ IsFiniteSet(Uncounted(l))
        BY MeasuredFacts, RequestsAssumption, FS_Subset
      <3>2. /\ IsFiniteSet(Measured(l) \ Uncounted(l))
            /\ Cardinality(Measured(l) \ Uncounted(l))
                 = Cardinality(Measured(l)) - Cardinality(Measured(l) \cap Uncounted(l))
        BY <3>1, FS_Difference
      <3>3. Measured(l) \cap Uncounted(l) = Uncounted(l)
        BY DEF Uncounted
      <3>4. Cardinality(Measured(l)) \in Nat /\ Cardinality(Uncounted(l)) \in Nat
        BY <3>1, FS_CardinalityType
      <3>5. QED
        BY <3>2, <3>3, <3>4 DEF Recording
    <2>3. /\ Cardinality(Measured(l)) \in Nat /\ Cardinality(Uncounted(l)) \in Nat
          /\ Cardinality(Recording(l)) \in Nat
      BY MeasuredFacts, RequestsAssumption, FS_Subset, FS_CardinalityType, FS_Difference DEF Recording
    <2>4. ASSUME NEW r \in Requests
          PROVE  seen[r][l] <= hist[l].count + Cardinality(Recording(l))
      <3>1. seen[r][l] <= total[l] /\ seen[r][l] \in Nat
        BY DEF CountInv, SeenBehind, TypeOK
      <3>2. QED
        BY <2>1, <2>2, <2>3, <3>1
    <2>5. QED
      BY <2>1, <2>4
  <1>2. Spec => []CountInv
    BY InitCounts, NextCounts, IInvAlways, PTL DEF Spec
  <1>3. QED
    BY <1>1, <1>2, IInvAlways, PTL
=============================================================================
