-------------------------- MODULE WsV1SessionProofs --------------------------
(***************************************************************************)
(* Proofs about the /v1/transcribe/stream connections, for any finite set  *)
(* of connections, any requests and triplets, any limits and sizes of      *)
(* messages.                                                               *)
(***************************************************************************)
EXTENDS WsV1SessionProps, FiniteSetTheorems, TLAPS

Users == Conns \union Requests

(***************************************************************************)
(* The lender, as its users see it: what a loan and a return do to who     *)
(* holds a triplet.                                                        *)
(***************************************************************************)
Has(u) == \E i \in Items : owner[i] = u
Owned == owner \in [Items -> Users \union {Shelf, Gone}]
OneEach == \A i, j \in Items : owner[i] = owner[j] /\ owner[i] # Shelf => i = j
NoneGone == \A i \in Items : owner[i] # Gone
Lent == Owned /\ OneEach /\ NoneGone

Borrowed(u) == Lent' /\ (\A v \in Users : Has(v)' <=> Has(v) \/ v = u)
Returned(u) == Lent' /\ (\A v \in Users : Has(v)' <=> Has(v) /\ v # u)

LEMMA LendStep ==
  ASSUME Lent, NEW u \in Users, NEW i \in Items, Lender!Lend(i, u)
  PROVE  Borrowed(u)
  <1>1. /\ owner[i] = Shelf /\ \A j \in Items : owner[j] # u
        /\ owner' = [owner EXCEPT ![i] = u]
    BY DEF Lender!Lend, Lender!HasNone
  <1>2. Shelf \notin Users /\ Gone \notin Users
    BY UsersAssumption DEF Users
  <1>3. QED
    BY <1>1, <1>2 DEF Borrowed, Lent, Owned, OneEach, NoneGone, Has

LEMMA ReturnStep ==
  ASSUME Lent, NEW u \in Users, GiveBack(u)
  PROVE  Returned(u)
  <1>1. PICK i \in Items : owner[i] = u /\ owner' = [owner EXCEPT ![i] = Shelf]
    BY DEF GiveBack, Lender!GiveBack
  <1>2. Shelf \notin Users /\ Gone \notin Users /\ Shelf # Gone
    BY UsersAssumption DEF Users
  <1>3. QED
    BY <1>1, <1>2 DEF Returned, Lent, Owned, OneEach, NoneGone, Has

-----------------------------------------------------------------------------
(***************************************************************************)
(* The inductive invariant.  Of one connection's record r:                 *)
(*                                                                         *)
(* Answered  what it was sent: Ready when it enters the loop, its answer   *)
(*           in the step that ends it.                                     *)
(* Balance   where its speech is.  A chunked pipeline has what it was fed  *)
(*           and what it kept in its text, its buffer and at work, but for *)
(*           what failures lost; a streaming one has it in text and        *)
(*           buffer, and after a failure no more than that.                *)
(* Balanced  that, and what each await point may leave in buffer and       *)
(*           flight.                                                       *)
(*                                                                         *)
(* A record has no triplet; that a connection has one exactly while it is  *)
(* inferring, and a permit exactly while it is served, is about the        *)
(* connections together.                                                   *)
(***************************************************************************)
Working == {"blocking", "checkout", "inferring"}

Answered(r) ==
  /\ r.answers = IF r.phase = "done" THEN 1 ELSE 0
  /\ r.phase = "done" => r.ready
  /\ r.phase = "crashed" => r.gone
  /\ r.phase \in {"admit", "build", "greet", "denied"} => ~r.ready
  /\ r.phase \in Served \ {"build", "greet"} => r.ready

Balance(r) ==
  /\ r.kind = "chunked" => r.text + r.buffer + r.flight + r.lost = r.fed + r.kept
  /\ r.kind = "streaming" =>
       r.text + r.buffer <= r.fed /\ (~r.failed => r.text + r.buffer = r.fed)

Balanced(r) ==
  /\ Balance(r)
  /\ r.phase \in {"admit", "build"} =>
       r.text = 0 /\ r.buffer = 0 /\ r.fed = 0 /\ r.lost = 0 /\ r.kept = 0
  /\ r.phase = "blocking" => r.kind = "streaming" /\ (r.op = "flush" => r.flight = 0)
  /\ r.phase \in {"checkout", "inferring"} =>
       r.kind = "chunked" /\ r.flight > 0 /\ (r.op = "flush" => r.buffer = 0)
  /\ r.phase \notin Working => r.flight = 0
  /\ r.phase = "finishing" /\ (r.kind = "chunked" \/ ~r.failed) => r.buffer = 0

Sound(r) == r \in Session /\ Answered(r) /\ Balanced(r)

Sounds == \A c \in Conns : Sound(conn[c])
Inferring == \A c \in Conns : Has(c) <=> At(c, "inferring")
Admitted == {c \in Conns : conn[c].phase \in Served}
PermitsOut == Cardinality(Admitted) + permits = MaxConns

IInv == TypeOK /\ Sounds /\ Lent /\ Inferring /\ PermitsOut

(* The properties follow from it.                                          *)
LEMMA IInvImplies ==
  IInv => StreamsBounded /\ OneAnswer /\ FinalComplete /\ TripletPerUtterance
  <1> SUFFICES ASSUME IInv
               PROVE  StreamsBounded /\ OneAnswer /\ FinalComplete /\ TripletPerUtterance
    OBVIOUS
  <1> USE DEF IInv
  <1>1. StreamsBounded
    BY DEF StreamsBounded, PermitsOut, Admitted
  <1>2. ASSUME NEW c \in Conns PROVE Answered(conn[c]) /\ Balanced(conn[c]) /\ conn[c] \in Session
    BY DEF Sounds, Sound
  <1>3. OneAnswer
    BY <1>2 DEF OneAnswer, Answered, At
  <1>4. FinalComplete
    <2> SUFFICES ASSUME NEW c \in Conns, At(c, "finishing")
                 PROVE  IF conn[c].kind = "chunked" THEN ChunkedFinal(conn[c])
                                                    ELSE StreamingFinal(conn[c])
      BY DEF FinalComplete
    <2> DEFINE r == conn[c]
    <2>1. /\ r.flight = 0 /\ Balance(r) /\ (r.kind = "chunked" \/ ~r.failed => r.buffer = 0)
          /\ r \in Session
      BY <1>2 DEF At, Balanced, Working
    <2>2. CASE r.kind = "chunked"
      BY <2>1, <2>2 DEF Session, Balance, ChunkedFinal
    <2>3. CASE r.kind = "streaming"
      BY <2>1, <2>3 DEF Session, Balance, StreamingFinal
    <2>4. QED
      BY <2>1, <2>2, <2>3 DEF Session
  <1>5. TripletPerUtterance
    BY <1>2 DEF TripletPerUtterance, Inferring, Has, Lent, OneEach, NoneGone, Balanced
  <1>6. QED
    BY <1>1, <1>3, <1>4, <1>5

-----------------------------------------------------------------------------
(***************************************************************************)
(* A step of one connection: its record becomes r.  Permits follow the     *)
(* phases that are served, triplets the phase that infers.                 *)
(***************************************************************************)
ServedFollows(c, r) ==
  \/ permits' = permits /\ (conn[c].phase \in Served <=> r.phase \in Served)
  \/ permits' = permits - 1 /\ permits > 0 /\ conn[c].phase \notin Served /\ r.phase \in Served
  \/ permits' = permits + 1 /\ conn[c].phase \in Served /\ r.phase \notin Served
TripletFollows(c, r) ==
  \/ UNCHANGED owner /\ (At(c, "inferring") <=> r.phase = "inferring")
  \/ Borrowed(c) /\ r.phase = "inferring"
  \/ Returned(c) /\ r.phase # "inferring"

ConnStep(c, r) ==
  /\ Sound(r)
  /\ conn' = [conn EXCEPT ![c] = r]
  /\ ServedFollows(c, r)
  /\ TripletFollows(c, r)
  /\ UNCHANGED others

(* Permits are conserved, by counting the connections that are served.     *)
LEMMA PermitsFollow ==
  ASSUME IInv, NEW c \in Conns, NEW r, ConnStep(c, r)
  PROVE  permits' \in 0 .. MaxConns /\ PermitsOut'
  <1> DEFINE new == Admitted'
  <1>1. IsFiniteSet(Admitted) /\ MaxConns \in Nat /\ permits \in Nat
    BY ConnsAssumption, LimitsAssumption, FS_Subset DEF Admitted, IInv, TypeOK
  <1>2. Cardinality(Admitted) \in Nat /\ Cardinality(Admitted) + permits = MaxConns
    BY <1>1, FS_CardinalityType DEF IInv, PermitsOut
  <1>3. c \in Admitted <=> conn[c].phase \in Served
    BY DEF Admitted
  <1>4. \A d \in Conns : conn'[d] = IF d = c THEN r ELSE conn[d]
    BY DEF ConnStep, IInv, TypeOK
  <1>5. new = IF r.phase \in Served THEN Admitted \union {c} ELSE Admitted \ {c}
    BY <1>4 DEF Admitted
  <1>6. CASE permits' = permits /\ (conn[c].phase \in Served <=> r.phase \in Served)
    <2>1. new = Admitted
      BY <1>3, <1>5, <1>6
    <2>2. QED
      BY <1>1, <1>2, <1>6, <2>1 DEF PermitsOut
  <1>7. CASE permits' = permits - 1 /\ permits > 0 /\ conn[c].phase \notin Served
             /\ r.phase \in Served
    <2>1. Cardinality(new) = Cardinality(Admitted) + 1
      BY <1>1, <1>3, <1>5, <1>7, FS_AddElement
    <2>2. QED
      BY <1>1, <1>2, <1>7, <2>1 DEF PermitsOut
  <1>8. CASE permits' = permits + 1 /\ conn[c].phase \in Served /\ r.phase \notin Served
    <2>1. Cardinality(new) = Cardinality(Admitted) - 1
      BY <1>1, <1>3, <1>5, <1>8, FS_RemoveElement
    <2>2. Cardinality(new) \in Nat
      BY <1>1, <1>5, FS_Subset, FS_CardinalityType, <1>8
    <2>3. QED
      BY <1>1, <1>2, <1>8, <2>1, <2>2 DEF PermitsOut
  <1>9. QED
    BY <1>6, <1>7, <1>8 DEF ConnStep, ServedFollows

LEMMA ConnStepKeeps ==
  ASSUME IInv, NEW c \in Conns, NEW r, ConnStep(c, r)
  PROVE  IInv'
  <1> USE DEF IInv
  <1>1. \A d \in Conns : conn'[d] = IF d = c THEN r ELSE conn[d]
    BY DEF ConnStep, TypeOK
  <1>2. Sounds'
    BY <1>1 DEF Sounds, ConnStep
  <1>3. conn' \in [Conns -> Session]
    BY DEF ConnStep, Sound, TypeOK
  <1>4. Lent' /\ Inferring'
    <2>1. CASE UNCHANGED owner /\ (At(c, "inferring") <=> r.phase = "inferring")
      BY <1>1, <2>1 DEF Lent, Owned, OneEach, NoneGone, Inferring, Has, At
    <2>2. CASE Borrowed(c) /\ r.phase = "inferring"
      BY <1>1, <2>2 DEF Borrowed, Inferring, At, Users
    <2>3. CASE Returned(c) /\ r.phase # "inferring"
      BY <1>1, <2>3 DEF Returned, Inferring, At, Users
    <2>4. QED
      BY <2>1, <2>2, <2>3 DEF ConnStep, TripletFollows
  <1>5. TypeOK'
    BY <1>3, <1>4, PermitsFollow DEF TypeOK, ConnStep, Lent, Owned, Users, others
  <1>6. QED
    BY <1>2, <1>4, <1>5, PermitsFollow

-----------------------------------------------------------------------------
(* Every step of a connection is of this kind. *)

(* What r0 becomes when only its phase changes.                            *)
LEMMA PhaseOnly ==
  ASSUME NEW r0 \in Session, NEW p \in Phases
  PROVE  LET r == [r0 EXCEPT !.phase = p] IN
         /\ r \in Session /\ r.phase = p
         /\ r.op = r0.op /\ r.kind = r0.kind /\ r.gone = r0.gone /\ r.speech = r0.speech
         /\ r.pending = r0.pending /\ r.buffer = r0.buffer /\ r.flight = r0.flight
         /\ r.text = r0.text /\ r.fed = r0.fed /\ r.lost = r0.lost /\ r.kept = r0.kept
         /\ r.failed = r0.failed /\ r.ready = r0.ready /\ r.answers = r0.answers /\ r.sent = r0.sent
  BY DEF Session

LEMMA GotoSteps ==
  ASSUME IInv, NEW c \in Conns,
         \/ AdmitTimeout(c) \/ Admit(c) \/ LoopTop(c) \/ RecvEnd(c) \/ RecvOther(c)
         \/ ReplyDone(c) \/ SendRefusal(c) \/ RecvStop(c)
  PROVE  \E r : ConnStep(c, r)
  <1> DEFINE r0 == conn[c]
  <1>1. r0 \in Session /\ Answered(r0) /\ Balanced(r0)
    BY DEF IInv, Sounds, Sound
  <1> USE DEF At, Goto, Become, shared
  <1>2. CASE Admit(c)
    <2> DEFINE r == [r0 EXCEPT !.phase = "build"]
    <2>1. r0.phase = "admit" /\ permits > 0 /\ permits' = permits - 1
          /\ conn' = [conn EXCEPT ![c] = r] /\ UNCHANGED <<owner, others>>
      BY <1>2 DEF Admit
    <2>2. Sound(r)
      <3>1. "build" \in Phases
        BY DEF Phases, Served
      <3>2. QED
        BY <1>1, <2>1, <3>1, PhaseOnly DEF Sound, Answered, Balanced, Balance, Working, Served
    <2>3. ConnStep(c, r)
      BY <1>1, <2>1, <2>2, PhaseOnly DEF ConnStep, ServedFollows, TripletFollows, Served, others
    <2>4. QED
      BY <2>3
  <1>3. CASE ~Admit(c)
    <2>1. PICK p \in Phases :
            /\ conn' = [conn EXCEPT ![c] = [r0 EXCEPT !.phase = p]]
            /\ \/ r0.phase = "admit" /\ p = "denied"
               \/ /\ r0.phase \in {"top", "recv", "replying", "partial", "refusing"}
                  /\ p \in {"top", "recv", "flush", "replying"}
            /\ UNCHANGED shared
      BY <1>3 DEF AdmitTimeout, LoopTop, RecvEnd, RecvOther, ReplyDone, SendRefusal, RecvStop,
                  Phases, Served, Ended
    <2> DEFINE r == [r0 EXCEPT !.phase = p]
    <2>2. Sound(r)
      BY <1>1, <2>1, PhaseOnly DEF Sound, Answered, Balanced, Balance, Working, Served
    <2>3. ConnStep(c, r)
      BY <1>1, <2>1, <2>2, PhaseOnly DEF ConnStep, ServedFollows, TripletFollows, Served, shared, others
    <2>4. QED
      BY <2>3
  <1>4. QED
    BY <1>2, <1>3

(* The end of a task drops its locals; what was answered stays answered.   *)
LEMMA DroppedFacts ==
  ASSUME NEW r \in Session, NEW p \in Ended
  PROVE  LET d == [Dropped(r) EXCEPT !.phase = p] IN
         /\ d \in Session /\ d.phase = p
         /\ d.gone = r.gone /\ d.ready = r.ready /\ d.answers = r.answers
         /\ d.kind = "chunked" /\ d.buffer = 0 /\ d.flight = 0 /\ d.text = 0 /\ d.fed = 0
        /\ d.lost = 0 /\ d.kept = 0
  <1> DEFINE s == Dropped(r)
  <1>1. /\ Fresh \in Session /\ Fresh.kind = "chunked" /\ Fresh.buffer = 0
        /\ Fresh.flight = 0 /\ Fresh.text = 0 /\ Fresh.fed = 0
        /\ Fresh.lost = 0 /\ Fresh.kept = 0
    BY LimitsAssumption DEF Fresh, Session, Phases
  <1>2. /\ s \in Session /\ s.gone = r.gone /\ s.ready = r.ready /\ s.answers = r.answers
        /\ s.kind = "chunked" /\ s.buffer = 0 /\ s.flight = 0 /\ s.text = 0 /\ s.fed = 0
        /\ s.lost = 0 /\ s.kept = 0
    BY <1>1 DEF Dropped, Session
  <1>3. p \in Phases
    BY DEF Phases
  <1>4. QED
    BY <1>2, <1>3, PhaseOnly

LEMMA EndStep ==
  ASSUME IInv, NEW c \in Conns, NEW r \in Session, NEW p \in Ended, End(c, p, r),
         UNCHANGED <<owner, others>>,
         conn[c].phase \in Served \ {"inferring"},
         r.answers = IF p = "done" THEN 1 ELSE 0,
         p = "done" => r.ready, p = "crashed" => r.gone,
         p = "denied" => ~r.ready
  PROVE  \E d : ConnStep(c, d)
  <1> DEFINE d == [Dropped(r) EXCEPT !.phase = p]
  <1>1. /\ d \in Session /\ d.phase = p
        /\ d.gone = r.gone /\ d.ready = r.ready /\ d.answers = r.answers
        /\ d.kind = "chunked" /\ d.buffer = 0 /\ d.flight = 0 /\ d.text = 0 /\ d.fed = 0
        /\ d.lost = 0 /\ d.kept = 0
    BY DroppedFacts
  <1>2. conn' = [conn EXCEPT ![c] = d] /\ permits' = permits + 1
    BY DEF End, Become
  <1> HIDE DEF d
  <1>3. Sound(d)
    BY <1>1 DEF Sound, Answered, Balanced, Balance, Working, Served, Ended
  <1>4. ConnStep(c, d)
    BY <1>1, <1>2, <1>3 DEF ConnStep, ServedFollows, TripletFollows, Served, Ended, At
  <1>5. QED
    BY <1>4

LEMMA OpeningSteps ==
  ASSUME IInv, NEW c \in Conns, Build(c) \/ SendReady(c)
  PROVE  \E r : ConnStep(c, r)
  <1> DEFINE r0 == conn[c]
  <1>1. r0 \in Session /\ Answered(r0) /\ Balanced(r0)
    BY DEF IInv, Sounds, Sound
  <1>2. CASE End(c, "denied", r0) /\ UNCHANGED <<owner, others>>
    <2>1. r0.phase \in {"build", "greet"}
      BY DEF Build, SendReady, At
    <2>2. QED
      BY <1>1, <1>2, <2>1, EndStep DEF Answered, Served, Ended
  <1>3. CASE ~(End(c, "denied", r0) /\ UNCHANGED <<owner, others>>)
    <2>1. PICK r \in Session :
            /\ conn' = [conn EXCEPT ![c] = r] /\ UNCHANGED shared
            /\ \/ r0.phase = "build" /\ r.phase = "greet" /\ r.ready = r0.ready
               \/ r0.phase = "greet" /\ r.phase = "top" /\ r.ready
            /\ r.kind \in {"streaming", "chunked"} /\ r.failed = r0.failed
            /\ r.buffer = r0.buffer /\ r.flight = r0.flight /\ r.text = r0.text
            /\ r.fed = r0.fed /\ r.lost = r0.lost /\ r.kept = r0.kept
            /\ r.answers = r0.answers /\ (r0.phase = "greet" => r.kind = r0.kind)
      <3>1. CASE Build(c)
        <4>1. PICK k \in {"streaming", "chunked"} : Become(c, "greet", [r0 EXCEPT !.kind = k])
          BY <1>3, <3>1 DEF Build
        <4>2. [[r0 EXCEPT !.kind = k] EXCEPT !.phase = "greet"] \in Session
          BY <1>1 DEF Session, Phases, Served
        <4>3. UNCHANGED shared /\ r0.phase = "build"
          BY <1>3, <3>1 DEF Build, At
        <4>4. QED
          BY <1>1, <4>1, <4>2, <4>3 DEF Become, Session
      <3>2. CASE SendReady(c)
        <4>1. Become(c, "top", [r0 EXCEPT !.ready = TRUE])
          BY <1>3, <3>2 DEF SendReady
        <4>2. [[r0 EXCEPT !.ready = TRUE] EXCEPT !.phase = "top"] \in Session
          BY <1>1 DEF Session, Phases, Served
        <4>3. UNCHANGED shared /\ r0.phase = "greet"
          BY <1>3, <3>2 DEF SendReady, At
        <4>4. QED
          BY <1>1, <4>1, <4>2, <4>3 DEF Become, Session
      <3>3. QED
        BY <3>1, <3>2
    <2>2. r0.flight = 0
      BY <1>1, <2>1 DEF Balanced, Working
    <2>3. Sound(r)
      <3>1. Balance(r)
        <4>1. CASE r0.phase = "build"
          <5>1. /\ r0.text = 0 /\ r0.buffer = 0 /\ r0.fed = 0 /\ r0.lost = 0 /\ r0.kept = 0
            BY <1>1, <4>1 DEF Balanced
          <5>2. QED
            BY <2>1, <2>2, <5>1 DEF Balance
        <4>2. CASE r0.phase = "greet"
          BY <1>1, <2>1, <4>2 DEF Balanced, Balance
        <4>3. QED
          BY <2>1, <4>1, <4>2
      <3>2. QED
        BY <1>1, <2>1, <2>2, <3>1 DEF Sound, Answered, Balanced, Working, Served
    <2>4. ConnStep(c, r)
      BY <2>1, <2>3 DEF ConnStep, ServedFollows, TripletFollows, Served, shared, others, At
    <2>5. QED
      BY <2>4
  <1>4. QED
    BY <1>2, <1>3

(* A step inside the session, that moves neither permit nor triplet.       *)
LEMMA ServedStep ==
  ASSUME IInv, NEW c \in Conns, NEW r, Sound(r),
         conn' = [conn EXCEPT ![c] = r], UNCHANGED shared,
         conn[c].phase \in Served \ {"inferring"}, r.phase \in Served \ {"inferring"}
  PROVE  \E s : ConnStep(c, s)
  <1>1. ConnStep(c, r)
    BY DEF ConnStep, ServedFollows, TripletFollows, shared, others, At
  <1>2. QED
    BY <1>1

(* The counters are numbers; what a record keeps while the phase changes.  *)
Idle(r) ==
  r \in Session /\ r.ready /\ r.answers = 0 /\ r.flight = 0 /\ Balance(r)

LEMMA IdleRecord ==
  ASSUME IInv, NEW c \in Conns,
         conn[c].phase \in {"top", "recv", "replying", "partial", "flush", "finishing"}
  PROVE  Idle(conn[c]) /\ conn[c].phase \in Served \ {"inferring"}
  <1>1. conn[c] \in Session /\ Answered(conn[c]) /\ Balanced(conn[c])
    BY DEF IInv, Sounds, Sound
  <1>2. conn[c].flight = 0
    BY <1>1 DEF Balanced, Working
  <1>3. QED
    BY <1>1, <1>2 DEF Answered, Balanced, Idle, Served

(* A record that is idle is sound in every phase that is.                  *)
LEMMA IdleSound ==
  ASSUME NEW r0, Idle(r0), NEW p \in {"top", "recv", "replying", "partial", "refusing", "flush"}
  PROVE  Sound([r0 EXCEPT !.phase = p]) /\ [r0 EXCEPT !.phase = p].phase = p
  <1> DEFINE r == [r0 EXCEPT !.phase = p]
  <1>1. /\ r \in Session /\ r.phase = p /\ r.flight = 0 /\ r.ready /\ r.answers = 0
        /\ r.text = r0.text /\ r.fed = r0.fed /\ r.buffer = r0.buffer /\ r.failed = r0.failed
        /\ r.lost = r0.lost /\ r.kept = r0.kept /\ r.kind = r0.kind /\ r0.flight = 0
    BY PhaseOnly DEF Idle, Phases, Served
  <1>2. Balance(r)
    BY <1>1 DEF Idle, Balance
  <1>3. Balanced(r)
    BY <1>1, <1>2 DEF Balanced, Working
  <1>4. Answered(r)
    BY <1>1 DEF Answered
  <1>5. QED
    BY <1>1, <1>3, <1>4 DEF Sound

LEMMA TakePipelineStep ==
  ASSUME IInv, NEW c \in Conns, NEW op \in {"accept", "flush"}, NEW r, NEW n \in Nat,
         TakePipeline(c, op, r, n), UNCHANGED <<owner, others>>,
         Idle(r), r.kind = "streaming", op = "flush" => n = 0,
         conn[c].phase \in {"recv", "flush"}
  PROVE  \E s : ConnStep(c, s)
  <1>1. CASE ~r.gone
    <2> DEFINE t == [[r EXCEPT !.op = op, !.flight = n] EXCEPT !.phase = "blocking"]
    <2>1. conn' = [conn EXCEPT ![c] = t] /\ UNCHANGED shared
      BY <1>1 DEF TakePipeline, Become, shared, others
    <2>2. /\ t \in Session /\ t.phase = "blocking" /\ t.op = op /\ t.flight = n
          /\ t.kind = "streaming" /\ t.ready /\ t.answers = 0
          /\ t.text = r.text /\ t.fed = r.fed /\ t.buffer = r.buffer /\ t.failed = r.failed
      BY DEF Idle, Session, Phases, Served
    <2> HIDE DEF t
    <2>3. Balance(t)
      BY <2>2 DEF Idle, Balance
    <2>4. Sound(t)
      BY <2>2, <2>3 DEF Sound, Answered, Balanced, Working
    <2>5. QED
      BY <2>1, <2>2, <2>4, ServedStep DEF Served
  <1>2. CASE r.gone
    <2>1. End(c, "crashed", r)
      BY <1>2 DEF TakePipeline
    <2>2. QED
      BY <1>2, <2>1, EndStep DEF Idle, Served, Ended
  <1>3. QED
    BY <1>1, <1>2

LEMMA TakeBufferStep ==
  ASSUME IInv, NEW c \in Conns, NEW op \in {"accept", "flush"}, NEW r,
         TakeBuffer(c, op, r), UNCHANGED shared,
         Idle(r), r.kind = "chunked", r.buffer > 0,
         conn[c].phase \in {"recv", "flush"}
  PROVE  \E s : ConnStep(c, s)
  <1> DEFINE t == [[r EXCEPT !.op = op, !.flight = r.buffer, !.buffer = 0] EXCEPT !.phase = "checkout"]
  <1>1. conn' = [conn EXCEPT ![c] = t]
    BY DEF TakeBuffer, Become
  <1>2. /\ t \in Session /\ t.phase = "checkout" /\ t.op = op /\ t.flight = r.buffer
        /\ t.buffer = 0 /\ t.kind = "chunked" /\ t.ready /\ t.answers = 0
        /\ t.text = r.text /\ t.fed = r.fed /\ t.lost = r.lost /\ t.kept = r.kept
    BY DEF Idle, Session, Phases, Served
  <1> HIDE DEF t
  <1>3. Balance(t)
    <2>1. /\ r.text + r.buffer + r.flight + r.lost = r.fed + r.kept
          /\ r.flight = 0 /\ r.buffer \in Nat /\ r.text \in Nat /\ r.lost \in Nat
      BY DEF Idle, Balance, Session
    <2>2. QED
      BY <1>2, <2>1 DEF Balance
  <1>4. Sound(t)
    BY <1>2, <1>3 DEF Sound, Answered, Balanced, Working
  <1>5. QED
    BY <1>1, <1>2, <1>4, ServedStep DEF Served

LEMMA CountedIdle ==
  ASSUME NEW c, Idle(conn[c]), NEW n \in Nat, conn[c].sent + n <= MaxAudio
  PROVE  LET r == Counted(c, n) IN
         /\ Idle(r) /\ r.kind = conn[c].kind
         /\ r.buffer = conn[c].buffer /\ r.speech = conn[c].speech
         /\ r.fed = conn[c].fed /\ r.text = conn[c].text /\ r.failed = conn[c].failed
         /\ r.lost = conn[c].lost /\ r.kept = conn[c].kept
  <1> DEFINE r0 == conn[c]
             r == Counted(c, n)
  <1>1. r0.pending + n \in Nat /\ r0.sent + n \in 0 .. MaxAudio /\ r0 \in Session
    BY LimitsAssumption DEF Idle, Session
  <1>2. /\ r \in Session /\ r.kind = r0.kind /\ r.buffer = r0.buffer
        /\ r.speech = r0.speech /\ r.fed = r0.fed /\ r.text = r0.text
        /\ r.failed = r0.failed /\ r.ready = r0.ready /\ r.answers = r0.answers
        /\ r.flight = r0.flight /\ r.lost = r0.lost /\ r.kept = r0.kept
    BY <1>1 DEF Counted, Session
  <1>3. QED
    BY <1>2 DEF Idle, Balance

LEMMA StreamAudioStep ==
  ASSUME IInv, NEW c \in Conns, NEW n \in Chunks, RecvTooMuch(c, n) \/ StreamAudio(c, n)
  PROVE  \E r : ConnStep(c, r)
  <1> DEFINE r0 == conn[c]
  <1>1. n \in Nat /\ r0.phase = "recv"
    BY ChunksAssumption DEF RecvTooMuch, StreamAudio, RecvAudio, At
  <1>2. Idle(r0)
    BY <1>1, IdleRecord
  <1>3. CASE RecvTooMuch(c, n)
    <2> DEFINE r == [r0 EXCEPT !.pending = @ + n]
                t == [r EXCEPT !.phase = "refusing"]
    <2>1. Idle(r)
      <3>0. r0 \in Session /\ r0.pending + n \in Nat
        BY <1>1, <1>2 DEF Idle, Session
      <3>1. /\ r \in Session /\ r.kind = r0.kind /\ r.buffer = r0.buffer /\ r.fed = r0.fed
            /\ r.text = r0.text /\ r.failed = r0.failed /\ r.ready = r0.ready
            /\ r.answers = r0.answers /\ r.flight = r0.flight /\ r.lost = r0.lost
            /\ r.kept = r0.kept
        BY <3>0 DEF Session
      <3>2. QED
        BY <1>2, <3>1 DEF Idle, Balance
    <2>2. Sound(t) /\ t.phase = "refusing"
      BY <2>1, IdleSound
    <2>3. conn' = [conn EXCEPT ![c] = t] /\ UNCHANGED shared
      BY <1>3 DEF RecvTooMuch, Become
    <2>4. QED
      BY <1>1, <2>2, <2>3, ServedStep DEF Served
  <1>4. CASE StreamAudio(c, n)
    <2> DEFINE r == Counted(c, n)
    <2>1. r0.sent + n <= MaxAudio /\ r0.kind = "streaming"
          /\ TakePipeline(c, "accept", r, n) /\ UNCHANGED <<owner, others>>
      BY <1>4 DEF StreamAudio, RecvAudio
    <2>2. Idle(r) /\ r.kind = "streaming"
      BY <1>1, <1>2, <2>1, CountedIdle
    <2>3. QED
      BY <1>1, <2>1, <2>2, TakePipelineStep
  <1>5. QED
    BY <1>3, <1>4

(* A pipeline at work on a blocking thread is a streaming one.             *)
LEMMA BlockingRecord ==
  ASSUME IInv, NEW c \in Conns, At(c, "blocking")
  PROVE  LET r0 == conn[c] IN
         /\ r0 \in Session /\ r0.phase = "blocking" /\ r0.ready /\ r0.answers = 0
         /\ r0.kind = "streaming" /\ r0.flight \in Nat
         /\ Balance(r0) /\ (r0.op = "flush" => r0.flight = 0)
  <1> DEFINE r0 == conn[c]
  <1>1. r0 \in Session /\ Answered(r0) /\ Balanced(r0) /\ r0.phase = "blocking"
    BY DEF IInv, Sounds, Sound, At
  <1>2. QED
    BY <1>1 DEF Answered, Balanced, Session, Served

(* What the detector says, and the extractor takes, is counted in units.   *)
LEMMA DetectedFacts ==
  ASSUME NEW was \in BOOLEAN, NEW n \in Nat, NEW h \in Detected(was, n)
  PROVE  h.speech \in Nat /\ h.now \in BOOLEAN
         /\ \A f \in BOOLEAN : Taken(h.speech, f) \subseteq Nat
  BY DEF Detected, Taken

(* A pipeline keeps its balance through a call, and loses none of it but   *)
(* by a failure.                                                           *)
LEMMA AcceptKeepsBalance ==
  ASSUME NEW r, Idle(r), r.kind = "streaming", NEW now \in BOOLEAN,
         NEW speech \in Nat, NEW taken \in Taken(speech, r.failed),
         NEW rest \in 0 .. (r.buffer + taken)
  PROVE  Idle(AfterAccept(r, now, taken, rest))
  <1>1. /\ r \in Session /\ r.buffer \in Nat /\ r.text \in Nat /\ r.fed \in Nat
        /\ r.failed \in BOOLEAN
    BY DEF Idle, Session
  <1>2. taken \in Nat /\ rest \in Nat /\ rest <= r.buffer + taken
    BY <1>1 DEF Taken
  <1> DEFINE t == AfterAccept(r, now, taken, rest)
  <1>3. CASE r.speech /\ ~now
    <2>1. /\ t \in Session /\ t.ready = r.ready /\ t.answers = r.answers
          /\ t.flight = r.flight /\ t.buffer = 0 /\ t.text = 0 /\ t.fed = 0
          /\ t.kind = r.kind
      BY <1>1, <1>3 DEF AfterAccept, AfterReset, Session
    <2> HIDE DEF t
    <2>2. Idle(t)
      BY <2>1 DEF Idle, Balance
    <2>3. QED
      BY <2>2 DEF t
  <1>4. CASE ~(r.speech /\ ~now)
    <2>1. r.fed + taken \in Nat /\ r.text + r.buffer + taken - rest \in Nat
      BY <1>1, <1>2
    <2>2. /\ t \in Session /\ t.ready = r.ready /\ t.answers = r.answers
          /\ t.flight = r.flight /\ t.failed = r.failed /\ t.buffer = rest
          /\ t.text = r.text + r.buffer + taken - rest /\ t.fed = r.fed + taken
          /\ t.kind = r.kind
      BY <1>1, <1>2, <1>4, <2>1 DEF AfterAccept, Session
    <2> HIDE DEF t
    <2>3. r.text + r.buffer <= r.fed /\ (~r.failed => r.text + r.buffer = r.fed)
      BY DEF Idle, Balance
    <2>4. Balance(t)
      <3>1. t.text + t.buffer = (r.text + r.buffer) + taken
        BY <1>1, <1>2, <2>2
      <3>2. t.text + t.buffer <= t.fed /\ (~t.failed => t.text + t.buffer = t.fed)
        BY <1>1, <1>2, <2>2, <2>3, <3>1
      <3>3. QED
        BY <2>2, <3>2 DEF Balance
    <2>5. Idle(t)
      BY <2>2, <2>4 DEF Idle
    <2>6. QED
      BY <2>5 DEF t
  <1>5. QED
    BY <1>3, <1>4

LEMMA StreamAcceptedStep ==
  ASSUME IInv, NEW c \in Conns, StreamAccepted(c)
  PROVE  \E r : ConnStep(c, r)
  <1> DEFINE r0 == conn[c]
             r == [r0 EXCEPT !.flight = 0]
  <1>1. /\ r0 \in Session /\ r0.phase = "blocking" /\ r0.ready /\ r0.answers = 0
        /\ r0.kind = "streaming" /\ r0.flight \in Nat /\ Balance(r0)
    BY BlockingRecord DEF StreamAccepted
  <1>2. /\ r \in Session /\ r.speech = r0.speech /\ r.buffer = r0.buffer
        /\ r.text = r0.text /\ r.fed = r0.fed /\ r.failed = r0.failed /\ r.flight = 0
        /\ r.ready = r0.ready /\ r.answers = r0.answers /\ r.kind = r0.kind
        /\ r.speech \in BOOLEAN
    BY <1>1 DEF Session
  <1>3. UNCHANGED shared
    BY DEF StreamAccepted
  <1>4. PICK h \in Detected(r.speech, r0.flight) : \E taken \in Taken(h.speech, r.failed) :
          \E rest \in 0 .. (r.buffer + taken), p \in {"partial", "top"} :
            Become(c, p, AfterAccept(r, h.now, taken, rest))
    BY DEF StreamAccepted
  <1> HIDE DEF r
  <1>5. h.speech \in Nat /\ h.now \in BOOLEAN
    BY <1>1, <1>2, DetectedFacts
  <1>6. PICK taken \in Taken(h.speech, r.failed) : \E rest \in 0 .. (r.buffer + taken) :
          \E p \in {"partial", "top"} : Become(c, p, AfterAccept(r, h.now, taken, rest))
    BY <1>4
  <1>7. PICK rest \in 0 .. (r.buffer + taken) :
          \E p \in {"partial", "top"} : Become(c, p, AfterAccept(r, h.now, taken, rest))
    BY <1>6
  <1>8. PICK p \in {"partial", "top"} : Become(c, p, AfterAccept(r, h.now, taken, rest))
    BY <1>7
  <1> DEFINE t == AfterAccept(r, h.now, taken, rest)
  <1>9. Idle(r) /\ r.kind = "streaming"
    BY <1>1, <1>2 DEF Idle, Balance
  <1>10. Idle(t)
    BY <1>5, <1>9, AcceptKeepsBalance
  <1> HIDE DEF t
  <1>11. Sound([t EXCEPT !.phase = p]) /\ [t EXCEPT !.phase = p].phase = p
    BY <1>10, IdleSound
  <1>12. conn' = [conn EXCEPT ![c] = [t EXCEPT !.phase = p]]
    BY <1>8 DEF Become, t
  <1>13. QED
    BY <1>1, <1>3, <1>11, <1>12, ServedStep DEF Served

(* An operation that failed leaves a record that balances; a chunked flush *)
(* that failed has emptied the buffer all the same.                        *)
LEMMA FailedSound ==
  ASSUME NEW r, Idle(r), r.failed, NEW p \in {"finishing", "replying"},
         r.kind = "chunked" /\ p = "finishing" => r.buffer = 0
  PROVE  Sound([r EXCEPT !.phase = p]) /\ [r EXCEPT !.phase = p].phase = p
  <1> DEFINE t == [r EXCEPT !.phase = p]
  <1>1. /\ t \in Session /\ t.phase = p /\ t.failed /\ t.flight = 0 /\ t.ready
        /\ t.answers = 0 /\ t.buffer = r.buffer /\ t.kind = r.kind
        /\ t.text = r.text /\ t.fed = r.fed /\ t.lost = r.lost /\ t.kept = r.kept
    BY PhaseOnly DEF Idle, Phases, Served
  <1>2. Balance(t)
    BY <1>1 DEF Idle, Balance
  <1>3. QED
    BY <1>1, <1>2 DEF Sound, Answered, Balanced, Working

LEMMA StreamOtherSteps ==
  ASSUME IInv, NEW c \in Conns, StreamFlushed(c) \/ StreamFailed(c) \/ StreamPanicked(c)
  PROVE  \E r : ConnStep(c, r)
  <1> DEFINE r0 == conn[c]
  <1>1. /\ r0 \in Session /\ r0.phase = "blocking" /\ r0.ready /\ r0.answers = 0
        /\ r0.kind = "streaming" /\ r0.flight \in Nat
        /\ Balance(r0) /\ (r0.op = "flush" => r0.flight = 0)
    BY BlockingRecord DEF StreamFlushed, StreamFailed, StreamPanicked
  <1>2. UNCHANGED shared
    BY DEF StreamFlushed, StreamFailed, StreamPanicked
  <1>3. CASE StreamFlushed(c)
    <2> DEFINE t == [[AfterFlush(r0, 0) EXCEPT !.buffer = 0] EXCEPT !.phase = "finishing"]
    <2>1. conn' = [conn EXCEPT ![c] = t] /\ r0.op = "flush"
      BY <1>3 DEF StreamFlushed, Become
    <2>2. /\ t \in Session /\ t.phase = "finishing" /\ t.ready /\ t.answers = 0
          /\ t.flight = 0 /\ t.buffer = 0 /\ t.text = r0.text + r0.buffer
          /\ t.fed = r0.fed /\ t.failed = r0.failed /\ t.kind = r0.kind
      <3>1. /\ r0.text \in Nat /\ r0.buffer \in Nat /\ r0.flight = 0
            /\ r0.text + r0.buffer \in Nat
        BY <1>1, <2>1 DEF Session
      <3> DEFINE q == [r0 EXCEPT !.text = r0.text + r0.buffer]
      <3>6. AfterFlush(r0, 0) = q
        BY <1>1, <3>1 DEF AfterFlush, Session
      <3>5. /\ q \in Session /\ q.text = r0.text + r0.buffer /\ q.ready = r0.ready
            /\ q.answers = r0.answers /\ q.flight = r0.flight /\ q.fed = r0.fed
            /\ q.failed = r0.failed /\ q.kind = r0.kind
        BY <1>1, <3>1 DEF Session
      <3> HIDE DEF q
      <3>2. "finishing" \in Phases
        BY DEF Phases, Served
      <3>3. /\ t = [[q EXCEPT !.buffer = 0] EXCEPT !.phase = "finishing"]
            /\ q.flight = 0 /\ q.ready /\ q.answers = 0
        BY <1>1, <3>1, <3>5, <3>6
      <3> HIDE DEF t
      <3>4. QED
        BY <3>2, <3>3, <3>5 DEF Session
    <2> HIDE DEF t
    <2>3. Balance(t)
      <3>1. /\ r0.text + r0.buffer <= r0.fed /\ (~r0.failed => r0.text + r0.buffer = r0.fed)
            /\ r0.text \in Nat /\ r0.buffer \in Nat
        BY <1>1 DEF Balance, Session
      <3>2. QED
        BY <1>1, <2>2, <3>1 DEF Balance
    <2>4. Sound(t)
      BY <2>2, <2>3 DEF Sound, Answered, Balanced, Working
    <2>5. QED
      BY <1>1, <1>2, <2>1, <2>2, <2>4, ServedStep DEF Served
  <1>4. CASE StreamFailed(c) \/ StreamPanicked(c)
    <2> DEFINE text == r0.text
               buffer == r0.buffer
               fed == r0.fed
    <2>0. /\ text + buffer <= fed /\ text \in Nat /\ buffer \in Nat /\ fed \in Nat
      BY <1>1 DEF Balance, Session
    <2>1. PICK r : /\ Become(c, AfterError(c), r) /\ Idle(r) /\ r.failed
                   /\ r.kind = "streaming"
      <3>1. CASE StreamFailed(c)
        <4> DEFINE q == [r0 EXCEPT !.failed = TRUE, !.flight = 0]
        <4>1. /\ q \in Session /\ q.failed = TRUE /\ q.flight = 0 /\ q.speech = r0.speech
              /\ q.buffer = r0.buffer /\ q.text = r0.text /\ q.fed = r0.fed
              /\ q.ready = r0.ready /\ q.answers = r0.answers /\ q.kind = r0.kind
          BY <1>1 DEF Session
        <4>2. PICK h \in Detected(q.speech, r0.flight) :
                \E taken \in Taken(h.speech, r0.failed) :
                  \E rest \in 0 .. (q.buffer + taken) :
                    \E more \in 0 .. (q.buffer + taken - rest) :
                      Become(c, AfterError(c), AfterFailure(q, h.now, taken, rest, more))
          BY <3>1 DEF StreamFailed
        <4> HIDE DEF q
        <4>3. /\ q.speech \in BOOLEAN /\ r0.failed \in BOOLEAN
              /\ q.buffer \in Nat /\ q.text \in Nat /\ q.fed \in Nat
          BY <1>1, <4>1 DEF Session
        <4>4. h.speech \in Nat /\ h.now \in BOOLEAN /\ Taken(h.speech, r0.failed) \subseteq Nat
          BY <1>1, <4>3, DetectedFacts
        <4>5. PICK taken \in Nat : \E rest \in 0 .. (q.buffer + taken) :
                \E more \in 0 .. (q.buffer + taken - rest) :
                  Become(c, AfterError(c), AfterFailure(q, h.now, taken, rest, more))
          BY <4>2, <4>4
        <4>6. PICK rest \in 0 .. (q.buffer + taken) :
                \E more \in 0 .. (q.buffer + taken - rest) :
                  Become(c, AfterError(c), AfterFailure(q, h.now, taken, rest, more))
          BY <4>5
        <4>7. PICK more \in 0 .. (q.buffer + taken - rest) :
                Become(c, AfterError(c), AfterFailure(q, h.now, taken, rest, more))
          BY <4>6
        <4> DEFINE r == AfterFailure(q, h.now, taken, rest, more)
        <4>8. rest \in Nat /\ q.fed + taken \in Nat /\ q.text + more \in Nat
          BY <4>3, <4>5, <4>6, <4>7
        <4>9. r \in Session /\ r.failed = TRUE /\ r.flight = 0 /\ r.ready = q.ready
              /\ r.answers = q.answers /\ r.kind = q.kind
              /\ r.buffer = rest /\ r.text = q.text + more /\ r.fed = q.fed + taken
          BY <4>1, <4>3, <4>4, <4>8 DEF AfterFailure, Session
        <4> HIDE DEF r
        <4>10. r.text + r.buffer <= r.fed
          <5>1. more + rest <= buffer + taken
            BY <2>0, <4>1, <4>5, <4>6, <4>7
          <5>2. more \in Nat
            BY <2>0, <4>1, <4>5, <4>6, <4>7
          <5>3. QED
            BY <2>0, <4>1, <4>5, <4>8, <4>9, <5>1, <5>2
        <4>11. Idle(r) /\ r.failed /\ r.kind = "streaming"
          BY <1>1, <4>1, <4>9, <4>10 DEF Idle, Balance
        <4>12. QED
          BY <4>7, <4>11 DEF r
      <3>2. CASE StreamPanicked(c)
        <4> DEFINE r == [r0 EXCEPT !.failed = TRUE, !.gone = TRUE, !.flight = 0, !.buffer = 0]
        <4>1. /\ r \in Session /\ r.failed /\ r.flight = 0 /\ r.ready /\ r.answers = 0
              /\ r.kind = "streaming" /\ r.buffer = 0 /\ r.text = r0.text /\ r.fed = r0.fed
          <5>1. r \in Session
            BY <1>1 DEF Session
          <5>2. r.failed /\ r.flight = 0 /\ r.buffer = 0
            BY <1>1 DEF Session
          <5>3. /\ r.ready = r0.ready /\ r.answers = r0.answers /\ r.kind = r0.kind
                /\ r.text = r0.text /\ r.fed = r0.fed
            BY <1>1 DEF Session
          <5>4. QED
            BY <1>1, <5>1, <5>2, <5>3
        <4> HIDE DEF r
        <4>2. Idle(r)
          <5>1. r.text + r.buffer <= r.fed
            BY <2>0, <4>1
          <5>2. QED
            BY <4>1, <5>1 DEF Idle, Balance
        <4>3. QED
          BY <3>2, <4>1, <4>2 DEF StreamPanicked, r
      <3>3. QED
        BY <1>4, <3>1, <3>2
    <2>2. AfterError(c) \in {"finishing", "replying"}
      BY DEF AfterError
    <2>3. PICK p \in {"finishing", "replying"} : Become(c, p, r)
      BY <2>1, <2>2
    <2>4. Sound([r EXCEPT !.phase = p]) /\ [r EXCEPT !.phase = p].phase = p
      BY <2>1, FailedSound
    <2>5. QED
      BY <1>1, <1>2, <2>3, <2>4, ServedStep DEF Become, Served
  <1>5. QED
    BY <1>3, <1>4

LEMMA ChunkedAudioStep ==
  ASSUME IInv, NEW c \in Conns, NEW n \in Chunks, ChunkedAudio(c, n)
  PROVE  \E r : ConnStep(c, r)
  <1> DEFINE r0 == conn[c]
             q == Counted(c, n)
  <1>1. /\ n \in Nat /\ r0.phase = "recv" /\ r0.kind = "chunked"
        /\ r0.sent + n <= MaxAudio /\ UNCHANGED shared
    BY ChunksAssumption DEF ChunkedAudio, RecvAudio, At, shared, others
  <1>2. Idle(r0)
    BY <1>1, IdleRecord
  <1>3. Idle(q) /\ q.kind = "chunked" /\ q.buffer = r0.buffer /\ q.fed = r0.fed
    BY <1>1, <1>2, CountedIdle
  <1>4. PICK h \in Heard(r0.speech, n) :
          LET r == [q EXCEPT !.speech = h.now, !.buffer = @ + h.speech, !.fed = @ + h.speech]
          IN IF /\ (r0.speech /\ ~h.now) \/ r.buffer > MaxSpeech
                /\ r.buffer > 0
             THEN TakeBuffer(c, "accept", r)
             ELSE Become(c, "top", r)
    BY DEF ChunkedAudio
  <1> DEFINE r == [q EXCEPT !.speech = h.now, !.buffer = @ + h.speech, !.fed = @ + h.speech]
  <1>5. h.speech \in Nat /\ h.now \in BOOLEAN
    BY <1>1 DEF Heard, Detected
  <1>6. Idle(r) /\ r.kind = "chunked"
    <2>1. /\ q \in Session /\ q.buffer + h.speech \in Nat /\ q.fed + h.speech \in Nat
          /\ q.buffer \in Nat /\ q.fed \in Nat /\ q.text \in Nat /\ q.lost \in Nat
          /\ q.kept \in Nat /\ q.flight = 0
          /\ q.text + q.buffer + q.flight + q.lost = q.fed + q.kept
      BY <1>3, <1>5 DEF Idle, Session, Balance
    <2> HIDE DEF q
    <2>2. /\ r \in Session /\ r.kind = q.kind /\ r.ready = q.ready /\ r.answers = q.answers
          /\ r.flight = q.flight /\ r.failed = q.failed /\ r.text = q.text
          /\ r.buffer = q.buffer + h.speech /\ r.fed = q.fed + h.speech
          /\ r.lost = q.lost /\ r.kept = q.kept
      <3>1. r \in Session
        BY <1>5, <2>1 DEF Session
      <3>2. /\ r.kind = q.kind /\ r.ready = q.ready /\ r.answers = q.answers
            /\ r.flight = q.flight /\ r.failed = q.failed /\ r.text = q.text
            /\ r.lost = q.lost /\ r.kept = q.kept
        BY <2>1 DEF Session
      <3>3. r.buffer = q.buffer + h.speech /\ r.fed = q.fed + h.speech
        BY <2>1 DEF Session
      <3>4. QED
        BY <3>1, <3>2, <3>3
    <2> HIDE DEF r
    <2>3. Balance(r)
      <3>1. r.text + r.buffer + r.flight + r.lost = r.fed + r.kept
        <4>1. q.text + (q.buffer + h.speech) + q.flight + q.lost = (q.fed + h.speech) + q.kept
          BY <1>5, <2>1
        <4>2. QED
          BY <2>2, <4>1
      <3>2. r.kind = "chunked"
        BY <1>3, <2>2
      <3>3. QED
        BY <3>1, <3>2 DEF Balance
    <2>4. QED
      BY <1>3, <2>2, <2>3 DEF Idle
  <1>7. CASE r.buffer > 0 /\ TakeBuffer(c, "accept", r)
    BY <1>1, <1>6, <1>7, TakeBufferStep
  <1>8. CASE Become(c, "top", r)
    <2>1. Sound([r EXCEPT !.phase = "top"]) /\ [r EXCEPT !.phase = "top"].phase = "top"
      BY <1>6, IdleSound
    <2>2. QED
      BY <1>1, <1>8, <2>1, ServedStep DEF Become, Served
  <1>9. QED
    BY <1>4, <1>7, <1>8

(* The utterance at work holds the triplet from its checkout to its end.   *)
LEMMA UtteranceRecord ==
  ASSUME IInv, NEW c \in Conns, conn[c].phase \in {"checkout", "inferring"}
  PROVE  LET r0 == conn[c] IN
         /\ r0 \in Session /\ r0.ready /\ r0.answers = 0 /\ r0.kind = "chunked"
         /\ r0.flight \in Nat /\ r0.flight > 0 /\ (r0.op = "flush" => r0.buffer = 0)
         /\ r0.text + r0.buffer + r0.flight + r0.lost = r0.fed + r0.kept
  <1> DEFINE r0 == conn[c]
  <1>1. r0 \in Session /\ Answered(r0) /\ Balanced(r0)
    BY DEF IInv, Sounds, Sound
  <1>2. r0.kind = "chunked"
    BY <1>1 DEF Balanced
  <1>3. QED
    BY <1>1, <1>2 DEF Answered, Balanced, Balance, Session, Served

LEMMA CheckedOutStep ==
  ASSUME IInv, NEW c \in Conns, CheckedOut(c)
  PROVE  \E r : ConnStep(c, r)
  <1> DEFINE r0 == conn[c]
             t == [r0 EXCEPT !.phase = "inferring"]
  <1>1. /\ r0.phase = "checkout" /\ conn' = [conn EXCEPT ![c] = t]
        /\ UNCHANGED <<permits, others>>
    BY DEF CheckedOut, At, Goto, Become
  <1>2. PICK i \in Items : Lender!Lend(i, c)
    BY DEF CheckedOut
  <1>3. Borrowed(c)
    BY <1>2, LendStep DEF IInv, Users
  <1>4. /\ r0 \in Session /\ Answered(r0) /\ Balanced(r0)
    BY DEF IInv, Sounds, Sound
  <1>5. Sound(t) /\ t.phase = "inferring"
    BY <1>1, <1>4, PhaseOnly
    DEF Sound, Answered, Balanced, Balance, Working, Served, Phases
  <1> HIDE DEF t
  <1>6. ConnStep(c, t)
    BY <1>1, <1>3, <1>5 DEF ConnStep, ServedFollows, TripletFollows, Served
  <1>7. QED
    BY <1>6

LEMMA InferSteps ==
  ASSUME IInv, NEW c \in Conns, Infer(c)
  PROVE  \E r : ConnStep(c, r)
  <1> DEFINE r0 == conn[c]
  <1>1. r0.phase = "inferring" /\ GiveBack(c) /\ UNCHANGED <<permits, others>>
    BY DEF Infer, Transcribed, TranscribeFailed, At
  <1>2. Returned(c)
    BY <1>1, ReturnStep DEF IInv, Users
  <1>3. /\ r0 \in Session /\ r0.ready /\ r0.answers = 0 /\ r0.kind = "chunked"
        /\ r0.flight \in Nat /\ (r0.op = "flush" => r0.buffer = 0)
        /\ r0.text + r0.buffer + r0.flight + r0.lost = r0.fed + r0.kept
    BY <1>1, UtteranceRecord
  <1>4. PICK t : Sound(t) /\ t.phase \in {"finishing", "replying", "partial", "top"}
                 /\ conn' = [conn EXCEPT ![c] = t]
    <2>1. CASE Transcribed(c)
      <3> DEFINE r == [r0 EXCEPT !.text = @ + r0.flight, !.flight = 0]
      <3>1. PICK p \in IF r0.op = "flush" THEN {"finishing"} ELSE {"partial", "top"} :
              Become(c, p, r)
        BY <2>1 DEF Transcribed
      <3>2. /\ r0.text \in Nat /\ r0.text + r0.flight \in Nat /\ r0.buffer \in Nat
            /\ r0.op \in {"accept", "flush"} /\ r0.lost \in Nat
        BY <1>3 DEF Session
      <3>3. /\ r \in Session /\ r.ready = r0.ready /\ r.answers = r0.answers
            /\ r.flight = 0 /\ r.failed = r0.failed /\ r.buffer = r0.buffer
            /\ r.text = r0.text + r0.flight /\ r.fed = r0.fed /\ r.lost = r0.lost
            /\ r.kept = r0.kept /\ r.kind = r0.kind
        BY <1>3, <3>2 DEF Session
      <3> HIDE DEF r
      <3>4. Idle(r)
        <4>1. r.text + r.buffer + r.flight + r.lost = r.fed + r.kept
          BY <1>3, <3>2, <3>3
        <4>2. QED
          BY <1>3, <3>3, <4>1 DEF Idle, Balance
      <3>5. CASE r0.op = "flush"
        <4> DEFINE t == [r EXCEPT !.phase = "finishing"]
        <4>1. /\ t \in Session /\ t.phase = "finishing" /\ t.ready = r.ready
              /\ t.answers = r.answers /\ t.flight = r.flight /\ t.failed = r.failed
              /\ t.buffer = r.buffer /\ t.text = r.text /\ t.fed = r.fed
              /\ t.lost = r.lost /\ t.kept = r.kept /\ t.kind = r.kind
          BY <3>3, PhaseOnly DEF Phases, Served
        <4>2. Become(c, "finishing", r)
          BY <3>1, <3>5
        <4> HIDE DEF t
        <4>3. Balance(t) /\ t.buffer = 0
          BY <1>3, <3>3, <3>4, <3>5, <4>1 DEF Idle, Balance
        <4>4. Sound(t)
          BY <3>3, <3>4, <4>1, <4>3 DEF Sound, Answered, Balanced, Working, Idle
        <4>5. QED
          BY <4>1, <4>2, <4>4 DEF Become, t
      <3>6. CASE r0.op # "flush"
        <4>1. p \in {"partial", "top"}
          BY <3>1, <3>6
        <4>2. Sound([r EXCEPT !.phase = p]) /\ [r EXCEPT !.phase = p].phase = p
          BY <3>4, <4>1, IdleSound
        <4>3. QED
          BY <3>1, <4>1, <4>2 DEF Become
      <3>7. QED
        BY <3>5, <3>6
    <2>2. CASE TranscribeFailed(c)
      <3> DEFINE r == Wasted(r0)
      <3>1. /\ r0.text \in Nat /\ r0.buffer \in Nat /\ r0.lost \in Nat
            /\ r0.lost + r0.flight \in Nat
        BY <1>3 DEF Session
      <3>2. r \in Session /\ r.failed = TRUE /\ r.flight = 0 /\ r.ready = r0.ready
            /\ r.answers = r0.answers /\ r.kind = r0.kind /\ r.buffer = r0.buffer
            /\ r.text = r0.text /\ r.fed = r0.fed /\ r.kept = r0.kept
            /\ r.lost = r0.lost + r0.flight
        BY <1>3, <3>1 DEF Session, Wasted
      <3>3. PICK p \in {"finishing", "replying"} :
              Become(c, p, r) /\ (p = "finishing" => r0.op = "flush")
        BY <2>2 DEF TranscribeFailed, AfterError
      <3> HIDE DEF r
      <3>4. r.text + r.buffer + r.flight + r.lost = r.fed + r.kept
        BY <1>3, <3>1, <3>2
      <3>5. Idle(r) /\ r.failed /\ r.kind = "chunked"
        BY <1>3, <3>2, <3>4 DEF Idle, Balance
      <3>6. Sound([r EXCEPT !.phase = p]) /\ [r EXCEPT !.phase = p].phase = p
        BY <1>3, <3>2, <3>3, <3>5, FailedSound
      <3>7. QED
        BY <3>3, <3>6 DEF Become
    <2>3. QED
      BY <2>1, <2>2 DEF Infer
  <1>5. ConnStep(c, t)
    BY <1>1, <1>2, <1>4 DEF ConnStep, ServedFollows, TripletFollows, Served
  <1>6. QED
    BY <1>5

LEMMA ClearStep ==
  ASSUME IInv, NEW c \in Conns, RecvClear(c)
  PROVE  \E r : ConnStep(c, r)
  <1> DEFINE r0 == conn[c]
             r == [r0 EXCEPT !.pending = 0]
  <1>1. r0.phase = "recv"
    BY DEF RecvClear, At
  <1>2. Idle(r0)
    BY <1>1, IdleRecord
  <1>3. /\ r \in Session /\ r.kind = r0.kind /\ r.gone = r0.gone /\ r.buffer = r0.buffer
        /\ r.text = r0.text /\ r.fed = r0.fed /\ r.failed = r0.failed
        /\ r.ready = r0.ready /\ r.answers = r0.answers /\ r.flight = r0.flight
        /\ r.lost = r0.lost /\ r.kept = r0.kept
    BY <1>2 DEF Idle, Session
  <1>4. \/ Become(c, "top", ClearedChunked(r)) /\ r.kind = "chunked" /\ UNCHANGED shared
        \/ Become(c, "top", AfterReset(r)) /\ r.kind = "streaming" /\ UNCHANGED shared
        \/ r.gone /\ End(c, "crashed", r) /\ UNCHANGED <<owner, others>>
    BY DEF RecvClear
  <1> HIDE DEF r
  <1>5. Idle(r)
    BY <1>2, <1>3 DEF Idle, Balance
  <1>6. CASE r.gone /\ End(c, "crashed", r) /\ UNCHANGED <<owner, others>>
    BY <1>1, <1>3, <1>5, <1>6, EndStep DEF Idle, Served, Ended
  <1>7. CASE \E q : Idle(q) /\ Become(c, "top", q) /\ UNCHANGED shared
    <2>1. PICK q : Idle(q) /\ Become(c, "top", q) /\ UNCHANGED shared
      BY <1>7
    <2>2. Sound([q EXCEPT !.phase = "top"]) /\ [q EXCEPT !.phase = "top"].phase = "top"
      BY <2>1, IdleSound
    <2>3. QED
      BY <1>1, <2>1, <2>2, ServedStep DEF Become, Served
  <1>8. r.kind = "streaming" => Idle(AfterReset(r))
    <2> DEFINE q == AfterReset(r)
    <2>1. /\ q \in Session /\ q.ready = r.ready /\ q.answers = r.answers
          /\ q.flight = r.flight /\ q.buffer = 0 /\ q.text = 0 /\ q.fed = 0
          /\ q.kind = r.kind /\ q.lost = r.lost /\ q.kept = r.kept
      BY <1>3 DEF AfterReset, Session
    <2> HIDE DEF q
    <2>2. r.lost \in Nat /\ r.kept \in Nat /\ r.kind \in {"streaming", "chunked"}
      BY <1>3 DEF Session
    <2>3. r.kind = "streaming" => Idle(q)
      BY <1>5, <2>1, <2>2 DEF Idle, Balance
    <2>4. QED
      BY <2>3 DEF q
  <1>9. ASSUME r.kind = "chunked" PROVE Idle(ClearedChunked(r))
    <2> DEFINE q == ClearedChunked(r)
    <2>1. /\ r.text \in Nat /\ r.buffer \in Nat /\ r.text + r.buffer \in Nat /\ r \in Session
          /\ r.flight = 0
      BY <1>5 DEF Idle, Session
    <2>2. /\ q \in Session /\ q.ready = r.ready /\ q.answers = r.answers
          /\ q.flight = r.flight /\ q.buffer = r.buffer /\ q.text = r.text /\ q.fed = 0
          /\ q.kind = r.kind /\ q.lost = 0 /\ q.kept = r.text + r.buffer
      BY <2>1 DEF ClearedChunked, Session
    <2> HIDE DEF q
    <2>3. Idle(q)
      <3>1. r.kind = "chunked" /\ r.ready /\ r.answers = 0
        BY <1>5, <1>9 DEF Idle
      <3>2. q.text + q.buffer + q.flight + q.lost = q.fed + q.kept
        BY <2>1, <2>2
      <3>3. Balance(q)
        BY <2>2, <3>1, <3>2 DEF Balance
      <3>4. QED
        BY <2>1, <2>2, <3>1, <3>3 DEF Idle
    <2>4. QED
      BY <2>3 DEF q
  <1>10. QED
    BY <1>4, <1>5, <1>6, <1>7, <1>8, <1>9

LEMMA ClosingSteps ==
  ASSUME IInv, NEW c \in Conns, Flush(c) \/ SendVerdict(c)
  PROVE  \E r : ConnStep(c, r)
  <1> DEFINE r0 == conn[c]
  <1>1. r0.phase \in {"flush", "finishing"}
    BY DEF Flush, SendVerdict, At
  <1>2. Idle(r0) /\ r0 \in Session /\ r0.phase \in Served \ {"inferring"}
    BY <1>1, IdleRecord DEF Idle
  <1>3. CASE Flush(c)
    <2>1. r0.phase = "flush" /\ UNCHANGED <<owner, others>>
      BY <1>3 DEF Flush, At
    <2>2. CASE r0.kind = "streaming" /\ TakePipeline(c, "flush", r0, 0)
      BY <1>2, <2>1, <2>2, TakePipelineStep
    <2>3. CASE /\ r0.kind = "chunked" /\ r0.buffer > 0
               /\ TakeBuffer(c, "flush", r0) /\ UNCHANGED permits
      BY <1>2, <2>1, <2>3, TakeBufferStep DEF shared, others
    <2>4. CASE /\ r0.kind = "chunked" /\ r0.buffer = 0
               /\ Goto(c, "finishing") /\ UNCHANGED permits
      <3> DEFINE t == [r0 EXCEPT !.phase = "finishing"]
      <3>1. conn' = [conn EXCEPT ![c] = t] /\ UNCHANGED shared
        BY <2>1, <2>4 DEF Goto, Become, shared, others
      <3>2. /\ t \in Session /\ t.phase = "finishing" /\ t.ready = r0.ready
            /\ t.answers = r0.answers /\ t.flight = r0.flight /\ t.failed = r0.failed
            /\ t.buffer = r0.buffer /\ t.text = r0.text /\ t.fed = r0.fed
            /\ t.lost = r0.lost /\ t.kept = r0.kept /\ t.kind = r0.kind
        BY <1>2, PhaseOnly DEF Phases, Served
      <3> HIDE DEF t
      <3>3. Balance(t)
        BY <1>2, <3>2 DEF Idle, Balance
      <3>4. Sound(t)
        BY <1>2, <2>4, <3>2, <3>3 DEF Sound, Answered, Balanced, Working, Idle
      <3>5. QED
        BY <1>2, <3>1, <3>2, <3>4, ServedStep DEF Served
    <2>5. QED
      BY <1>3, <2>2, <2>3, <2>4 DEF Flush
  <1>4. CASE SendVerdict(c)
    <2> DEFINE r == [r0 EXCEPT !.answers = @ + 1]
    <2>1. End(c, "done", r) /\ UNCHANGED <<owner, others>>
      BY <1>4 DEF SendVerdict
    <2>2. r \in Session /\ r.answers = 1 /\ r.ready = r0.ready
      <3>1. r0.answers = 0 /\ r0.answers + 1 = 1 /\ r0.answers + 1 \in Nat
        BY <1>2 DEF Idle
      <3>2. QED
        BY <1>2, <3>1 DEF Session
    <2> HIDE DEF r
    <2>3. QED
      BY <1>2, <2>1, <2>2, EndStep DEF Idle, Ended
  <1>5. QED
    BY <1>3, <1>4

LEMMA ConnNextStep ==
  ASSUME IInv, NEW c \in Conns, ConnNext(c)
  PROVE  IInv'
  <1>1. \E r : ConnStep(c, r)
    BY GotoSteps, OpeningSteps, StreamAudioStep, ChunkedAudioStep, StreamAcceptedStep,
       StreamOtherSteps, CheckedOutStep, InferSteps, ClearStep, ClosingSteps
    DEF ConnNext, Infer
  <1>2. QED
    BY <1>1, ConnStepKeeps

-----------------------------------------------------------------------------
(* The rest of the server. *)

(* Other users of the pool ask, borrow and return beside the connections.  *)
LEMMA OtherUserStep ==
  ASSUME IInv, NEW r \in Requests, Accept(r) \/ Borrow(r) \/ GiveUp(r) \/ Return(r)
  PROVE  IInv'
  <1>1. UNCHANGED <<conn, permits, shutdown>>
    BY DEF Accept, Borrow, GiveUp, Return, others
  <1>2. r \in Users /\ r \notin Conns /\ Conns \subseteq Users
    BY UsersAssumption DEF Users
  <1>3. asking' \subseteq Requests
    BY DEF Accept, Borrow, GiveUp, Return, others, IInv, TypeOK
  <1>4. Lent' /\ \A c \in Conns : Has(c)' <=> Has(c)
    <2>1. CASE Borrow(r)
      <3>1. Borrowed(r)
        BY <1>2, <2>1, LendStep DEF Borrow, IInv
      <3>2. QED
        BY <1>2, <3>1 DEF Borrowed
    <2>2. CASE Return(r)
      <3>1. Returned(r)
        BY <1>2, <2>2, ReturnStep DEF Return, IInv
      <3>2. QED
        BY <1>2, <3>1 DEF Returned
    <2>3. CASE Accept(r) \/ GiveUp(r)
      BY <2>3 DEF Accept, GiveUp, IInv, Lent, Owned, OneEach, NoneGone, Has
    <2>4. QED
      BY <2>1, <2>2, <2>3
  <1>5. QED
    BY <1>1, <1>3, <1>4
    DEF IInv, TypeOK, Sounds, Inferring, At, PermitsOut, Admitted, Lent, Owned, Users

(* The exit drops what is left of every connection.                        *)
LEMMA ExitStep ==
  ASSUME IInv, Exit
  PROVE  IInv'
  <1>1. /\ owner' = [i \in Items |-> Shelf] /\ permits' = MaxConns /\ UNCHANGED others
        /\ conn' = [c \in Conns |->
                      IF conn[c].phase \in Ended THEN conn[c]
                      ELSE [Dropped(conn[c]) EXCEPT !.phase = "killed"]]
    BY DEF Exit
  <1>2. ASSUME NEW c \in Conns
        PROVE  Sound(conn'[c]) /\ conn'[c].phase \in Ended
    <2>1. Sound(conn[c]) /\ conn[c] \in Session
      BY DEF IInv, Sounds, Sound
    <2>2. CASE conn[c].phase \in Ended
      BY <1>1, <2>1, <2>2
    <2>3. CASE conn[c].phase \notin Ended
      <3> DEFINE d == [Dropped(conn[c]) EXCEPT !.phase = "killed"]
      <3>1. /\ d \in Session /\ d.phase = "killed" /\ d.answers = conn[c].answers
            /\ d.kind = "chunked" /\ d.buffer = 0 /\ d.flight = 0 /\ d.text = 0 /\ d.fed = 0
            /\ d.lost = 0 /\ d.kept = 0
        BY <2>1, DroppedFacts DEF Ended
      <3>2. conn'[c] = d
        BY <1>1, <2>3
      <3> HIDE DEF d
      <3>3. d.answers = 0
        BY <2>1, <2>3, <3>1 DEF Sound, Answered, Ended
      <3>4. Sound(d)
        BY <3>1, <3>3 DEF Sound, Answered, Balanced, Balance, Working, Served
      <3>5. QED
        BY <3>1, <3>2, <3>4 DEF Ended
    <2>4. QED
      BY <2>2, <2>3
  <1>3. Lent' /\ \A c \in Conns : ~Has(c)'
    BY <1>1, UsersAssumption DEF Lent, Owned, OneEach, NoneGone, Has, Users
  <1>4. Inferring'
    BY <1>2, <1>3 DEF Inferring, At, Ended
  <1>5. PermitsOut'
    <2>1. Admitted' = {}
      BY <1>2 DEF Admitted, Ended, Served
    <2>2. QED
      BY <1>1, <2>1, FS_EmptySet, LimitsAssumption DEF PermitsOut
  <1>6. conn' \in [Conns -> Session]
    <2>1. \A c \in Conns : conn'[c] \in Session
      BY <1>2 DEF Sound
    <2>2. QED
      BY <1>1, <2>1
  <1>7. TypeOK'
    BY <1>1, <1>3, <1>6, LimitsAssumption DEF TypeOK, IInv, Lent, Owned, Users, others
  <1>8. QED
    BY <1>2, <1>3, <1>4, <1>5, <1>7 DEF IInv, Sounds

LEMMA InitIInv == Init => IInv
  <1> SUFFICES ASSUME Init PROVE IInv
    OBVIOUS
  <1>1. /\ conn = [c \in Conns |-> Fresh] /\ permits = MaxConns
        /\ owner = [i \in Items |-> Shelf] /\ asking = {} /\ shutdown = FALSE
    BY DEF Init
  <1>2. /\ Fresh \in Session /\ Fresh.phase = "admit" /\ Sound(Fresh)
    BY LimitsAssumption
    DEF Fresh, Session, Phases, Sound, Answered, Balanced, Balance, Working, Served
  <1>3. Sounds
    BY <1>1, <1>2 DEF Sounds
  <1>4. Lent /\ Inferring
    BY <1>1, <1>2, UsersAssumption DEF Lent, Owned, OneEach, NoneGone, Inferring, Has, Users, At
  <1>5. PermitsOut
    <2>1. Admitted = {}
      BY <1>1, <1>2 DEF Admitted, Served
    <2>2. QED
      BY <1>1, <2>1, FS_EmptySet, LimitsAssumption DEF PermitsOut
  <1>6. TypeOK
    <2>1. conn \in [Conns -> Session]
      BY <1>1, <1>2
    <2>2. permits \in 0 .. MaxConns
      BY <1>1, LimitsAssumption
    <2>3. QED
      BY <1>1, <2>1, <2>2 DEF TypeOK
  <1>7. QED
    BY <1>3, <1>4, <1>5, <1>6 DEF IInv

LEMMA NextIInv == IInv /\ [Next]_vars => IInv'
  <1> SUFFICES ASSUME IInv, [Next]_vars PROVE IInv'
    OBVIOUS
  <1>1. CASE \E c \in Conns : ConnNext(c)
    BY <1>1, ConnNextStep
  <1>2. CASE \E r \in Requests : Accept(r) \/ Borrow(r) \/ GiveUp(r) \/ Return(r)
    BY <1>2, OtherUserStep
  <1>3. CASE Shutdown
    BY <1>3 DEF Shutdown, IInv, TypeOK, Sounds, Lent, Owned, OneEach, NoneGone, Inferring, Has,
                At, PermitsOut, Admitted
  <1>4. CASE Exit
    BY <1>4, ExitStep
  <1>5. CASE UNCHANGED vars
    BY <1>5 DEF vars, IInv, TypeOK, Sounds, Lent, Owned, OneEach, NoneGone, Inferring, Has,
                At, PermitsOut, Admitted
  <1>6. QED
    BY <1>1, <1>2, <1>3, <1>4, <1>5 DEF Next

LEMMA IInvHolds == Spec => []IInv
  BY InitIInv, NextIInv, PTL DEF Spec

-----------------------------------------------------------------------------
(***************************************************************************)
(* The limit on connections (src/src/server/ws.rs, the semaphore of        *)
(* handle_v1_stream): those that are served and the free permits always    *)
(* make up max_ws_connections, in whatever way the others ended.           *)
(***************************************************************************)
THEOREM PermitsConserved == Spec => []StreamsBounded
  BY IInvHolds, IInvImplies, PTL

(***************************************************************************)
(* A connection is closed with one answer if it was told Ready, unless its *)
(* pipeline panicked away or the process exited (flush_and_send_final on   *)
(* Stop and after the loop).                                               *)
(***************************************************************************)
THEOREM AnsweredOnce == Spec => []OneAnswer
  BY IInvHolds, IInvImplies, PTL

(***************************************************************************)
(* For every way of cutting speech into messages and every sequence of     *)
(* failures: a chunked connection closes with all the speech but what its  *)
(* failed transcriptions had taken, a streaming one with all the speech    *)
(* since the last reset when nothing failed, and never with the same       *)
(* speech twice (accept_audio, transcribe_buffer and flush).               *)
(***************************************************************************)
THEOREM FinalIsComplete == Spec => []FinalComplete
  BY IInvHolds, IInvImplies, PTL

(***************************************************************************)
(* A chunked connection has one triplet exactly while it infers, and none  *)
(* is lost or lent twice (pool.checkout and into_owned in                  *)
(* transcribe_buffer).                                                     *)
(***************************************************************************)
THEOREM TripletsPerUtterance == Spec => []TripletPerUtterance
  BY IInvHolds, IInvImplies, PTL
=============================================================================
