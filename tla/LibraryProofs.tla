---------------------------- MODULE LibraryProofs ----------------------------
(***************************************************************************)
(* Proofs about the C interface, the segmenter and the offline decoder,    *)
(* for any threads, addresses, recordings and batches.                     *)
(***************************************************************************)
EXTENDS LibraryProps, FiniteSetTheorems, SequenceTheorems, WellFoundedInduction, TLAPS

(***************************************************************************)
(* The inductive invariant of the handles.                                 *)
(*                                                                         *)
(* Unknown, Given and Freed say which calls may be inside an object at     *)
(* each stage of its handle, and what is then true of its memory and of    *)
(* the live set: of the frees of a handle one finds the pointer, and until *)
(* it is through the object is allocated but in no set.                    *)
(***************************************************************************)
Uses == {"read", "checkout", "infer", "stream"}
Steps == {"load", "insert"} \union Freeing \union Uses
Object ==
  [kind : Kinds, at : Addresses \union {0}, size : Nat, idle : Nat,
   state : {"unborn", "allocated", "dropped"}]

FfiTyped ==
  /\ obj \in [Objects -> Object]
  /\ live \in [Kinds -> SUBSET Addresses]
  /\ host \in [Objects -> {"unknown", "given", "freed"}]
  /\ call \in [Threads -> {Nobody} \union [step : Steps, on : Objects]]
  /\ drops \in [Objects -> Nat]
  /\ broken = FALSE /\ aborted \in BOOLEAN

Busy(t, o) == call[t] # Nobody /\ call[t].on = o
IsLive(o) == obj[o].at \in live[obj[o].kind]

Unknown(o) ==
  host[o] = "unknown" =>
    /\ obj[o].state \in {"unborn", "allocated"} /\ drops[o] = 0
    /\ obj[o].state = "allocated" => \E t \in Threads : Busy(t, o)
    /\ \A t \in Threads : Busy(t, o) =>
         \/ Calling(t, "load") /\ obj[o].state = "unborn"
         \/ Calling(t, "insert") /\ obj[o].state = "allocated"
    /\ \A t, u \in Threads : Busy(t, o) /\ Busy(u, o) => t = u

Given(o) ==
  host[o] = "given" =>
    /\ obj[o].state = "allocated" /\ drops[o] = 0 /\ IsLive(o)
    /\ \A t \in Threads : Busy(t, o) => call[t].step \in Uses

Freed(o) ==
  host[o] = "freed" =>
    /\ obj[o].state \in {"allocated", "dropped"}
    /\ drops[o] = IF obj[o].state = "dropped" THEN 1 ELSE 0
    /\ obj[o].state = "allocated" =>
         \E t \in Threads : Busy(t, o) /\ (IsLive(o) \/ Calling(t, "drop"))
    /\ \A t \in Threads : Busy(t, o) => call[t].step \in Freeing
    /\ \A t \in Threads : Busy(t, o) /\ Calling(t, "drop") =>
         obj[o].state = "allocated" /\ ~IsLive(o)
    /\ \A t, u \in Threads :
         Busy(t, o) /\ Busy(u, o) /\ Calling(t, "drop") /\ Calling(u, "drop") => t = u

AddressesDiffer ==
  /\ \A o \in Objects : obj[o].state = "allocated" => obj[o].at \in Addresses
  /\ \A o, p \in Objects :
       /\ obj[o].state = "allocated" /\ obj[p].state = "allocated"
       /\ obj[o].at = obj[p].at
       => o = p
LiveAreAllocated ==
  \A k \in Kinds : \A a \in live[k] :
    \E o \in Objects : obj[o].state = "allocated" /\ obj[o].kind = k /\ obj[o].at = a
RemovesFindNoOther ==
  \A t \in Threads : Calling(t, "remove") => ~Reused(call[t].on)
Balanced ==
  \A o \in Objects : obj[o].idle + Cardinality(With(o)) = obj[o].size

Stages == \A o \in Objects : Unknown(o) /\ Given(o) /\ Freed(o)
FfiInv ==
  /\ FfiTyped /\ Stages
  /\ AddressesDiffer /\ LiveAreAllocated /\ RemovesFindNoOther /\ Balanced

(***************************************************************************)
(* The inductive invariant of the segmenter.  While it scans, the open     *)
(* stretch, if any, is the only one that began and met no pause, silence   *)
(* is the length of the quiet run at its end, and the segments are the     *)
(* stretches that met one.                                                 *)
(***************************************************************************)
EndsAt(k, q) ==
  q \in k .. Len(loud) /\ Pause(q) /\ \A p \in k .. q - 1 : ~Pause(p)
Unbroken(k) ==
  Begins(k) /\ \A p \in k .. Len(loud) : ~Pause(p)
QuietEnd ==
  \E q \in 0 .. Len(loud) :
    (q = 0 \/ Pause(q)) /\ \A j \in q + 1 .. Len(loud) : ~loud[j]
Heard(k) ==
  \E b \in 1 .. k : Begins(b) /\ \A p \in b .. k - 1 : ~Pause(p)

VadTyped ==
  /\ phase \in {"idle", "scan", "transcribe", "done"}
  /\ loud \in Seq(BOOLEAN) /\ length \in Nat
  /\ inSpeech \in BOOLEAN /\ segStart \in Nat /\ silence \in 0 .. MinSilence - 1
  /\ segments \in Seq(Nat \X Nat)

Stretches ==
  {e \in (1 .. Len(loud)) \X (1 .. Len(loud)) :
     Begins(e[1]) /\ EndsAt(e[1], e[2]) /\ e[2] - e[1] + 1 >= MinSpeech}
InSamples(e) == <<WindowSamples * (e[1] - 1), WindowSamples * e[2]>>

Holds(seq, s) == \E j \in DOMAIN seq : seq[j] = s
SegmentsAre ==
  \A s : Holds(segments, s) <=> \E e \in Stretches : s = InSamples(e)
AllHeard == \A k \in 1 .. Len(loud) : loud[k] => Heard(k)
OpenFrom(k) == inSpeech /\ segStart = WindowSamples * (k - 1)
EachEnds ==
  \A k \in 1 .. Len(loud) : Begins(k) =>
    (\E q \in 1 .. Len(loud) : EndsAt(k, q)) \/ OpenFrom(k)
Open(k) ==
  /\ OpenFrom(k) /\ Unbroken(k)
  /\ k <= Len(loud) - silence
  /\ loud[Len(loud) - silence]
  /\ \A j \in Len(loud) - silence + 1 .. Len(loud) : ~loud[j]

Scanning ==
  phase = "scan" =>
    /\ Len(loud) <= NumWindows /\ words = <<>>
    /\ SegmentsAre /\ AllHeard /\ EachEnds
    /\ IF inSpeech THEN \E k \in 1 .. Len(loud) : Open(k) ELSE QuietEnd

Cut ==
  /\ Len(loud) = NumWindows /\ AllHeard
  /\ {segments[j] : j \in DOMAIN segments} =
     {Padded(<<WindowSamples * s[1], WindowSamples * s[2]>>) :
        s \in {e \in Expected : e[2] - e[1] >= MinSpeech}}
Transcribing ==
  phase = "transcribe" \/ (phase = "done" /\ Len(words) = Len(segments) /\ segments # <<>>) =>
    /\ Cut
    /\ Pieces <= Len(segments)
    /\ \A j \in 1 .. Pieces :
         words[j] = WordsIn(segments[j])

Word == [window : Nat, time : Nat]
VadInv == VadTyped /\ words \in Seq(SUBSET Word) /\ Scanning /\ Transcribing

(***************************************************************************)
(* The inductive invariant of the decoder: the tensor is the layout of its *)
(* batch, and tokens were taken from frames up to the current one.         *)
(***************************************************************************)
Token == [id : Vocabulary, start : Nat, end : Nat, heard : [1 .. Subsampling -> [1 .. NMels -> Nat \X Nat \X Nat]]]

Batch ==
  IF frames = <<>> THEN data = <<>> /\ results = <<>> /\ tokens = <<>>
  ELSE frames \in Seq(FrameCounts) /\ data = Layout(frames)
DecodeTyped ==
  /\ frames \in Seq(FrameCounts)
  /\ frame \in Nat \ {0} /\ emitted \in 0 .. MaxTokensPerStep
  /\ tokens \in Seq(Token) /\ results \in Seq(Seq(Token))
Ordered(ts) == \A j \in 1 .. Len(ts) - 1 : ts[j].start <= ts[j + 1].start
SampleInv ==
  Decoding =>
    /\ frame <= Encodeds + 1
    /\ OwnFrames(Sample, tokens) /\ Ordered(tokens)
    /\ \A j \in 1 .. Len(tokens) : tokens[j].start < frame
    /\ ContextIsSuffix
    /\ context \in [1 .. ContextSize -> Vocabulary \union {Blank}]

DecodeInv ==
  /\ DecodeTyped /\ Batch /\ SampleInv
  /\ Len(results) <= Len(frames)
  /\ \A b \in DOMAIN results : OwnFrames(b, results[b]) /\ Tiled(b, results[b])

IInv == FfiInv /\ VadInv /\ DecodeInv

-----------------------------------------------------------------------------
(* What Enter, Step and Return do to the calls. *)

LEMMA CallFacts ==
  ASSUME FfiTyped, NEW t \in Threads
  PROVE  /\ call[t] = Nobody <=> call[t].step = "idle"
         /\ call[t] # Nobody => call[t].step \in Steps /\ call[t].on \in Objects
         /\ call[t] # Nobody => call[t] = [step |-> call[t].step, on |-> call[t].on]
  BY DEF FfiTyped, Nobody, Steps, Uses, Freeing

CallMoves(t, s, o) ==
  \A u \in Threads :
    /\ call'[u].step = IF u = t THEN s ELSE call[u].step
    /\ \A p \in Objects :
         Busy(u, p)' <=> (u = t /\ p = o /\ s # "idle") \/ (u # t /\ Busy(u, p))
    /\ s # "idle" \/ u # t => call'[u].on = IF u = t THEN o ELSE call[u].on

CallType == {Nobody} \union [step : Steps, on : Objects]

LEMMA EnterFacts ==
  ASSUME FfiTyped, NEW t \in Threads, NEW o \in Objects, NEW s \in Steps, Enter(t, s, o)
  PROVE  call' \in [Threads -> CallType] /\ CallMoves(t, s, o)
  <1>1. call' = [call EXCEPT ![t] = [step |-> s, on |-> o]] /\ call \in [Threads -> CallType]
    BY DEF Enter, FfiTyped, CallType
  <1>2. [step |-> s, on |-> o] \in CallType /\ [step |-> s, on |-> o] # Nobody /\ s # "idle"
    BY DEF CallType, Nobody, Steps, Uses, Freeing
  <1>3. QED
    BY <1>1, <1>2 DEF CallMoves, Busy

LEMMA StepFacts ==
  ASSUME FfiTyped, NEW t \in Threads, NEW s \in Steps, call[t] # Nobody, Step(t, s)
  PROVE  call' \in [Threads -> CallType] /\ CallMoves(t, s, call[t].on)
  <1> DEFINE o == call[t].on
  <1>1. o \in Objects /\ call[t] = [step |-> call[t].step, on |-> o]
    BY CallFacts
  <1>2. call' = [call EXCEPT ![t] = [step |-> s, on |-> o]] /\ call \in [Threads -> CallType]
    <2>1. \A x : [[step |-> x, on |-> o] EXCEPT !.step = s] = [step |-> s, on |-> o]
      OBVIOUS
    <2>2. [call[t] EXCEPT !.step = s] = [step |-> s, on |-> o]
      BY <1>1, <2>1
    <2>3. QED
      BY <2>2 DEF Step, FfiTyped, CallType
  <1>3. QED
    BY <1>1, <1>2, EnterFacts DEF Enter

LEMMA ReturnFacts ==
  ASSUME FfiTyped, NEW t \in Threads, Return(t)
  PROVE  call' \in [Threads -> CallType] /\ CallMoves(t, "idle", call[t].on)
  <1>1. call' = [call EXCEPT ![t] = Nobody] /\ call \in [Threads -> CallType]
    BY DEF Return, FfiTyped, CallType
  <1>2. Nobody \in CallType /\ Nobody.step = "idle"
    BY DEF CallType, Nobody
  <1>3. QED
    BY <1>1, <1>2 DEF CallMoves, Busy

(* An object that a step does not touch stays at its stage.                *)
Untouched(p) ==
  /\ obj'[p].state = obj[p].state /\ obj'[p].at = obj[p].at /\ obj'[p].kind = obj[p].kind
  /\ host'[p] = host[p] /\ drops'[p] = drops[p]
  /\ obj[p].state = "allocated" => (IsLive(p)' <=> IsLive(p))

SameCalls(p) ==
  \A u \in Threads :
    /\ Busy(u, p)' <=> Busy(u, p)
    /\ Busy(u, p) => call'[u].step = call[u].step

LEMMA StageKept ==
  ASSUME NEW p \in Objects, Unknown(p) /\ Given(p) /\ Freed(p), Untouched(p), SameCalls(p)
  PROVE  (Unknown(p) /\ Given(p) /\ Freed(p))'
  <1>1. Unknown(p)'
    BY DEF Unknown, Untouched, SameCalls, Calling
  <1>2. Given(p)'
    BY DEF Given, Untouched, SameCalls, Calling
  <1>3. Freed(p)'
    BY DEF Freed, Untouched, SameCalls, Calling
  <1>4. QED
    BY <1>1, <1>2, <1>3

(* Another thread's call to another object changes nothing inside p.       *)
LEMMA OthersKept ==
  ASSUME FfiTyped, NEW t \in Threads, NEW o \in Objects, NEW s, CallMoves(t, s, o),
         call[t] = Nobody \/ Busy(t, o), NEW p \in Objects, p # o
  PROVE  SameCalls(p)
  BY CallFacts DEF CallMoves, SameCalls, Busy

(* Memory that no step of a call moves.                                    *)
MemoryStays ==
  /\ live' = live
  /\ \A o \in Objects :
       obj'[o].state = obj[o].state /\ obj'[o].at = obj[o].at /\ obj'[o].kind = obj[o].kind

LEMMA MemoryKept ==
  ASSUME AddressesDiffer, LiveAreAllocated, MemoryStays
  PROVE  AddressesDiffer' /\ LiveAreAllocated'
  BY DEF AddressesDiffer, LiveAreAllocated, MemoryStays

LEMMA RemovesKept ==
  ASSUME RemovesFindNoOther, FfiTyped, MemoryStays,
         \A u \in Threads : call'[u].step = "remove" =>
           call[u].step = "remove" /\ call'[u].on = call[u].on
  PROVE  RemovesFindNoOther'
  <1>1. SUFFICES ASSUME NEW u \in Threads, call'[u].step = "remove",
                        NEW p \in Objects, p # call'[u].on, obj'[p].state = "allocated",
                        obj'[p].at = obj'[call'[u].on].at, obj'[p].kind = obj'[call'[u].on].kind
                 PROVE  FALSE
    BY DEF RemovesFindNoOther, Reused, Calling
  <1>2. call[u].step = "remove" /\ call'[u].on = call[u].on /\ call[u].on \in Objects
    BY <1>1, CallFacts DEF Nobody
  <1>3. Reused(call[u].on)
    BY <1>1, <1>2 DEF Reused, MemoryStays
  <1>4. QED
    BY <1>2, <1>3 DEF RemovesFindNoOther, Calling

LEMMA BalancedKept ==
  ASSUME Balanced,
         \A o \in Objects : obj'[o].idle = obj[o].idle /\ obj'[o].size = obj[o].size,
         \A u \in Threads, o \in Objects :
           (Busy(u, o) /\ Calling(u, "infer"))' <=> Busy(u, o) /\ Calling(u, "infer")
  PROVE  Balanced'
  <1>1. \A o \in Objects : With(o)' = With(o)
    BY DEF With, Inside, Busy
  <1>2. QED
    BY <1>1 DEF Balanced

LEMMA StageOf ==
  ASSUME FfiTyped, Stages, NEW t \in Threads, call[t] # Nobody
  PROVE  LET o == call[t].on IN
         /\ o \in Objects /\ Busy(t, o) /\ Unknown(o) /\ Given(o) /\ Freed(o)
         /\ host[o] \in {"unknown", "given", "freed"}
         /\ call[t].step \in {"load", "insert"} <=> host[o] = "unknown"
         /\ call[t].step \in Uses <=> host[o] = "given"
         /\ call[t].step \in Freeing <=> host[o] = "freed"
  <1> DEFINE o == call[t].on
  <1>1. o \in Objects /\ Busy(t, o) /\ call[t].step \in Steps
    BY CallFacts DEF Busy
  <1>2. Unknown(o) /\ Given(o) /\ Freed(o) /\ host[o] \in {"unknown", "given", "freed"}
    BY <1>1 DEF Stages, FfiTyped
  <1>3. host[o] = "unknown" => call[t].step \in {"load", "insert"}
    BY <1>1, <1>2 DEF Unknown, Calling
  <1>4. host[o] = "given" => call[t].step \in Uses
    BY <1>1, <1>2 DEF Given
  <1>5. host[o] = "freed" => call[t].step \in Freeing
    BY <1>1, <1>2 DEF Freed
  <1>6. QED
    BY <1>1, <1>2, <1>3, <1>4, <1>5 DEF Uses, Freeing

ObjectsTyped == obj \in [Objects -> Object]

LEMMA ObjectFacts ==
  ASSUME FfiTyped, NEW o \in Objects
  PROVE  /\ obj[o] \in Object /\ obj[o].kind \in Kinds /\ obj[o].at \in Addresses \union {0}
         /\ obj[o].size \in Nat /\ obj[o].idle \in Nat
         /\ obj[o].state \in {"unborn", "allocated", "dropped"}
  BY DEF FfiTyped, Object

(* The steps of a call that uses a handle, all but the count of triplets.  *)
LEMMA UseKeeps ==
  ASSUME FfiInv, NEW t \in Threads, NEW o \in Objects, NEW s \in Uses \union {"idle"},
         host[o] = "given", call[t] = Nobody \/ Busy(t, o),
         call' \in [Threads -> CallType], CallMoves(t, s, o),
         ObjectsTyped', MemoryStays, UNCHANGED <<host, drops, broken, aborted>>
  PROVE  FfiTyped' /\ Stages' /\ AddressesDiffer' /\ LiveAreAllocated' /\ RemovesFindNoOther'
  <1>1. FfiTyped'
    BY DEF FfiInv, FfiTyped, ObjectsTyped, MemoryStays, CallType
  <1>2. \A p \in Objects : Untouched(p)
    BY DEF Untouched, MemoryStays, IsLive
  <1>3. ASSUME NEW p \in Objects PROVE (Unknown(p) /\ Given(p) /\ Freed(p))'
    <2>1. CASE p # o
      BY <2>1, <1>2, StageKept, OthersKept DEF FfiInv, Stages
    <2>2. CASE p = o
      <3>1. Given(o)
        BY DEF FfiInv, Stages
      <3>2. \A u \in Threads : Busy(u, o)' => call'[u].step \in Uses
        BY <3>1 DEF CallMoves, Given
      <3>3. host'[o] = "given" /\ drops'[o] = drops[o]
        OBVIOUS
      <3>4. QED
        BY <2>2, <3>1, <3>2, <3>3, <1>2 DEF Given, Unknown, Freed, Untouched
    <2>3. QED
      BY <2>1, <2>2
  <1>4. RemovesFindNoOther'
    <2>1. \A u \in Threads : call'[u].step = "remove" =>
            call[u].step = "remove" /\ call'[u].on = call[u].on
      BY DEF CallMoves, Uses
    <2>2. QED
      BY <2>1, RemovesKept DEF FfiInv
  <1>5. QED
    BY <1>1, <1>3, <1>4, MemoryKept DEF Stages, FfiInv

(* Where no object changes and nobody enters or leaves an inference.       *)
LEMMA CountKept ==
  ASSUME Balanced, NEW t \in Threads, NEW o \in Objects, NEW s, s # "infer", CallMoves(t, s, o),
         ~Calling(t, "infer"),
         \A p \in Objects : obj'[p].idle = obj[p].idle /\ obj'[p].size = obj[p].size
  PROVE  Balanced'
  <1>1. \A u \in Threads, p \in Objects :
          (Busy(u, p) /\ Calling(u, "infer"))' <=> Busy(u, p) /\ Calling(u, "infer")
    BY DEF CallMoves, Calling
  <1>2. QED
    BY <1>1, BalancedKept

LEMMA TranscribeKeeps ==
  ASSUME FfiInv, NEW t \in Threads, NEW o \in Objects, Transcribe(t, o)
  PROVE  FfiInv'
  <1>1. call' \in [Threads -> CallType] /\ CallMoves(t, "read", o)
    BY EnterFacts DEF Transcribe, FfiInv, Steps, Uses
  <1>2. ObjectsTyped' /\ MemoryStays
    BY DEF Transcribe, FfiInv, FfiTyped, ObjectsTyped, MemoryStays
  <1>3. Balanced'
    BY <1>1, CountKept DEF Transcribe, FfiInv, Calling, Nobody
  <1>4. QED
    BY <1>1, <1>2, <1>3, UseKeeps DEF Transcribe, FfiInv, Uses

LEMMA StreamCallKeeps ==
  ASSUME FfiInv, NEW t \in Threads, NEW o \in Objects, StreamCall(t, o)
  PROVE  FfiInv'
  <1>1. call' \in [Threads -> CallType] /\ CallMoves(t, "stream", o)
    BY EnterFacts DEF StreamCall, FfiInv, Steps, Uses
  <1>2. ObjectsTyped' /\ MemoryStays
    BY DEF StreamCall, FfiInv, FfiTyped, ObjectsTyped, MemoryStays
  <1>3. Balanced'
    BY <1>1, CountKept DEF StreamCall, FfiInv, Calling, Nobody
  <1>4. QED
    BY <1>1, <1>2, <1>3, UseKeeps DEF StreamCall, FfiInv, Uses

LEMMA StreamReturnsKeeps ==
  ASSUME FfiInv, NEW t \in Threads, StreamReturns(t)
  PROVE  FfiInv'
  <1> DEFINE o == call[t].on
  <1>1. o \in Objects /\ Busy(t, o) /\ host[o] = "given"
    BY StageOf DEF StreamReturns, Calling, FfiInv, Nobody, Uses
  <1>2. call' \in [Threads -> CallType] /\ CallMoves(t, "idle", o)
    BY ReturnFacts DEF StreamReturns, FfiInv
  <1>3. ObjectsTyped' /\ MemoryStays
    BY DEF StreamReturns, FfiInv, FfiTyped, ObjectsTyped, MemoryStays
  <1>4. Balanced'
    BY <1>1, <1>2, CountKept DEF StreamReturns, FfiInv, Calling
  <1>5. QED
    BY <1>1, <1>2, <1>3, <1>4, UseKeeps DEF StreamReturns, FfiInv

LEMMA ReadWavKeeps ==
  ASSUME FfiInv, NEW t \in Threads, ReadWav(t)
  PROVE  FfiInv'
  <1> DEFINE o == call[t].on
  <1>1. o \in Objects /\ Busy(t, o) /\ host[o] = "given" /\ call[t] # Nobody
    BY StageOf DEF ReadWav, Calling, FfiInv, Nobody, Uses
  <1>2. PICK s \in {"idle", "checkout"} : call' \in [Threads -> CallType] /\ CallMoves(t, s, o)
    BY <1>1, ReturnFacts, StepFacts DEF ReadWav, FfiInv, Steps, Uses
  <1>3. ObjectsTyped' /\ MemoryStays
    BY DEF ReadWav, FfiInv, FfiTyped, ObjectsTyped, MemoryStays
  <1>4. Balanced'
    BY <1>1, <1>2, CountKept DEF ReadWav, FfiInv, Calling
  <1>5. QED
    BY <1>1, <1>2, <1>3, <1>4, UseKeeps DEF ReadWav, FfiInv, Uses

LEMMA WithFinite ==
  ASSUME NEW o \in Objects
  PROVE  /\ IsFiniteSet(Inside(o)) /\ IsFiniteSet(With(o))
         /\ Cardinality(Inside(o)) \in Nat /\ Cardinality(With(o)) \in Nat
         /\ With(o) = {t \in Threads : Busy(t, o) /\ Calling(t, "infer")}
  <1>1. Inside(o) \in SUBSET Threads /\ With(o) \in SUBSET Threads
    BY DEF Inside, With
  <1>2. IsFiniteSet(Inside(o)) /\ IsFiniteSet(With(o))
    BY <1>1, ThreadsAssumption, FS_Subset
  <1>3. With(o) = {t \in Threads : Busy(t, o) /\ Calling(t, "infer")}
    BY DEF Inside, With, Busy
  <1>4. QED
    BY <1>2, <1>3, FS_CardinalityType

LEMMA IdleSet ==
  ASSUME FfiTyped, NEW o \in Objects, NEW n \in Nat,
         obj' = [obj EXCEPT ![o].idle = n], live' = live
  PROVE  /\ ObjectsTyped' /\ MemoryStays
         /\ \A p \in Objects : obj'[p].size = obj[p].size
         /\ \A p \in Objects : obj'[p].idle = IF p = o THEN n ELSE obj[p].idle
  <1>1. obj[o] \in Object /\ obj \in [Objects -> Object]
    BY DEF FfiTyped
  <1>2. [obj[o] EXCEPT !.idle = n] \in Object
    BY <1>1 DEF Object
  <1>3. obj' = [obj EXCEPT ![o] = [obj[o] EXCEPT !.idle = n]]
    OBVIOUS
  <1>4. ObjectsTyped'
    BY <1>1, <1>2, <1>3 DEF ObjectsTyped
  <1>5. ASSUME NEW p \in Objects
        PROVE  /\ obj'[p].size = obj[p].size
               /\ obj'[p].idle = IF p = o THEN n ELSE obj[p].idle
               /\ obj'[p].state = obj[p].state /\ obj'[p].at = obj[p].at
               /\ obj'[p].kind = obj[p].kind
    BY <1>1, <1>3 DEF Object
  <1>6. QED
    BY <1>4, <1>5 DEF MemoryStays

LEMMA TryCheckoutKeeps ==
  ASSUME FfiInv, NEW t \in Threads, TryCheckout(t)
  PROVE  FfiInv'
  <1> DEFINE o == call[t].on
  <1>1. o \in Objects /\ Busy(t, o) /\ host[o] = "given" /\ call[t] # Nobody
    BY StageOf DEF TryCheckout, Calling, FfiInv, Nobody, Uses
  <1>2. CASE obj[o].idle > 0
    <2>1. call' \in [Threads -> CallType] /\ CallMoves(t, "infer", o)
      BY <1>1, <1>2, StepFacts DEF TryCheckout, FfiInv, Steps, Uses
    <2>2. obj' = [obj EXCEPT ![o].idle = @ - 1]
      BY <1>2 DEF TryCheckout
    <2>3. /\ ObjectsTyped' /\ MemoryStays
          /\ \A p \in Objects : obj'[p].size = obj[p].size
          /\ \A p \in Objects : obj'[p].idle = IF p = o THEN obj[o].idle - 1 ELSE obj[p].idle
      <3>1. obj[o].idle - 1 \in Nat
        BY <1>1, <1>2, ObjectFacts DEF FfiInv
      <3>2. QED
        BY <1>1, <2>2, <3>1, IdleSet DEF TryCheckout, FfiInv
    <2>4. ASSUME NEW p \in Objects PROVE (obj[p].idle + Cardinality(With(p)) = obj[p].size)'
      <3>1. With(p)' = IF p = o THEN With(p) \union {t} ELSE With(p)
        BY <1>1, <2>1 DEF With, Inside, CallMoves, Busy, Calling, TryCheckout
      <3>2. t \notin With(p) /\ IsFiniteSet(With(p)) /\ Cardinality(With(p)) \in Nat
        BY WithFinite DEF TryCheckout, Calling
      <3>3. Cardinality(With(p) \union {t}) = Cardinality(With(p)) + 1
        BY <3>2, FS_AddElement
      <3>4. obj[p].idle + Cardinality(With(p)) = obj[p].size /\ obj[p].idle \in Nat
        BY ObjectFacts DEF FfiInv, Balanced
      <3>5. Cardinality(With(p)') = Cardinality(With(p)) + IF p = o THEN 1 ELSE 0
        BY <3>1, <3>2, <3>3
      <3>6. QED
        BY <2>3, <3>2, <3>4, <3>5
    <2>5. Balanced'
      BY <2>4 DEF Balanced
    <2>6. QED
      BY <1>1, <2>1, <2>3, <2>5, UseKeeps DEF TryCheckout, FfiInv, Uses
  <1>3. CASE ~(obj[o].idle > 0)
    <2>1. call' \in [Threads -> CallType] /\ CallMoves(t, "idle", o)
      BY <1>3, ReturnFacts DEF TryCheckout, FfiInv
    <2>2. ObjectsTyped' /\ MemoryStays /\ obj' = obj
      BY <1>3 DEF TryCheckout, FfiInv, FfiTyped, ObjectsTyped, MemoryStays
    <2>3. Balanced'
      BY <1>1, <2>1, <2>2, CountKept DEF TryCheckout, FfiInv, Calling
    <2>4. QED
      BY <1>1, <2>1, <2>2, <2>3, UseKeeps DEF TryCheckout, FfiInv
  <1>4. QED
    BY <1>2, <1>3

LEMMA InferKeeps ==
  ASSUME FfiInv, NEW t \in Threads, Infer(t)
  PROVE  FfiInv'
  <1> DEFINE o == call[t].on
  <1>1. o \in Objects /\ Busy(t, o) /\ host[o] = "given" /\ call[t] # Nobody
    BY StageOf DEF Infer, Calling, FfiInv, Nobody, Uses
  <1>2. call' \in [Threads -> CallType] /\ CallMoves(t, "idle", o)
    BY ReturnFacts DEF Infer, FfiInv
  <1>3. /\ ObjectsTyped' /\ MemoryStays
        /\ \A p \in Objects : obj'[p].size = obj[p].size
        /\ \A p \in Objects : obj'[p].idle = IF p = o THEN obj[o].idle + 1 ELSE obj[p].idle
    <2>1. obj[o].idle + 1 \in Nat
      BY <1>1, ObjectFacts DEF FfiInv
    <2>2. QED
      BY <1>1, <2>1, IdleSet DEF Infer, FfiInv
  <1>4. ASSUME NEW p \in Objects PROVE (obj[p].idle + Cardinality(With(p)) = obj[p].size)'
    <2>1. With(p)' = IF p = o THEN With(p) \ {t} ELSE With(p)
      BY <1>1, <1>2 DEF With, Inside, CallMoves, Busy, Calling, Infer
    <2>2. IsFiniteSet(With(p)) /\ Cardinality(With(p)) \in Nat /\ (p = o => t \in With(p))
      BY <1>1, WithFinite DEF Infer
    <2>3. p = o => Cardinality(With(p) \ {t}) = Cardinality(With(p)) - 1
      BY <2>2, FS_RemoveElement
    <2>4. obj[p].idle + Cardinality(With(p)) = obj[p].size /\ obj[p].idle \in Nat
      BY ObjectFacts DEF FfiInv, Balanced
    <2>5. Cardinality(With(p)') = Cardinality(With(p)) - IF p = o THEN 1 ELSE 0
      BY <2>1, <2>2, <2>3
    <2>6. QED
      BY <1>3, <2>2, <2>4, <2>5
  <1>5. Balanced'
    BY <1>4 DEF Balanced
  <1>6. QED
    BY <1>1, <1>2, <1>3, <1>5, UseKeeps DEF Infer, FfiInv

LEMMA PanicKeeps ==
  ASSUME FfiInv, NEW t \in Threads, Panic(t)
  PROVE  FfiInv'
  <1> USE DEF Panic
  <1>1. FfiTyped'
    BY DEF FfiInv, FfiTyped
  <1>2. \A u \in Threads, o \in Objects :
          /\ Busy(u, o)' <=> Busy(u, o)
          /\ IsLive(o)' <=> IsLive(o)
          /\ With(o)' = With(o)
    BY DEF Busy, IsLive, With, Inside, Calling
  <1>3. Stages'
    BY <1>2, StageKept DEF FfiInv, Stages, Untouched, SameCalls
  <1>4. AddressesDiffer' /\ LiveAreAllocated' /\ RemovesFindNoOther' /\ Balanced'
    BY <1>2 DEF FfiInv, AddressesDiffer, LiveAreAllocated, RemovesFindNoOther, Balanced, Calling, Reused
  <1>5. QED
    BY <1>1, <1>3, <1>4 DEF FfiInv

(* An object that is not allocated, neither before nor after.              *)
LEMMA UnbornKeeps ==
  ASSUME FfiInv, NEW t \in Threads, NEW o \in Objects, NEW r \in Object,
         NEW s \in {"load", "idle"},
         obj[o].state = "unborn", host[o] = "unknown", r.state = "unborn", r.idle = r.size,
         \A u \in Threads : Busy(u, o) => u = t,
         call[t] = Nobody \/ Busy(t, o),
         call' \in [Threads -> CallType], CallMoves(t, s, o),
         obj' = [obj EXCEPT ![o] = r], UNCHANGED <<live, host, drops, broken, aborted>>
  PROVE  FfiInv'
  <1>1. FfiTyped'
    BY DEF FfiInv, FfiTyped, CallType
  <1>2. obj'[o] = r /\ \A p \in Objects : p # o => obj'[p] = obj[p]
    BY DEF FfiInv, FfiTyped
  <1>3. ASSUME NEW p \in Objects PROVE (Unknown(p) /\ Given(p) /\ Freed(p))'
    <2>1. CASE p # o
      <3>1. Untouched(p)
        BY <2>1, <1>2 DEF Untouched, IsLive
      <3>2. QED
        BY <2>1, <3>1, StageKept, OthersKept DEF FfiInv, Stages
    <2>2. CASE p = o
      <3>1. drops[o] = 0 /\ host'[o] = "unknown"
        BY DEF FfiInv, Stages, Unknown
      <3>2. \A u \in Threads : Busy(u, o)' => u = t /\ call'[u].step = "load"
        BY DEF CallMoves
      <3>3. QED
        BY <1>2, <2>2, <3>1, <3>2 DEF Unknown, Given, Freed, Calling
    <2>3. QED
      BY <2>1, <2>2
  <1>4. AddressesDiffer' /\ LiveAreAllocated'
    <2>1. AddressesDiffer'
      BY <1>2 DEF FfiInv, AddressesDiffer
    <2>2. LiveAreAllocated'
      BY <1>2 DEF FfiInv, LiveAreAllocated
    <2>3. QED
      BY <2>1, <2>2
  <1>5. RemovesFindNoOther'
    <2>1. SUFFICES ASSUME NEW u \in Threads, call'[u].step = "remove",
                          NEW p \in Objects, p # call'[u].on, obj'[p].state = "allocated",
                          obj'[p].at = obj'[call'[u].on].at, obj'[p].kind = obj'[call'[u].on].kind
                   PROVE  FALSE
      BY DEF RemovesFindNoOther, Reused, Calling
    <2>2. u # t /\ call[u].step = "remove" /\ call'[u].on = call[u].on
      BY <2>1 DEF CallMoves
    <2>3. call[u].on \in Objects /\ host[call[u].on] = "freed"
      BY <2>2, StageOf DEF FfiInv, Nobody, Freeing
    <2>4. p # o /\ call[u].on # o
      BY <2>1, <2>3, <1>2
    <2>5. Reused(call[u].on)
      BY <2>1, <2>2, <2>3, <2>4, <1>2 DEF Reused
    <2>6. QED
      BY <2>2, <2>5 DEF FfiInv, RemovesFindNoOther, Calling
  <1>6. ASSUME NEW p \in Objects PROVE (obj[p].idle + Cardinality(With(p)) = obj[p].size)'
    <2>1. CASE p # o
      <3>1. With(p)' = With(p)
        BY <2>1, OthersKept DEF FfiInv, SameCalls, With, Inside, Busy, Calling
      <3>2. QED
        BY <2>1, <3>1, <1>2 DEF FfiInv, Balanced
    <2>2. CASE p = o
      <3>1. With(p)' = {}
        BY <2>2 DEF With, Inside, CallMoves, Calling, Busy
      <3>2. r.size \in Nat /\ Cardinality({}) = 0
        BY FS_EmptySet DEF Object
      <3>3. QED
        BY <2>2, <3>1, <3>2, <1>2
    <2>3. QED
      BY <2>1, <2>2
  <1>7. QED
    BY <1>1, <1>3, <1>4, <1>5, <1>6 DEF FfiInv, Stages, Balanced

LEMMA NewKeeps ==
  ASSUME FfiInv, NEW t \in Threads, NEW o \in Objects, NEW k \in Kinds, NEW n \in Nat,
         New(t, o, k, n)
  PROVE  FfiInv'
  <1> DEFINE r == [Unborn EXCEPT !.kind = k, !.size = n, !.idle = n]
  <1>1. r \in Object /\ r.state = "unborn" /\ r.idle = r.size
    BY DEF Unborn, Object
  <1>2. \A u \in Threads : ~Busy(u, o)
    BY DEF New, Inside, Busy
  <1>3. obj[o].state = "unborn" /\ host[o] = "unknown"
    BY <1>2 DEF New, FfiInv, Stages, Unknown
  <1>4. call' \in [Threads -> CallType] /\ CallMoves(t, "load", o)
    BY EnterFacts DEF New, FfiInv, Steps
  <1>5. obj' = [obj EXCEPT ![o] = r] /\ UNCHANGED <<live, host, drops, broken, aborted>>
    BY DEF New
  <1>6. call[t] = Nobody
    BY DEF New
  <1> HIDE DEF r
  <1>7. QED
    BY <1>1, <1>2, <1>3, <1>4, <1>5, <1>6, UnbornKeeps

LEMMA LoadFailsKeeps ==
  ASSUME FfiInv, NEW t \in Threads, LoadFails(t)
  PROVE  FfiInv'
  <1> DEFINE o == call[t].on
  <1>1. Unborn \in Object /\ Unborn.state = "unborn" /\ Unborn.idle = Unborn.size
    BY DEF Unborn, Object, Kinds
  <1>2. o \in Objects /\ Busy(t, o) /\ Unknown(o) /\ host[o] = "unknown"
    BY StageOf DEF LoadFails, Calling, FfiInv, Nobody
  <1>3. obj[o].state = "unborn" /\ \A u \in Threads : Busy(u, o) => u = t
    BY <1>2 DEF LoadFails, Unknown, Calling
  <1>4. call' \in [Threads -> CallType] /\ CallMoves(t, "idle", o)
    BY ReturnFacts DEF LoadFails, FfiInv
  <1>5. obj' = [obj EXCEPT ![o] = Unborn] /\ UNCHANGED <<live, host, drops, broken, aborted>>
    BY DEF LoadFails
  <1>6. QED
    BY <1>1, <1>2, <1>3, <1>4, <1>5, UnbornKeeps

LEMMA AllocateKeeps ==
  ASSUME FfiInv, NEW t \in Threads, NEW a \in Addresses, Allocate(t, a)
  PROVE  FfiInv'
  <1> DEFINE o == call[t].on
  <1>1. o \in Objects /\ Busy(t, o) /\ Unknown(o) /\ host[o] = "unknown" /\ call[t] # Nobody
    BY StageOf DEF Allocate, Calling, FfiInv, Nobody
  <1>2. /\ obj[o].state = "unborn" /\ drops[o] = 0
        /\ \A u \in Threads : Busy(u, o) => u = t
    BY <1>1 DEF Allocate, Unknown, Calling
  <1>3. call' \in [Threads -> CallType] /\ CallMoves(t, "insert", o)
    BY <1>1, StepFacts DEF Allocate, FfiInv, Steps
  <1>4. /\ obj' \in [Objects -> Object]
        /\ obj'[o].state = "allocated" /\ obj'[o].at = a /\ obj'[o].kind = obj[o].kind
        /\ obj'[o].idle = obj[o].idle /\ obj'[o].size = obj[o].size
        /\ \A p \in Objects : p # o => obj'[p] = obj[p]
    <2>1. obj \in [Objects -> Object] /\ obj[o] \in Object
      BY <1>1 DEF FfiInv, FfiTyped
    <2>2. [obj[o] EXCEPT !.state = "allocated", !.at = a] \in Object
      BY <2>1 DEF Object
    <2>3. obj' = [obj EXCEPT ![o] = [obj[o] EXCEPT !.state = "allocated", !.at = a]]
      BY <2>1 DEF Allocate
    <2>4. QED
      BY <1>1, <2>1, <2>2, <2>3 DEF Object
  <1>5. FfiTyped'
    BY <1>3, <1>4 DEF FfiInv, FfiTyped, CallType, Allocate
  <1>6. ASSUME NEW p \in Objects PROVE (Unknown(p) /\ Given(p) /\ Freed(p))'
    <2>1. CASE p # o
      <3>1. Untouched(p)
        BY <2>1, <1>4 DEF Untouched, IsLive, Allocate
      <3>2. QED
        BY <2>1, <3>1, <1>1, <1>3, StageKept, OthersKept DEF FfiInv, Stages
    <2>2. CASE p = o
      <3>1. host'[p] = "unknown" /\ drops'[p] = 0 /\ obj'[p].state = "allocated"
        BY <1>1, <1>2, <1>4, <2>2 DEF Allocate
      <3>2. \A u \in Threads : Busy(u, p)' <=> u = t
        BY <1>2, <1>3, <1>1, <2>2 DEF CallMoves
      <3>3. Calling(t, "insert")'
        BY <1>3 DEF CallMoves, Calling
      <3>4. Unknown(p)'
        BY <3>1, <3>2, <3>3 DEF Unknown
      <3>5. QED
        BY <3>1, <3>4 DEF Given, Freed
    <2>3. QED
      BY <2>1, <2>2
  <1>7. AddressesDiffer'
    <2>1. \A p \in Objects : obj[p].state = "allocated" => obj[p].at # a
      BY DEF Allocate, Allocated
    <2>2. QED
      BY <1>4, <2>1 DEF FfiInv, AddressesDiffer
  <1>8. LiveAreAllocated'
    <2>1. live' = live /\ LiveAreAllocated
      BY DEF Allocate, FfiInv
    <2>2. \A p \in Objects : obj[p].state = "allocated" =>
            /\ obj'[p].state = "allocated" /\ obj'[p].at = obj[p].at
            /\ obj'[p].kind = obj[p].kind
      BY <1>2, <1>4
    <2>3. QED
      BY <2>1, <2>2 DEF LiveAreAllocated
  <1>9. RemovesFindNoOther'
    <2>1. SUFFICES ASSUME NEW u \in Threads, call'[u].step = "remove",
                          NEW p \in Objects, p # call'[u].on, obj'[p].state = "allocated",
                          obj'[p].at = obj'[call'[u].on].at, obj'[p].kind = obj'[call'[u].on].kind
                   PROVE  FALSE
      BY DEF RemovesFindNoOther, Reused, Calling
    <2>2. u # t /\ call[u].step = "remove" /\ call'[u].on = call[u].on
      BY <1>3, <2>1 DEF CallMoves
    <2>3. call[u].on \in Objects /\ host[call[u].on] = "freed"
      BY <2>2, StageOf DEF FfiInv, Nobody, Freeing
    <2>4. call[u].on # o
      BY <2>3, <1>1
    <2>5. CASE p = o
      <3>1. obj[call[u].on].at = a /\ obj[call[u].on].kind = obj[o].kind
        BY <2>1, <2>2, <2>3, <2>4, <2>5, <1>4
      <3>2. QED
        BY <2>2, <3>1 DEF Allocate, StaleFree, Calling
    <2>6. CASE p # o
      <3>1. Reused(call[u].on)
        BY <2>1, <2>2, <2>3, <2>4, <2>6, <1>4 DEF Reused
      <3>2. QED
        BY <2>2, <3>1 DEF FfiInv, RemovesFindNoOther, Calling
    <2>7. QED
      BY <2>5, <2>6
  <1>10. Balanced'
    <2>1. \A p \in Objects : obj'[p].idle = obj[p].idle /\ obj'[p].size = obj[p].size
      BY <1>4
    <2>2. ~Calling(t, "infer")
      BY DEF Allocate, Calling
    <2>3. QED
      BY <1>1, <1>3, <2>1, <2>2, CountKept DEF FfiInv
  <1>11. QED
    BY <1>5, <1>6, <1>7, <1>8, <1>9, <1>10 DEF FfiInv, Stages

LEMMA InsertKeeps ==
  ASSUME FfiInv, NEW t \in Threads, Insert(t)
  PROVE  FfiInv'
  <1> DEFINE o == call[t].on
             k == obj[o].kind
  <1>1. o \in Objects /\ Busy(t, o) /\ Unknown(o) /\ host[o] = "unknown" /\ call[t] # Nobody
    BY StageOf DEF Insert, Calling, FfiInv, Nobody
  <1>2. /\ obj[o].state = "allocated" /\ drops[o] = 0
        /\ \A u \in Threads : Busy(u, o) => u = t
    BY <1>1 DEF Insert, Unknown, Calling
  <1>3. call' \in [Threads -> CallType] /\ CallMoves(t, "idle", o)
    BY ReturnFacts DEF Insert, FfiInv
  <1>4. /\ k \in Kinds /\ obj[o].at \in Addresses
        /\ live' = [live EXCEPT ![k] = @ \union {obj[o].at}]
        /\ live \in [Kinds -> SUBSET Addresses]
    BY <1>1, <1>2, ObjectFacts DEF Insert, Registry, FfiInv, FfiTyped, AddressesDiffer
  <1>5. host' = [host EXCEPT ![o] = "given"] /\ obj' = obj /\ drops' = drops
    BY DEF Insert
  <1>6. FfiTyped'
    <2>1. live' \in [Kinds -> SUBSET Addresses]
      BY <1>4
    <2>2. host' \in [Objects -> {"unknown", "given", "freed"}]
      BY <1>5 DEF FfiInv, FfiTyped
    <2>3. QED
      BY <1>3, <1>5, <2>1, <2>2 DEF FfiInv, FfiTyped, CallType, Insert
  <1>7. ASSUME NEW p \in Objects PROVE (Unknown(p) /\ Given(p) /\ Freed(p))'
    <2>1. CASE p # o
      <3>1. obj[p].state = "allocated" => obj[p].at # obj[o].at
        BY <1>1, <1>2, <2>1 DEF FfiInv, AddressesDiffer
      <3>2. host'[p] = host[p]
        BY <1>5, <2>1 DEF FfiInv, FfiTyped
      <3>3. obj[p].kind \in Kinds
        BY ObjectFacts DEF FfiInv
      <3>4. Untouched(p)
        BY <1>4, <1>5, <3>1, <3>2, <3>3 DEF Untouched, IsLive
      <3>5. QED
        BY <2>1, <3>4, <1>1, <1>3, StageKept, OthersKept DEF FfiInv, Stages
    <2>2. CASE p = o
      <3>1. host'[p] = "given"
        BY <1>1, <1>5, <2>2 DEF FfiInv, FfiTyped
      <3>2. \A u \in Threads : ~Busy(u, p)'
        BY <1>1, <1>2, <1>3, <2>2 DEF CallMoves
      <3>3. IsLive(p)'
        BY <1>4, <1>5, <2>2 DEF IsLive
      <3>4. obj'[p].state = "allocated" /\ drops'[p] = 0
        BY <1>2, <1>5, <2>2
      <3>5. Given(p)'
        BY <3>2, <3>3, <3>4 DEF Given
      <3>6. QED
        BY <3>1, <3>5 DEF Unknown, Freed
    <2>3. QED
      BY <2>1, <2>2
  <1>8. AddressesDiffer'
    BY <1>5 DEF FfiInv, AddressesDiffer
  <1>9. LiveAreAllocated'
    <2>1. \A l \in Kinds : \A a \in live'[l] : a \in live[l] \/ (l = k /\ a = obj[o].at)
      BY <1>4
    <2>2. LiveAreAllocated
      BY DEF FfiInv
    <2>3. QED
      BY <1>1, <1>2, <1>5, <2>1, <2>2 DEF LiveAreAllocated
  <1>10. RemovesFindNoOther'
    <2>1. \A u \in Threads : call'[u].step = "remove" => u # t /\ call[u].step = "remove" /\ call'[u].on = call[u].on
      BY <1>3 DEF CallMoves
    <2>2. QED
      BY <1>5, <2>1 DEF FfiInv, RemovesFindNoOther, Calling, Reused
  <1>11. Balanced'
    <2>1. ~Calling(t, "infer")
      BY DEF Insert, Calling
    <2>2. QED
      BY <1>1, <1>3, <1>5, <2>1, CountKept DEF FfiInv
  <1>12. QED
    BY <1>6, <1>7, <1>8, <1>9, <1>10, <1>11 DEF FfiInv, Stages

LEMMA FreeKeeps ==
  ASSUME FfiInv, NEW t \in Threads, NEW o \in Objects, Free(t, o)
  PROVE  FfiInv'
  <1>1. call' \in [Threads -> CallType] /\ CallMoves(t, "remove", o) /\ call[t] = Nobody
    BY EnterFacts DEF Free, FfiInv, Steps, Freeing
  <1>2. /\ host' = [host EXCEPT ![o] = "freed"] /\ host'[o] = "freed"
        /\ UNCHANGED <<obj, live, drops, broken, aborted>>
    BY DEF Free, FfiInv, FfiTyped
  <1>3. FfiTyped'
    BY <1>1, <1>2 DEF FfiInv, FfiTyped, CallType
  <1>4. ASSUME NEW p \in Objects PROVE (Unknown(p) /\ Given(p) /\ Freed(p))'
    <2>1. CASE p # o
      <3>1. Untouched(p)
        BY <1>2, <2>1 DEF Untouched, IsLive, FfiInv, FfiTyped
      <3>2. QED
        BY <2>1, <3>1, <1>1, StageKept, OthersKept DEF FfiInv, Stages
    <2>2. CASE p = o /\ host[o] = "given"
      <3>1. obj[o].state = "allocated" /\ drops[o] = 0 /\ IsLive(o)
        BY <2>2 DEF FfiInv, Stages, Given
      <3>2. \A u \in Threads : Busy(u, o)' <=> u = t
        BY <1>1, <2>2 DEF CallMoves, Free, Inside, Busy
      <3>3. Calling(t, "remove")'
        BY <1>1 DEF CallMoves, Calling
      <3>4. Freed(o)'
        BY <1>2, <3>1, <3>2, <3>3 DEF Freed, IsLive, Calling, Freeing
      <3>5. QED
        BY <1>2, <2>2, <3>4 DEF Unknown, Given
    <2>3. CASE p = o /\ host[o] = "freed"
      <3>1. Freed(o)
        BY DEF FfiInv, Stages
      <3>2. \A u \in Threads : Busy(u, o)' <=> u = t \/ Busy(u, o)
        BY <1>1 DEF CallMoves
      <3>3. /\ call'[t].step = "remove"
            /\ \A u \in Threads : u # t => call'[u].step = call[u].step
            /\ ~Busy(t, o)
        BY <1>1 DEF CallMoves, Busy
      <3>4. Freed(o)'
        BY <1>2, <2>3, <3>1, <3>2, <3>3 DEF Freed, IsLive, Calling, Freeing
      <3>5. QED
        BY <1>2, <2>3, <3>4 DEF Unknown, Given
    <2>4. QED
      BY <2>1, <2>2, <2>3 DEF Free
  <1>5. AddressesDiffer' /\ LiveAreAllocated'
    BY <1>2, MemoryKept DEF FfiInv, MemoryStays
  <1>6. RemovesFindNoOther'
    <2>1. ~Reused(o)
      <3>1. host[o] = "given" => obj[o].state = "allocated"
        BY DEF FfiInv, Stages, Given
      <3>2. host[o] = "given" => ~Reused(o)
        BY <3>1 DEF FfiInv, AddressesDiffer, Reused
      <3>3. QED
        BY <3>2 DEF Free
    <2>2. \A u \in Threads : u # t => call'[u].step = call[u].step /\ call'[u].on = call[u].on
      BY <1>1 DEF CallMoves
    <2>3. call'[t].on = o
      BY <1>1 DEF CallMoves
    <2>4. QED
      BY <1>2, <2>1, <2>2, <2>3 DEF FfiInv, RemovesFindNoOther, Calling, Reused
  <1>7. Balanced'
    <2>1. ~Calling(t, "infer")
      BY <1>1 DEF Calling, Nobody
    <2>2. QED
      BY <1>1, <1>2, <2>1, CountKept DEF FfiInv
  <1>8. QED
    BY <1>3, <1>4, <1>5, <1>6, <1>7 DEF FfiInv, Stages

LEMMA RemoveKeeps ==
  ASSUME FfiInv, NEW t \in Threads, Remove(t)
  PROVE  FfiInv'
  <1> DEFINE o == call[t].on
             k == obj[o].kind
  <1>1. o \in Objects /\ Busy(t, o) /\ Freed(o) /\ host[o] = "freed" /\ call[t] # Nobody
    BY StageOf DEF Remove, Calling, FfiInv, Nobody, Freeing
  <1>2. call[t].step = "remove" /\ UNCHANGED <<obj, host, drops, broken, aborted>>
    BY DEF Remove, Calling
  <1>3. k \in Kinds /\ live \in [Kinds -> SUBSET Addresses]
    BY <1>1, ObjectFacts DEF FfiInv, FfiTyped
  <1>4. live' = [live EXCEPT ![k] = @ \ {obj[o].at}]
    BY DEF Remove, Registry
  <1>5. IsLive(o) => obj[o].state = "allocated"
    <2>1. SUFFICES ASSUME IsLive(o), obj[o].state # "allocated" PROVE FALSE
      OBVIOUS
    <2>2. PICK q \in Objects : obj[q].state = "allocated" /\ obj[q].kind = k /\ obj[q].at = obj[o].at
      BY <1>3, <2>1 DEF IsLive, FfiInv, LiveAreAllocated
    <2>3. Reused(o)
      BY <2>1, <2>2 DEF Reused
    <2>4. QED
      BY <1>2, <2>3 DEF FfiInv, RemovesFindNoOther, Calling
  <1>6. PICK s \in {"drop", "idle"} :
          /\ call' \in [Threads -> CallType] /\ CallMoves(t, s, o)
          /\ s = "drop" <=> IsLive(o)
    <2>1. CASE IsLive(o)
      <3>1. Step(t, "drop")
        BY <2>1 DEF Remove, IsLive, Registry
      <3>2. QED
        BY <1>1, <2>1, <3>1, StepFacts DEF FfiInv, Steps, Freeing
    <2>2. CASE ~IsLive(o)
      <3>1. Return(t)
        BY <2>2 DEF Remove, IsLive, Registry
      <3>2. QED
        BY <2>2, <3>1, ReturnFacts DEF FfiInv
    <2>3. QED
      BY <2>1, <2>2
  <1>7. FfiTyped'
    BY <1>2, <1>3, <1>4, <1>6 DEF FfiInv, FfiTyped, CallType
  <1>8. ASSUME NEW p \in Objects PROVE (Unknown(p) /\ Given(p) /\ Freed(p))'
    <2>1. CASE p # o
      <3>1. obj[p].kind \in Kinds
        BY ObjectFacts DEF FfiInv
      <3>2. obj[p].state = "allocated" /\ IsLive(o) => obj[p].at # obj[o].at
        BY <1>1, <1>5, <2>1 DEF FfiInv, AddressesDiffer
      <3>3. obj[p].state = "allocated" => (IsLive(p)' <=> IsLive(p))
        BY <1>2, <1>3, <1>4, <3>1, <3>2 DEF IsLive
      <3>4. Untouched(p)
        BY <1>2, <3>3 DEF Untouched
      <3>5. SameCalls(p)
        BY <1>1, <1>6, <2>1, OthersKept DEF FfiInv
      <3>6. QED
        BY <3>4, <3>5, StageKept DEF FfiInv, Stages
    <2>2. CASE p = o
      <3>1. ~IsLive(p)' /\ host'[p] = "freed" /\ host[p] = "freed" /\ Freed(p) /\ Busy(t, p)
        BY <1>1, <1>2, <1>3, <1>4, <2>2 DEF IsLive
      <3>2. /\ \A u \in Threads : Busy(u, p)' <=> (u = t /\ s = "drop") \/ (u # t /\ Busy(u, p))
            /\ call'[t].step = s
            /\ \A u \in Threads : u # t => call'[u].step = call[u].step
        BY <1>1, <1>6, <2>2 DEF CallMoves
      <3>3. CASE IsLive(p)
        <4>1. s = "drop" /\ obj[p].state = "allocated"
          BY <1>5, <1>6, <2>2, <3>3
        <4>2. \A u \in Threads : Busy(u, p) => ~Calling(u, "drop")
          BY <3>1, <3>3 DEF Freed
        <4>3. Freed(p)'
          BY <1>2, <3>1, <3>2, <4>1, <4>2 DEF Freed, Calling, Freeing
        <4>4. QED
          BY <3>1, <4>3 DEF Unknown, Given
      <3>4. CASE ~IsLive(p)
        <4>1. s = "idle"
          BY <1>6, <2>2, <3>4
        <4>2. \A u \in Threads : Busy(u, p)' <=> u # t /\ Busy(u, p)
          BY <3>2, <4>1
        <4>3. obj[p].state = "allocated" =>
                \E u \in Threads : u # t /\ Busy(u, p) /\ Calling(u, "drop")
          BY <1>2, <3>1, <3>4 DEF Freed, Calling
        <4>4. obj'[p].state = "allocated" =>
                \E u \in Threads : Busy(u, p)' /\ Calling(u, "drop")'
          BY <1>2, <3>2, <4>2, <4>3 DEF Calling
        <4>5. obj'[p] = obj[p] /\ drops'[p] = drops[p]
          BY <1>2
        <4>6. Freed(p)'
          BY <3>1, <3>2, <4>2, <4>4, <4>5 DEF Freed, Calling
        <4>7. QED
          BY <3>1, <4>6 DEF Unknown, Given
      <3>5. QED
        BY <3>3, <3>4
    <2>3. QED
      BY <2>1, <2>2
  <1>9. AddressesDiffer'
    BY <1>2 DEF FfiInv, AddressesDiffer
  <1>10. LiveAreAllocated'
    <2>1. \A l \in Kinds : live'[l] \subseteq live[l]
      BY <1>3, <1>4
    <2>2. LiveAreAllocated
      BY DEF FfiInv
    <2>3. QED
      BY <1>2, <2>1, <2>2 DEF LiveAreAllocated
  <1>11. RemovesFindNoOther'
    <2>1. \A u \in Threads : call'[u].step = "remove" => u # t /\ call[u].step = "remove" /\ call'[u].on = call[u].on
      BY <1>6 DEF CallMoves
    <2>2. QED
      BY <1>2, <2>1 DEF FfiInv, RemovesFindNoOther, Calling, Reused
  <1>12. Balanced'
    <2>1. ~Calling(t, "infer")
      BY <1>2 DEF Calling
    <2>2. QED
      BY <1>1, <1>2, <1>6, <2>1, CountKept DEF FfiInv
  <1>13. QED
    BY <1>7, <1>8, <1>9, <1>10, <1>11, <1>12 DEF FfiInv, Stages

LEMMA DropKeeps ==
  ASSUME FfiInv, NEW t \in Threads, Drop(t)
  PROVE  FfiInv'
  <1> DEFINE o == call[t].on
  <1>1. o \in Objects /\ Busy(t, o) /\ Freed(o) /\ host[o] = "freed" /\ call[t] # Nobody
    BY StageOf DEF Drop, Calling, FfiInv, Nobody, Freeing
  <1>2. call[t].step = "drop" /\ UNCHANGED <<live, host, aborted>>
    BY DEF Drop, Calling
  <1>3. obj[o].state = "allocated" /\ ~IsLive(o) /\ drops[o] = 0
    BY <1>1, <1>2 DEF Freed, Calling
  <1>4. Allocated(obj[o].at) = {o}
    BY <1>1, <1>3 DEF Allocated, FfiInv, AddressesDiffer
  <1>5. /\ obj' = [p \in Objects |-> IF p = o THEN [obj[p] EXCEPT !.state = "dropped"] ELSE obj[p]]
        /\ drops' = [p \in Objects |-> IF p = o THEN drops[p] + 1 ELSE drops[p]]
        /\ broken' = broken
    BY <1>4 DEF Drop, FfiInv, FfiTyped
  <1>6. /\ obj' \in [Objects -> Object]
        /\ \A p \in Objects : p # o => obj'[p] = obj[p] /\ drops'[p] = drops[p]
        /\ obj'[o].state = "dropped" /\ drops'[o] = 1
        /\ obj'[o].at = obj[o].at /\ obj'[o].kind = obj[o].kind
        /\ obj'[o].idle = obj[o].idle /\ obj'[o].size = obj[o].size
    <2>1. obj[o] \in Object /\ \A p \in Objects : obj[p] \in Object
      BY <1>1 DEF FfiInv, FfiTyped
    <2>2. [obj[o] EXCEPT !.state = "dropped"] \in Object
      BY <2>1 DEF Object
    <2>3. /\ obj'[o] = [obj[o] EXCEPT !.state = "dropped"] /\ drops'[o] = drops[o] + 1
          /\ \A p \in Objects : p # o => obj'[p] = obj[p] /\ drops'[p] = drops[p]
      BY <1>1, <1>5
    <2>4. obj' \in [Objects -> Object]
      BY <1>5, <2>1, <2>2
    <2>5. /\ obj'[o].state = "dropped" /\ obj'[o].at = obj[o].at /\ obj'[o].kind = obj[o].kind
          /\ obj'[o].idle = obj[o].idle /\ obj'[o].size = obj[o].size
      BY <2>1, <2>3 DEF Object
    <2>6. QED
      BY <1>3, <2>3, <2>4, <2>5
  <1>7. call' \in [Threads -> CallType] /\ CallMoves(t, "idle", o)
    BY ReturnFacts DEF Drop, FfiInv
  <1>8. FfiTyped'
    <2>1. drops' \in [Objects -> Nat]
      BY <1>5 DEF FfiInv, FfiTyped
    <2>2. QED
      BY <1>2, <1>5, <1>6, <1>7, <2>1 DEF FfiInv, FfiTyped, CallType
  <1>9. ASSUME NEW p \in Objects PROVE (Unknown(p) /\ Given(p) /\ Freed(p))'
    <2>1. CASE p # o
      <3>1. Untouched(p)
        BY <1>2, <1>6, <2>1 DEF Untouched, IsLive
      <3>2. SameCalls(p)
        BY <1>1, <1>7, <2>1, OthersKept DEF FfiInv
      <3>3. QED
        BY <3>1, <3>2, StageKept DEF FfiInv, Stages
    <2>2. CASE p = o
      <3>1. /\ \A u \in Threads : Busy(u, p)' <=> u # t /\ Busy(u, p)
            /\ \A u \in Threads : u # t => call'[u].step = call[u].step
        BY <1>1, <1>7, <2>2 DEF CallMoves
      <3>2. \A u \in Threads : u # t /\ Busy(u, p) => call[u].step = "remove"
        BY <1>1, <1>2, <2>2 DEF Freed, Calling, Freeing
      <3>3. /\ host'[p] = "freed" /\ obj'[p].state = "dropped" /\ drops'[p] = 1
        BY <1>1, <1>2, <1>6, <2>2
      <3>4. Freed(p)'
        BY <3>1, <3>2, <3>3 DEF Freed, Calling, Freeing
      <3>5. QED
        BY <3>3, <3>4 DEF Unknown, Given
    <2>3. QED
      BY <2>1, <2>2
  <1>10. AddressesDiffer'
    BY <1>6 DEF FfiInv, AddressesDiffer
  <1>11. LiveAreAllocated'
    <2>1. SUFFICES ASSUME NEW k \in Kinds, NEW a \in live[k]
                   PROVE  \E q \in Objects : obj'[q].state = "allocated" /\ obj'[q].kind = k /\ obj'[q].at = a
      BY <1>2 DEF LiveAreAllocated
    <2>2. PICK q \in Objects : obj[q].state = "allocated" /\ obj[q].kind = k /\ obj[q].at = a
      BY DEF FfiInv, LiveAreAllocated
    <2>3. q # o
      BY <1>3, <2>2 DEF IsLive
    <2>4. QED
      BY <1>6, <2>2, <2>3
  <1>12. RemovesFindNoOther'
    <2>1. SUFFICES ASSUME NEW u \in Threads, call'[u].step = "remove",
                          NEW p \in Objects, p # call'[u].on, obj'[p].state = "allocated",
                          obj'[p].at = obj'[call'[u].on].at, obj'[p].kind = obj'[call'[u].on].kind
                   PROVE  FALSE
      BY DEF RemovesFindNoOther, Reused, Calling
    <2>2. u # t /\ call[u].step = "remove" /\ call'[u].on = call[u].on
      BY <1>7, <2>1 DEF CallMoves
    <2>3. call[u].on \in Objects
      BY <2>2, CallFacts DEF FfiInv, Nobody
    <2>4. Reused(call[u].on)
      <3>1. p # o /\ obj'[p] = obj[p]
        BY <1>6, <2>1
      <3>2. \A x \in Objects : obj'[x].at = obj[x].at /\ obj'[x].kind = obj[x].kind
        BY <1>6
      <3>3. /\ obj[p].state = "allocated" /\ p # call[u].on
            /\ obj[p].at = obj[call[u].on].at /\ obj[p].kind = obj[call[u].on].kind
        BY <2>1, <2>2, <2>3, <3>1, <3>2
      <3>4. QED
        BY <3>3 DEF Reused
    <2>5. QED
      BY <2>2, <2>4 DEF FfiInv, RemovesFindNoOther, Calling
  <1>13. Balanced'
    <2>1. ~Calling(t, "infer")
      BY <1>2 DEF Calling
    <2>2. \A p \in Objects : obj'[p].idle = obj[p].idle /\ obj'[p].size = obj[p].size
      BY <1>6
    <2>3. QED
      BY <1>1, <1>7, <2>1, <2>2, CountKept DEF FfiInv
  <1>14. QED
    BY <1>8, <1>9, <1>10, <1>11, <1>12, <1>13 DEF FfiInv, Stages

LEMMA FfiStarts == FfiInit => FfiInv
  <1> SUFFICES ASSUME FfiInit PROVE FfiInv
    OBVIOUS
  <1> USE DEF FfiInit
  <1>1. Unborn \in Object /\ Unborn.state = "unborn" /\ Unborn.idle = 0 /\ Unborn.size = 0
    BY DEF Unborn, Object, Kinds
  <1>2. FfiTyped
    BY <1>1 DEF FfiTyped
  <1>3. \A t \in Threads : call[t] = Nobody /\ call[t].step = "idle"
    BY DEF Nobody
  <1>4. \A o \in Objects : host[o] = "unknown" /\ obj[o] = Unborn /\ drops[o] = 0
    OBVIOUS
  <1>5. Stages
    BY <1>1, <1>3, <1>4 DEF Stages, Unknown, Given, Freed, Busy
  <1>6. AddressesDiffer /\ LiveAreAllocated /\ RemovesFindNoOther
    BY <1>1, <1>3, <1>4 DEF AddressesDiffer, LiveAreAllocated, RemovesFindNoOther, Calling
  <1>7. \A o \in Objects : With(o) = {}
    BY <1>3 DEF With, Inside
  <1>8. Balanced
    BY <1>1, <1>4, <1>7, FS_EmptySet DEF Balanced
  <1>9. QED
    BY <1>2, <1>5, <1>6, <1>8 DEF FfiInv

LEMMA FfiSteps == FfiInv /\ FfiNext => FfiInv'
  <1> SUFFICES ASSUME FfiInv, FfiNext PROVE FfiInv'
    OBVIOUS
  <1>1. PICK t \in Threads :
          \/ \E o \in Objects :
               \/ NewEngine(t, o) \/ NewStream(t, o)
               \/ Free(t, o) \/ Transcribe(t, o) \/ StreamCall(t, o)
          \/ \E a \in Addresses : Allocate(t, a)
          \/ LoadFails(t) \/ Insert(t) \/ Remove(t) \/ Drop(t)
          \/ ReadWav(t) \/ TryCheckout(t) \/ Infer(t) \/ StreamReturns(t) \/ Panic(t)
    BY DEF FfiNext
  <1>2. ASSUME NEW o \in Objects, NewEngine(t, o) PROVE FfiInv'
    <2>1. PICK n \in PoolSizes : New(t, o, "engine", n)
      BY <1>2 DEF NewEngine
    <2>2. n \in Nat /\ "engine" \in Kinds
      BY PoolSizesAssumption DEF Kinds
    <2>3. QED
      BY <2>1, <2>2, NewKeeps
  <1>3. ASSUME NEW o \in Objects, NewStream(t, o) PROVE FfiInv'
    <2>1. New(t, o, "stream", 0) /\ 0 \in Nat /\ "stream" \in Kinds
      BY <1>3 DEF NewStream, Kinds
    <2>2. QED
      BY <2>1, NewKeeps
  <1>4. ASSUME NEW o \in Objects, Free(t, o) \/ Transcribe(t, o) \/ StreamCall(t, o)
        PROVE  FfiInv'
    BY <1>4, FreeKeeps, TranscribeKeeps, StreamCallKeeps
  <1>5. ASSUME NEW a \in Addresses, Allocate(t, a) PROVE FfiInv'
    BY <1>5, AllocateKeeps
  <1>6. CASE LoadFails(t) \/ Insert(t) \/ Remove(t) \/ Drop(t)
    BY <1>6, LoadFailsKeeps, InsertKeeps, RemoveKeeps, DropKeeps
  <1>7. CASE ReadWav(t) \/ TryCheckout(t) \/ Infer(t) \/ StreamReturns(t) \/ Panic(t)
    BY <1>7, ReadWavKeeps, TryCheckoutKeeps, InferKeeps, StreamReturnsKeeps, PanicKeeps
  <1>8. QED
    BY <1>1, <1>2, <1>3, <1>4, <1>5, <1>6, <1>7

LEMMA FfiStutters == FfiInv /\ UNCHANGED ffiVars => FfiInv'
  <1> SUFFICES ASSUME FfiInv, UNCHANGED ffiVars PROVE FfiInv'
    OBVIOUS
  <1> USE DEF ffiVars
  <1>1. FfiTyped'
    BY DEF FfiInv, FfiTyped
  <1>2. Stages'
    BY DEF FfiInv, Stages, Unknown, Given, Freed, Busy, IsLive, Calling
  <1>3. AddressesDiffer' /\ LiveAreAllocated' /\ RemovesFindNoOther'
    BY DEF FfiInv, AddressesDiffer, LiveAreAllocated, RemovesFindNoOther, Calling, Reused
  <1>4. Balanced'
    BY DEF FfiInv, Balanced, With, Inside, Calling
  <1>5. QED
    BY <1>1, <1>2, <1>3, <1>4 DEF FfiInv

(* What the properties say of handles, from the invariant.                 *)
LEMMA FfiSound ==
  ASSUME FfiInv
  PROVE  HandlesStayValid /\ DroppedOnce /\ TripletsAccounted
  <1>1. HandlesStayValid
    <2>1. \A o \in Objects :
            host[o] = "given" => obj[o].state = "allocated" /\ obj[o].at \in live[obj[o].kind]
      BY DEF FfiInv, Stages, Given, IsLive
    <2>2. ASSUME NEW t \in Threads, call[t].step \in {"read", "checkout", "infer", "stream"}
          PROVE  obj[call[t].on].state = "allocated"
      <3>1. call[t].on \in Objects /\ host[call[t].on] = "given"
        BY <2>2, StageOf DEF FfiInv, Nobody, Uses
      <3>2. QED
        BY <2>1, <3>1
    <2>3. QED
      BY <2>1, <2>2 DEF HandlesStayValid
  <1>2. DroppedOnce
    <2>1. ASSUME NEW o \in Objects
          PROVE  drops[o] <= 1 /\ (host[o] = "freed" /\ Inside(o) = {} => drops[o] = 1)
      <3>1. Unknown(o) /\ Given(o) /\ Freed(o) /\ host[o] \in {"unknown", "given", "freed"}
        BY DEF FfiInv, Stages, FfiTyped
      <3>2. drops[o] <= 1
        BY <3>1 DEF Unknown, Given, Freed
      <3>3. host[o] = "freed" /\ Inside(o) = {} => drops[o] = 1
        BY <3>1 DEF Freed, Inside, Busy
      <3>4. QED
        BY <3>2, <3>3
    <2>2. ~broken
      BY DEF FfiInv, FfiTyped
    <2>3. QED
      BY <2>1, <2>2 DEF DroppedOnce
  <1>3. TripletsAccounted
    <2>1. ASSUME NEW o \in Objects, obj[o].state = "dropped" PROVE With(o) = {}
      <3>1. Unknown(o) /\ Given(o) /\ Freed(o) /\ host[o] \in {"unknown", "given", "freed"}
        BY DEF FfiInv, Stages, FfiTyped
      <3>2. host[o] = "freed"
        BY <2>1, <3>1 DEF Unknown, Given
      <3>3. \A t \in Threads : Busy(t, o) => call[t].step \in Freeing
        BY <3>1, <3>2 DEF Freed
      <3>4. QED
        BY <3>3 DEF With, Inside, Calling, Busy, Freeing
    <2>2. QED
      BY <2>1 DEF TripletsAccounted, FfiInv, Balanced
  <1>4. QED
    BY <1>1, <1>2, <1>3

(* Who is turned away is in a checkout of its own that finds no triplet.   *)
LEMMA TurnedAwayByCheckout ==
  ASSUME FfiInv, FfiNext, NEW t \in Threads, TurnedAway(t)
  PROVE  TryCheckout(t) /\ ~(obj[call[t].on].idle > 0)
  <1>1. call[t].step = "checkout" /\ call[t] # Nobody /\ call'[t] = Nobody
    BY DEF TurnedAway, Calling, Nobody
  <1>2. call \in [Threads -> {Nobody} \union [step : Steps, on : Objects]]
    BY DEF FfiInv, FfiTyped
  <1>3. ASSUME NEW u \in Threads, u # t,
               (\E s : Step(u, s)) \/ (\E s, o : Enter(u, s, o)) \/ Return(u) \/ call' = call
        PROVE  FALSE
    BY <1>1, <1>2, <1>3 DEF Step, Enter, Return
  <1>4. ASSUME NEW u \in Threads, NEW o \in Objects,
               NewEngine(u, o) \/ NewStream(u, o) \/ Free(u, o) \/ Transcribe(u, o) \/ StreamCall(u, o)
        PROVE  FALSE
    <2>1. call[u] = Nobody /\ \E s : Enter(u, s, o)
      BY <1>4 DEF NewEngine, NewStream, New, Free, Transcribe, StreamCall
    <2>2. u # t
      BY <1>1, <2>1
    <2>3. QED
      BY <1>3, <2>1, <2>2
  <1>5. ASSUME NEW u \in Threads, NEW a \in Addresses, Allocate(u, a) PROVE FALSE
    <2>1. Calling(u, "load") /\ Step(u, "insert")
      BY <1>5 DEF Allocate
    <2>2. u # t
      BY <1>1, <2>1 DEF Calling
    <2>3. QED
      BY <1>3, <2>1, <2>2
  <1>6. ASSUME NEW u \in Threads,
               \/ LoadFails(u) \/ Insert(u) \/ Remove(u) \/ Drop(u)
               \/ ReadWav(u) \/ Infer(u) \/ StreamReturns(u)
        PROVE  FALSE
    <2>1. Return(u) \/ \E s : Step(u, s)
      <3>1. CASE LoadFails(u)
        BY <3>1 DEF LoadFails
      <3>2. CASE Insert(u)
        BY <3>2 DEF Insert
      <3>3. CASE Remove(u)
        BY <3>3 DEF Remove
      <3>4. CASE Drop(u)
        BY <3>4 DEF Drop
      <3>5. CASE ReadWav(u)
        BY <3>5 DEF ReadWav
      <3>6. CASE Infer(u)
        BY <3>6 DEF Infer
      <3>7. CASE StreamReturns(u)
        BY <3>7 DEF StreamReturns
      <3>8. QED
        BY <1>6, <3>1, <3>2, <3>3, <3>4, <3>5, <3>6, <3>7
    <2>2. call[u].step # "checkout"
      <3>1. CASE LoadFails(u)
        BY <3>1 DEF LoadFails, Calling
      <3>2. CASE Insert(u)
        BY <3>2 DEF Insert, Calling
      <3>3. CASE Remove(u)
        BY <3>3 DEF Remove, Calling
      <3>4. CASE Drop(u)
        BY <3>4 DEF Drop, Calling
      <3>5. CASE ReadWav(u)
        BY <3>5 DEF ReadWav, Calling
      <3>6. CASE Infer(u)
        BY <3>6 DEF Infer, Calling
      <3>7. CASE StreamReturns(u)
        BY <3>7 DEF StreamReturns, Calling
      <3>8. QED
        BY <1>6, <3>1, <3>2, <3>3, <3>4, <3>5, <3>6, <3>7
    <2>3. QED
      BY <1>1, <1>3, <2>1, <2>2
  <1>7. ASSUME NEW u \in Threads, Panic(u) PROVE FALSE
    BY <1>1, <1>7 DEF Panic
  <1>8. PICK u \in Threads : TryCheckout(u)
    BY <1>4, <1>5, <1>6, <1>7 DEF FfiNext
  <1>9. u = t
    <2>1. Return(u) \/ \E s : Step(u, s)
      BY <1>8 DEF TryCheckout
    <2>2. QED
      BY <1>3, <2>1
  <1>10. ASSUME obj[call[t].on].idle > 0 PROVE FALSE
    <2>1. Step(t, "infer")
      BY <1>8, <1>9, <1>10 DEF TryCheckout
    <2>2. call'[t].step = "infer"
      BY <1>1, <2>1, StepFacts DEF FfiInv, Steps, Uses, CallMoves
    <2>3. QED
      BY <1>1, <2>2 DEF Nobody
  <1>11. QED
    BY <1>8, <1>9, <1>10

LEMMA EmptyPoolIsBusy ==
  ASSUME FfiInv, FfiNext, NEW t \in Threads, TurnedAway(t)
  PROVE  Cardinality(With(call[t].on)) >= obj[call[t].on].size
  <1> DEFINE o == call[t].on
  <1>1. o \in Objects /\ call[t].step = "checkout" /\ obj[o].idle = 0 /\ obj[o].size \in Nat
    <2>1. ~(obj[o].idle > 0) /\ call[t].step = "checkout" /\ call[t] # Nobody
      BY TurnedAwayByCheckout DEF TurnedAway, Calling, Nobody
    <2>2. o \in Objects
      BY <2>1, CallFacts DEF FfiInv
    <2>3. obj[o].idle \in Nat /\ obj[o].size \in Nat
      BY <2>2, ObjectFacts DEF FfiInv
    <2>4. QED
      BY <2>1, <2>2, <2>3
  <1>2. IsFiniteSet(Inside(o)) /\ Cardinality(With(o)) \in Nat
    BY <1>1, WithFinite
  <1>3. Cardinality(With(o)) = obj[o].size
    BY <1>1, <1>2 DEF FfiInv, Balanced
  <1>4. QED
    BY <1>1, <1>2, <1>3

-----------------------------------------------------------------------------
(* The scan: what one more verdict changes of pauses and stretches. *)

LEMMA VadConstants ==
  /\ WindowSamples \in Nat \ {0} /\ MinSpeech \in Nat \ {0} /\ MinSilence \in Nat \ {0}
  /\ Pad \in Nat /\ MaxWindows \in Nat
  BY WindowAssumption, VadAssumption, MaxWindowsAssumption

LEMMA WholeWindows ==
  ASSUME NEW x \in Nat
  PROVE  /\ x * WindowSamples \in Nat /\ x * WindowSamples = WindowSamples * x
         /\ (x * WindowSamples) \div WindowSamples = x
         /\ (WindowSamples * x) \div WindowSamples = x
  <1>1. WindowSamples \in Nat \ {0}
    BY VadConstants
  <1>2. x * WindowSamples \in Nat /\ x * WindowSamples = WindowSamples * x
    BY <1>1
  <1>3. (WindowSamples * x) \div WindowSamples = x
    BY <1>1
  <1>4. QED
    BY <1>2, <1>3

Grows(v) ==
  /\ loud \in Seq(BOOLEAN) /\ loud' = Append(loud, v)

LEMMA GrowsFacts ==
  ASSUME NEW v \in BOOLEAN, Grows(v)
  PROVE  /\ loud' \in Seq(BOOLEAN) /\ Len(loud) \in Nat /\ Len(loud') = Len(loud) + 1
         /\ loud'[Len(loud) + 1] = v
         /\ \A j \in 1 .. Len(loud) : loud'[j] = loud[j]
  BY AppendProperties, LenProperties DEF Grows

LEMMA PauseStays ==
  ASSUME NEW v \in BOOLEAN, Grows(v), NEW k \in 0 .. Len(loud)
  PROVE  Pause(k)' <=> Pause(k)
  <1>1. /\ Len(loud) \in Nat /\ \A j \in 1 .. Len(loud) : loud'[j] = loud[j]
    BY GrowsFacts
  <1>2. CASE ~(k >= MinSilence)
    BY <1>2 DEF Pause
  <1>3. CASE k >= MinSilence
    <2>1. \A j \in k - MinSilence + 1 .. k : loud'[j] = loud[j]
      BY <1>1, <1>3, VadConstants
    <2>2. QED
      BY <2>1 DEF Pause
  <1>4. QED
    BY <1>2, <1>3

LEMMA BeginsStays ==
  ASSUME NEW v \in BOOLEAN, Grows(v), NEW k \in 1 .. Len(loud)
  PROVE  Begins(k)' <=> Begins(k)
  <1>1. /\ Len(loud) \in Nat /\ \A j \in 1 .. Len(loud) : loud'[j] = loud[j]
    BY GrowsFacts
  <1>2. \A q \in 0 .. k - 1 : Pause(q)' <=> Pause(q)
    BY <1>1, PauseStays
  <1>3. loud'[k] = loud[k] /\ \A q \in 0 .. k - 1 : \A j \in q + 1 .. k - 1 : loud'[j] = loud[j]
    BY <1>1
  <1>4. QED
    BY <1>2, <1>3 DEF Begins

LEMMA EndsStays ==
  ASSUME NEW v \in BOOLEAN, Grows(v), NEW k \in 1 .. Len(loud), NEW q \in 1 .. Len(loud)
  PROVE  EndsAt(k, q)' <=> EndsAt(k, q)
  <1>1. Len(loud) \in Nat /\ Len(loud') = Len(loud) + 1
    BY GrowsFacts
  <1>2. \A p \in k .. q : Pause(p)' <=> Pause(p)
    BY <1>1, PauseStays
  <1>3. q \in k .. Len(loud') <=> q \in k .. Len(loud)
    BY <1>1
  <1>4. q \in k .. Len(loud) => q \in k .. q /\ \A p \in k .. q - 1 : p \in k .. q
    BY <1>1
  <1>5. QED
    BY <1>2, <1>3, <1>4 DEF EndsAt

LEMMA HeardStays ==
  ASSUME NEW v \in BOOLEAN, Grows(v), NEW k \in 1 .. Len(loud)
  PROVE  Heard(k)' <=> Heard(k)
  <1>1. Len(loud) \in Nat
    BY GrowsFacts
  <1>2. \A b \in 1 .. k : Begins(b)' <=> Begins(b)
    BY <1>1, BeginsStays
  <1>3. \A b \in 1 .. k : \A p \in b .. k - 1 : Pause(p)' <=> Pause(p)
    BY <1>1, PauseStays
  <1>4. QED
    BY <1>2, <1>3 DEF Heard

(* A stretch that the new window ends is one that met no pause before.     *)
LEMMA EndsNow ==
  ASSUME NEW v \in BOOLEAN, Grows(v), NEW k \in 1 .. Len(loud), NEW n, n = Len(loud) + 1
  PROVE  EndsAt(k, n)' <=> Pause(n)' /\ \A p \in k .. Len(loud) : ~Pause(p)
  <1>1. Len(loud) \in Nat /\ Len(loud') = n
    BY GrowsFacts
  <1>2. \A p \in k .. Len(loud) : Pause(p)' <=> Pause(p)
    BY <1>1, PauseStays
  <1>3. n \in k .. Len(loud') /\ n - 1 = Len(loud)
    BY <1>1
  <1>4. QED
    BY <1>2, <1>3 DEF EndsAt

LEMMA LoudIsNoPause ==
  ASSUME NEW v \in BOOLEAN, Grows(v), NEW n, n = Len(loud) + 1, v
  PROVE  ~Pause(n)'
  <1>1. Len(loud) \in Nat /\ loud'[n] = v
    BY GrowsFacts
  <1>2. n \in n - MinSilence + 1 .. n
    BY <1>1, VadConstants
  <1>3. QED
    BY <1>1, <1>2 DEF Pause

LEMMA StretchesGrow ==
  ASSUME NEW v \in BOOLEAN, Grows(v), NEW n, n = Len(loud) + 1, NEW e
  PROVE  e \in Stretches' <=>
           \/ e \in Stretches
           \/ \E k \in 1 .. Len(loud) :
                e = <<k, n>> /\ Begins(k) /\ EndsAt(k, n)' /\ n - k + 1 >= MinSpeech
  <1> DEFINE m == Len(loud)
  <1>1. m \in Nat /\ n \in Nat /\ n = m + 1 /\ Len(loud') = n
    BY GrowsFacts
  <1>2. ASSUME NEW k \in 1 .. m, NEW q \in 1 .. m
        PROVE  (Begins(k)' <=> Begins(k)) /\ (EndsAt(k, q)' <=> EndsAt(k, q))
    BY <1>2, BeginsStays, EndsStays
  <1>3. ASSUME NEW q \in 1 .. n PROVE ~(Begins(n)' /\ EndsAt(n, q)')
    <2>1. loud'[n] = v
      BY GrowsFacts
    <2>2. Begins(n)' => v
      BY <2>1 DEF Begins
    <2>3. EndsAt(n, q)' => Pause(n)'
      <3>1. EndsAt(n, q)' => q = n /\ Pause(q)'
        BY <1>1 DEF EndsAt
      <3>2. QED
        BY <3>1
    <2>4. QED
      BY <2>2, <2>3, LoudIsNoPause
  <1>4. \A k \in 1 .. m : Begins(k)' <=> Begins(k)
    BY BeginsStays
  <1>5. e \in Stretches' <=>
          /\ e \in (1 .. n) \X (1 .. n)
          /\ Begins(e[1])' /\ EndsAt(e[1], e[2])' /\ e[2] - e[1] + 1 >= MinSpeech
    BY <1>1 DEF Stretches
  <1>6. e \in Stretches <=>
          /\ e \in (1 .. m) \X (1 .. m)
          /\ Begins(e[1]) /\ EndsAt(e[1], e[2]) /\ e[2] - e[1] + 1 >= MinSpeech
    BY DEF Stretches
  <1> HIDE DEF m
  <1>7. ASSUME e \in Stretches PROVE e \in Stretches'
    <2>1. e[1] \in 1 .. m /\ e[2] \in 1 .. m /\ e \in (1 .. n) \X (1 .. n)
      BY <1>1, <1>6, <1>7
    <2>2. QED
      BY <1>2, <1>5, <1>6, <1>7, <2>1
  <1>8. ASSUME NEW k \in 1 .. m, e = <<k, n>>, Begins(k), EndsAt(k, n)', n - k + 1 >= MinSpeech
        PROVE  e \in Stretches'
    <2>1. e \in (1 .. n) \X (1 .. n) /\ e[1] = k /\ e[2] = n
      BY <1>1, <1>8
    <2>2. Begins(k)'
      BY <1>4, <1>8
    <2>3. QED
      BY <1>5, <1>8, <2>1, <2>2
  <1>9. ASSUME e \in Stretches'
        PROVE  \/ e \in Stretches
               \/ \E k \in 1 .. m :
                    e = <<k, n>> /\ Begins(k) /\ EndsAt(k, n)' /\ n - k + 1 >= MinSpeech
    <2>1. PICK k \in 1 .. n, q \in 1 .. n : e = <<k, q>>
      BY <1>5, <1>9
    <2>2. Begins(k)' /\ EndsAt(k, q)' /\ q - k + 1 >= MinSpeech
      BY <1>5, <1>9, <2>1
    <2>3. k \in 1 .. m
      BY <1>1, <1>3, <2>1, <2>2
    <2>4. CASE q = n
      BY <1>4, <2>1, <2>2, <2>3, <2>4
    <2>5. CASE q # n
      <3>1. q \in 1 .. m
        BY <1>1, <2>5
      <3>2. QED
        BY <1>2, <1>6, <2>1, <2>2, <2>3, <3>1
    <2>6. QED
      BY <2>4, <2>5
  <1>10. QED
    BY <1>7, <1>8, <1>9 DEF m

LEMMA NotAgain ==
  ASSUME NEW v \in BOOLEAN, Grows(v), NEW n, n = Len(loud) + 1,
         ~v \/ \E k \in 1 .. Len(loud) : Unbroken(k)
  PROVE  ~Begins(n)'
  <1>1. /\ Len(loud) \in Nat /\ loud'[n] = v
        /\ \A j \in 1 .. Len(loud) : loud'[j] = loud[j]
    BY GrowsFacts
  <1>2. CASE ~v
    BY <1>1, <1>2 DEF Begins
  <1>3. CASE \E k \in 1 .. Len(loud) : Unbroken(k)
    <2>1. PICK k \in 1 .. Len(loud) : Unbroken(k)
      BY <1>3
    <2>2. loud'[k]
      BY <1>1, <2>1 DEF Unbroken, Begins
    <2>3. SUFFICES ASSUME NEW q \in 0 .. n - 1, q = 0 \/ Pause(q)',
                          \A j \in q + 1 .. n - 1 : ~loud'[j]
                   PROVE  FALSE
      BY DEF Begins
    <2>4. q \in k .. Len(loud)
      <3>1. ~(k \in q + 1 .. n - 1)
        BY <2>2, <2>3
      <3>2. QED
        BY <1>1, <3>1
    <2>5. Pause(q)' /\ q \in 0 .. Len(loud)
      BY <1>1, <2>3, <2>4
    <2>6. Pause(q)
      BY <2>5, PauseStays
    <2>7. QED
      BY <2>1, <2>4, <2>6 DEF Unbroken
  <1>4. QED
    BY <1>2, <1>3

LEMMA AllHeardGrows ==
  ASSUME NEW v \in BOOLEAN, Grows(v), NEW n, n = Len(loud) + 1, AllHeard, v => Heard(n)'
  PROVE  AllHeard'
  <1>1. /\ Len(loud) \in Nat /\ Len(loud') = n /\ loud'[n] = v
        /\ \A j \in 1 .. Len(loud) : loud'[j] = loud[j]
    BY GrowsFacts
  <1>2. ASSUME NEW k \in 1 .. n, loud'[k] PROVE Heard(k)'
    <2>1. CASE k = n
      BY <1>1, <1>2, <2>1
    <2>2. CASE k # n
      <3>1. k \in 1 .. Len(loud)
        BY <1>1, <2>2
      <3>2. Heard(k)
        BY <1>1, <1>2, <3>1 DEF AllHeard
      <3>3. QED
        BY <3>1, <3>2, HeardStays
    <2>3. QED
      BY <2>1, <2>2
  <1>3. QED
    BY <1>1, <1>2 DEF AllHeard

(* Every stretch that had ended, stays so; the open one and a new one are  *)
(* accounted for by the caller.                                            *)
LEMMA EachEndsGrows ==
  ASSUME NEW v \in BOOLEAN, Grows(v), NEW n, n = Len(loud) + 1, EachEnds,
         \A k \in 1 .. Len(loud) :
           Begins(k) /\ OpenFrom(k) => OpenFrom(k)' \/ EndsAt(k, n)',
         Begins(n)' => OpenFrom(n)'
  PROVE  EachEnds'
  <1>1. Len(loud) \in Nat /\ Len(loud') = n /\ n \in 1 .. n
    BY GrowsFacts
  <1>2. ASSUME NEW k \in 1 .. n, Begins(k)'
        PROVE  (\E q \in 1 .. n : EndsAt(k, q)') \/ OpenFrom(k)'
    <2>1. CASE k = n
      BY <1>2, <2>1
    <2>2. CASE k # n
      <3>1. k \in 1 .. Len(loud)
        BY <1>1, <2>2
      <3>2. Begins(k)
        BY <1>2, <3>1, BeginsStays
      <3>3. CASE OpenFrom(k)
        BY <1>1, <3>1, <3>2, <3>3
      <3>4. CASE \E q \in 1 .. Len(loud) : EndsAt(k, q)
        <4>1. PICK q \in 1 .. Len(loud) : EndsAt(k, q)
          BY <3>4
        <4>2. EndsAt(k, q)' /\ q \in 1 .. n
          BY <1>1, <3>1, <4>1, EndsStays
        <4>3. QED
          BY <4>2
      <3>5. QED
        BY <3>1, <3>2, <3>3, <3>4 DEF EachEnds
    <2>3. QED
      BY <2>1, <2>2
  <1>3. QED
    BY <1>1, <1>2 DEF EachEnds

LEMMA SegmentsStay ==
  ASSUME NEW v \in BOOLEAN, Grows(v), NEW n, n = Len(loud) + 1, SegmentsAre,
         segments' = segments,
         \A k \in 1 .. Len(loud) : Begins(k) => ~EndsAt(k, n)'
  PROVE  SegmentsAre'
  <1>1. \A e : e \in Stretches' <=> e \in Stretches
    BY StretchesGrow
  <1>2. \A e : InSamples(e)' = InSamples(e)
    BY DEF InSamples
  <1>3. QED
    BY <1>1, <1>2 DEF SegmentsAre

LEMMA AppendedHolds ==
  ASSUME NEW S, NEW s \in Seq(S), NEW x \in S, NEW y
  PROVE  Holds(Append(s, x), y) <=> Holds(s, y) \/ y = x
  <1>1. /\ DOMAIN s = 1 .. Len(s) /\ Len(s) \in Nat
        /\ DOMAIN Append(s, x) = 1 .. Len(s) + 1
        /\ Append(s, x)[Len(s) + 1] = x
        /\ \A j \in 1 .. Len(s) : Append(s, x)[j] = s[j]
    <2>1. Append(s, x) \in Seq(S) /\ Len(Append(s, x)) = Len(s) + 1
      BY AppendProperties
    <2>2. QED
      BY <2>1, AppendProperties, LenProperties
  <1>2. QED
    BY <1>1 DEF Holds

LEMMA SegmentsAppend ==
  ASSUME NEW v \in BOOLEAN, Grows(v), NEW n, n = Len(loud) + 1, SegmentsAre,
         segments \in Seq(Nat \X Nat),
         NEW b \in 1 .. Len(loud), Begins(b), EndsAt(b, n)',
         \A k \in 1 .. Len(loud) : Begins(k) /\ EndsAt(k, n)' => k = b,
         LET new == <<WindowSamples * (b - 1), WindowSamples * n>> IN
         segments' = IF n - b + 1 >= MinSpeech THEN Append(segments, new) ELSE segments
  PROVE  SegmentsAre'
  <1> DEFINE new == <<WindowSamples * (b - 1), WindowSamples * n>>
  <1>1. Len(loud) \in Nat /\ n \in Nat /\ b \in Nat /\ b >= 1
    BY GrowsFacts
  <1>2. new \in Nat \X Nat /\ InSamples(<<b, n>>) = new
    <2>1. b - 1 \in Nat
      BY <1>1
    <2>2. WindowSamples * (b - 1) \in Nat
      BY <2>1, WholeWindows
    <2>3. WindowSamples * n \in Nat
      BY <1>1, WholeWindows
    <2>4. QED
      BY <2>2, <2>3 DEF InSamples
  <1>3. \A e : InSamples(e)' = InSamples(e)
    BY DEF InSamples
  <1>4. \A e : e \in Stretches' <=> e \in Stretches \/ (e = <<b, n>> /\ n - b + 1 >= MinSpeech)
    BY StretchesGrow
  <1> HIDE DEF new
  <1>5. CASE n - b + 1 >= MinSpeech
    <2>1. segments' = Append(segments, new)
      BY <1>5 DEF new
    <2>2. \A s : Holds(segments', s) <=> Holds(segments, s) \/ s = new
      <3>1. segments \in Seq(Nat \X Nat) /\ new \in Nat \X Nat
        BY <1>2
      <3>2. ASSUME NEW s PROVE Holds(Append(segments, new), s) <=> Holds(segments, s) \/ s = new
        BY <3>1, AppendedHolds
      <3>3. QED
        BY <2>1, <3>2
    <2>3. \A s : (\E e \in Stretches' : s = InSamples(e)')
                   <=> (\E e \in Stretches : s = InSamples(e)) \/ s = new
      BY <1>2, <1>3, <1>4, <1>5
    <2>4. QED
      BY <2>2, <2>3 DEF SegmentsAre
  <1>6. CASE ~(n - b + 1 >= MinSpeech)
    BY <1>3, <1>4, <1>6 DEF SegmentsAre
  <1>7. QED
    BY <1>5, <1>6

(* What a window finds, and what it must leave.                            *)
LEMMA WindowFinds ==
  ASSUME VadInv, NEW v \in BOOLEAN, Window(v)
  PROVE  /\ Grows(v) /\ Len(loud) \in Nat /\ VadTyped
         /\ SegmentsAre /\ AllHeard /\ EachEnds
         /\ IF inSpeech THEN \E k \in 1 .. Len(loud) : Open(k) ELSE QuietEnd
  <1>1. phase = "scan" /\ loud' = Append(loud, v)
    BY DEF Window
  <1>2. VadTyped /\ Scanning /\ loud \in Seq(BOOLEAN)
    BY DEF VadInv, VadTyped
  <1>3. Len(loud) \in Nat
    BY <1>2, LenProperties
  <1>4. QED
    BY <1>1, <1>2, <1>3 DEF Scanning, Grows

LEMMA WindowLeaves ==
  ASSUME VadInv, NEW v \in BOOLEAN, Window(v),
         inSpeech' \in BOOLEAN, segStart' \in Nat, silence' \in 0 .. MinSilence - 1,
         segments' \in Seq(Nat \X Nat),
         SegmentsAre', AllHeard', EachEnds',
         IF inSpeech' THEN \E k \in 1 .. Len(loud') : Open(k)' ELSE QuietEnd'
  PROVE  VadInv'
  <1>1. /\ phase = "scan" /\ phase' = phase /\ length' = length /\ words' = words
        /\ Len(loud) < NumWindows
    BY DEF Window
  <1>2. loud' \in Seq(BOOLEAN) /\ Len(loud') = Len(loud) + 1 /\ Len(loud) \in Nat
    BY WindowFinds, GrowsFacts
  <1>3. VadTyped'
    BY <1>1, <1>2 DEF VadInv, VadTyped
  <1>4. NumWindows \in Int
    BY VadConstants DEF VadInv, VadTyped, NumWindows
  <1>5. Len(loud') <= NumWindows'
    BY <1>1, <1>2, <1>4 DEF NumWindows
  <1>6. Scanning'
    BY <1>1, <1>5 DEF VadInv, Scanning
  <1>7. Transcribing'
    BY <1>1 DEF Transcribing
  <1>8. (words \in Seq(SUBSET Word))'
    BY <1>1 DEF VadInv
  <1>9. QED
    BY <1>3, <1>6, <1>7, <1>8 DEF VadInv

LEMMA OneOpens ==
  ASSUME VadTyped, NEW k \in Nat \ {0}, NEW l \in Nat \ {0}, OpenFrom(k), OpenFrom(l)
  PROVE  k = l
  <1>1. k - 1 \in Nat /\ l - 1 \in Nat
    OBVIOUS
  <1>2. (WindowSamples * (k - 1)) \div WindowSamples = k - 1
    BY <1>1, WholeWindows
  <1>3. (WindowSamples * (l - 1)) \div WindowSamples = l - 1
    BY <1>1, WholeWindows
  <1>4. k - 1 = l - 1
    BY <1>2, <1>3 DEF OpenFrom
  <1>5. QED
    BY <1>4

(* The window that completes a pause closes the open stretch.              *)
LEMMA ClosingKeeps ==
  ASSUME VadInv, NEW v \in BOOLEAN, Window(v), inSpeech, QuietRun(v) >= MinSilence
  PROVE  VadInv'
  <1> DEFINE m == Len(loud)
  <1>0. PICK n : n = m + 1
    OBVIOUS
  <1>1. /\ Grows(v) /\ m \in Nat /\ VadTyped /\ SegmentsAre /\ AllHeard /\ EachEnds
        /\ \E k \in 1 .. m : Open(k)
    BY WindowFinds
  <1>2. ~v /\ silence = MinSilence - 1 /\ silence \in Nat
    BY <1>1, VadConstants DEF QuietRun, VadTyped
  <1>3. PICK k \in 1 .. m : Open(k)
    BY <1>1
  <1>4. /\ segments' = Push(n * WindowSamples)
        /\ inSpeech' = FALSE /\ silence' = 0 /\ segStart' = segStart
    <2>1. ~(QuietRun(v) < MinSilence)
      BY <1>1, <1>2, VadConstants DEF QuietRun
    <2>2. QED
      BY <1>0, <2>1 DEF Window
  <1>5. loud'[n] = v /\ \A j \in 1 .. m : loud'[j] = loud[j]
    BY <1>0, <1>1, GrowsFacts
  <1>6. Len(loud') = n
    BY <1>0, <1>1, GrowsFacts
  <1>7. Pause(n)'
    <2>1. k <= m - silence /\ \A j \in m - silence + 1 .. m : ~loud[j]
      BY <1>3 DEF Open
    <2>2. n >= MinSilence /\ n - MinSilence + 1 >= 1
      BY <1>0, <1>1, <1>2, <2>1, VadConstants
    <2>3. ASSUME NEW j \in n - MinSilence + 1 .. n PROVE ~loud'[j]
      <3>1. CASE j = n
        BY <1>2, <1>5, <3>1
      <3>2. CASE j # n
        <4>1. j \in m - silence + 1 .. m /\ j \in 1 .. m
          BY <1>0, <1>1, <1>2, <2>2, <3>2, VadConstants
        <4>2. QED
          BY <1>5, <2>1, <4>1
      <3>3. QED
        BY <3>1, <3>2
    <2>4. QED
      BY <2>2, <2>3 DEF Pause
  <1>8. n = m + 1 /\ n \in Nat
    BY <1>0, <1>1
  <1>9. EndsAt(k, n)' /\ Begins(k)
    BY <1>1, <1>3, <1>7, <1>8, EndsNow DEF Open, Unbroken
  <1>10. ASSUME NEW l \in 1 .. m, Begins(l), EndsAt(l, n)' PROVE l = k
    <2>1. \A p \in l .. m : ~Pause(p)
      BY <1>1, <1>8, <1>10, EndsNow
    <2>2. ~\E q \in 1 .. m : EndsAt(l, q)
      BY <2>1 DEF EndsAt
    <2>3. OpenFrom(l)
      BY <1>1, <1>10, <2>2 DEF EachEnds
    <2>4. OpenFrom(k)
      BY <1>3 DEF Open
    <2>5. QED
      BY <1>1, <2>3, <2>4, OneOpens
  <1>11. SegmentsAre'
    <2>1. segStart = WindowSamples * (k - 1) /\ k - 1 \in Nat
      BY <1>3 DEF Open, OpenFrom
    <2>2. segStart \div WindowSamples = k - 1
      BY <2>1, WholeWindows
    <2>3. (n * WindowSamples) \div WindowSamples = n /\ n * WindowSamples = WindowSamples * n
      BY <1>8, WholeWindows
    <2>4. n - (k - 1) = n - k + 1
      BY <1>8
    <2>5. segments' = IF n - k + 1 >= MinSpeech
                      THEN Append(segments, <<WindowSamples * (k - 1), WindowSamples * n>>)
                      ELSE segments
      BY <1>4, <2>1, <2>2, <2>3, <2>4 DEF Push
    <2>6. segments \in Seq(Nat \X Nat)
      BY <1>1 DEF VadTyped
    <2>7. QED
      BY <1>1, <1>8, <1>9, <1>10, <2>5, <2>6, SegmentsAppend
  <1>12. AllHeard'
    BY <1>1, <1>2, <1>8, AllHeardGrows
  <1>13. EachEnds'
    <2>1. ~Begins(n)'
      BY <1>1, <1>2, <1>8, NotAgain
    <2>2. ASSUME NEW l \in 1 .. m, OpenFrom(l) PROVE EndsAt(l, n)'
      <3>1. l = k
        BY <1>1, <1>3, <2>2, OneOpens DEF Open
      <3>2. QED
        BY <1>9, <3>1
    <2>3. QED
      BY <1>1, <1>8, <2>1, <2>2, EachEndsGrows
  <1>14. QuietEnd'
    BY <1>6, <1>7, <1>8 DEF QuietEnd
  <1>15. segments' \in Seq(Nat \X Nat)
    <2>1. segStart \in Nat /\ n * WindowSamples \in Nat /\ segments \in Seq(Nat \X Nat)
      BY <1>1, <1>8, WholeWindows DEF VadTyped
    <2>2. QED
      BY <1>4, <2>1, AppendProperties DEF Push
  <1>16. inSpeech' \in BOOLEAN /\ segStart' \in Nat /\ silence' \in 0 .. MinSilence - 1
    <2>1. segStart \in Nat /\ 0 \in 0 .. MinSilence - 1
      BY <1>1, VadConstants DEF VadTyped
    <2>2. QED
      BY <1>4, <2>1
  <1>17. QED
    BY <1>4, <1>11, <1>12, <1>13, <1>14, <1>15, <1>16, WindowLeaves

(* A window that completes none leaves it open.                            *)
LEMMA NoPauseYet ==
  ASSUME NEW v \in BOOLEAN, Grows(v), VadTyped, NEW k \in 1 .. Len(loud), Open(k),
         QuietRun(v) < MinSilence, NEW n, n = Len(loud) + 1
  PROVE  ~Pause(n)'
  <1>1. /\ Len(loud) \in Nat
        /\ \A j \in 1 .. Len(loud) : loud'[j] = loud[j]
    BY GrowsFacts
  <1>2. CASE v
    BY <1>2, LoudIsNoPause
  <1>3. CASE ~v
    <2>1. silence + 1 < MinSilence /\ silence \in Nat
      BY <1>3 DEF QuietRun, VadTyped
    <2>2. k <= Len(loud) - silence /\ loud[Len(loud) - silence]
      BY DEF Open
    <2>3. Len(loud) - silence \in 1 .. Len(loud)
      BY <1>1, <2>1, <2>2
    <2>4. Len(loud) - silence \in n - MinSilence + 1 .. n
      BY <1>1, <2>1, VadConstants
    <2>5. loud'[Len(loud) - silence]
      BY <1>1, <2>2, <2>3
    <2>6. QED
      BY <2>4, <2>5 DEF Pause
  <1>4. QED
    BY <1>2, <1>3

LEMMA StayingOpenKeeps ==
  ASSUME VadInv, NEW v \in BOOLEAN, Window(v), inSpeech, QuietRun(v) < MinSilence
  PROVE  VadInv'
  <1> DEFINE m == Len(loud)
  <1>0. PICK n : n = m + 1
    OBVIOUS
  <1>1. /\ Grows(v) /\ m \in Nat /\ VadTyped /\ SegmentsAre /\ AllHeard /\ EachEnds
        /\ \E k \in 1 .. m : Open(k)
    BY WindowFinds
  <1>2. silence \in Nat /\ silence < MinSilence
    BY <1>1, VadConstants DEF VadTyped
  <1>3. PICK k \in 1 .. m : Open(k)
    BY <1>1
  <1>4. /\ silence' = QuietRun(v) /\ segments' = segments
        /\ inSpeech' = inSpeech /\ segStart' = segStart
    <2>1. ~(QuietRun(v) >= MinSilence)
      BY <1>2, VadConstants DEF QuietRun
    <2>2. QED
      BY <2>1 DEF Window
  <1>5. loud'[n] = v /\ Len(loud') = n /\ \A j \in 1 .. m : loud'[j] = loud[j]
    BY <1>0, <1>1, GrowsFacts
  <1>6. n = m + 1 /\ n \in Nat
    BY <1>0, <1>1
  <1>7. ~Pause(n)'
    BY <1>1, <1>3, <1>6, NoPauseYet
  <1>8. \A p \in k .. n : ~Pause(p)'
    <2>1. ASSUME NEW p \in k .. n PROVE ~Pause(p)'
      <3>1. CASE p = n
        BY <1>7, <3>1
      <3>2. CASE p # n
        <4>1. p \in 0 .. m /\ p \in k .. m
          BY <1>1, <1>6, <3>2
        <4>2. ~Pause(p)
          BY <1>3, <4>1 DEF Open, Unbroken
        <4>3. QED
          BY <1>1, <4>1, <4>2, PauseStays
      <3>3. QED
        BY <3>1, <3>2
    <2>2. QED
      BY <2>1
  <1>9. Begins(k)'
    BY <1>1, <1>3, BeginsStays DEF Open, Unbroken
  <1>10. Unbroken(k)'
    BY <1>5, <1>8, <1>9 DEF Unbroken
  <1>11. Open(k)'
    <2>1. OpenFrom(k)'
      BY <1>3, <1>4 DEF Open, OpenFrom
    <2>2. /\ k <= n - silence' /\ loud'[n - silence']
          /\ \A j \in n - silence' + 1 .. n : ~loud'[j]
      <3>1. CASE v
        <4>1. silence' = 0
          BY <1>4, <3>1 DEF QuietRun
        <4>2. QED
          <5>1. n - silence' = n /\ n - silence' + 1 .. n = {}
            BY <1>6, <4>1
          <5>2. loud'[n] /\ k <= n
            BY <1>5, <1>6, <3>1
          <5>3. QED
            BY <5>1, <5>2
      <3>2. CASE ~v
        <4>1. silence' = silence + 1 /\ n - silence' = m - silence
          BY <1>2, <1>4, <1>6, <3>2 DEF QuietRun
        <4>2. /\ k <= m - silence /\ loud[m - silence]
              /\ \A j \in m - silence + 1 .. m : ~loud[j]
          BY <1>3 DEF Open
        <4>3. m - silence \in 1 .. m
          BY <1>1, <1>2, <4>2
        <4>4. loud'[m - silence]
          BY <1>5, <4>2, <4>3
        <4>5. ASSUME NEW j \in m - silence + 1 .. n PROVE ~loud'[j]
          <5>1. CASE j = n
            BY <1>5, <3>2, <5>1
          <5>2. CASE j # n
            <6>1. j \in m - silence + 1 .. m /\ j \in 1 .. m
              BY <1>2, <1>6, <4>3, <5>2
            <6>2. QED
              BY <1>5, <4>2, <6>1
          <5>3. QED
            BY <5>1, <5>2
        <4>6. QED
          BY <4>1, <4>2, <4>4, <4>5
      <3>3. QED
        BY <3>1, <3>2
    <2>3. QED
      BY <1>5, <1>10, <2>1, <2>2 DEF Open
  <1>12. SegmentsAre'
    <2>1. \A l \in 1 .. m : ~EndsAt(l, n)'
      BY <1>7 DEF EndsAt
    <2>2. QED
      BY <1>1, <1>4, <1>6, <2>1, SegmentsStay
  <1>13. AllHeard'
    <2>1. Heard(n)'
      <3>1. k \in 1 .. n /\ \A p \in k .. n - 1 : ~Pause(p)'
        BY <1>6, <1>8
      <3>2. QED
        BY <1>9, <3>1 DEF Heard
    <2>2. QED
      BY <1>1, <1>6, <2>1, AllHeardGrows
  <1>14. EachEnds'
    <2>1. ~Begins(n)'
      BY <1>1, <1>3, <1>6, NotAgain DEF Open
    <2>2. \A l \in 1 .. m : OpenFrom(l) => OpenFrom(l)'
      BY <1>4 DEF OpenFrom
    <2>3. QED
      BY <1>1, <1>6, <2>1, <2>2, EachEndsGrows
  <1>15. /\ inSpeech' \in BOOLEAN /\ segStart' \in Nat /\ silence' \in 0 .. MinSilence - 1
         /\ segments' \in Seq(Nat \X Nat)
    BY <1>1, <1>2, <1>4, VadConstants DEF VadTyped, QuietRun
  <1>16. inSpeech' /\ k \in 1 .. Len(loud')
    BY <1>4, <1>5, <1>6
  <1>17. QED
    BY <1>11, <1>12, <1>13, <1>14, <1>15, <1>16, WindowLeaves

LEMMA OpeningKeeps ==
  ASSUME VadInv, NEW v \in BOOLEAN, Window(v), ~inSpeech, v
  PROVE  VadInv'
  <1> DEFINE m == Len(loud)
  <1>0. PICK n : n = m + 1
    OBVIOUS
  <1>1. /\ Grows(v) /\ m \in Nat /\ VadTyped /\ SegmentsAre /\ AllHeard /\ EachEnds
        /\ QuietEnd
    BY WindowFinds
  <1>2. /\ segStart' = m * WindowSamples /\ inSpeech' = TRUE /\ silence' = 0
        /\ segments' = segments
    BY DEF Window
  <1>3. loud'[n] = v /\ Len(loud') = n /\ \A j \in 1 .. m : loud'[j] = loud[j]
    BY <1>0, <1>1, GrowsFacts
  <1>4. n = m + 1 /\ n \in Nat /\ n - 1 = m
    BY <1>0, <1>1
  <1>5. ~Pause(n)'
    BY <1>1, <1>4, LoudIsNoPause
  <1>6. Begins(n)'
    <2>1. PICK q \in 0 .. m : (q = 0 \/ Pause(q)) /\ \A j \in q + 1 .. m : ~loud[j]
      BY <1>1 DEF QuietEnd
    <2>2. q = 0 \/ Pause(q)'
      BY <1>1, <2>1, PauseStays
    <2>3. \A j \in q + 1 .. m : ~loud'[j]
      BY <1>3, <2>1
    <2>4. QED
      BY <1>3, <1>4, <2>2, <2>3 DEF Begins
  <1>7. OpenFrom(n)'
    <2>1. m * WindowSamples = WindowSamples * m
      BY <1>1, WholeWindows
    <2>2. QED
      BY <1>2, <1>4, <2>1 DEF OpenFrom
  <1>8. Open(n)'
    <2>1. \A p \in n .. n : ~Pause(p)'
      BY <1>4, <1>5
    <2>2. Unbroken(n)'
      BY <1>3, <1>6, <2>1 DEF Unbroken
    <2>3. n - silence' = n /\ n - silence' + 1 .. n = {}
      BY <1>2, <1>4
    <2>4. n <= n - silence' /\ loud'[n - silence']
      <3>1. loud'[n]
        BY <1>3
      <3>2. QED
        BY <1>4, <2>3, <3>1
    <2>5. \A j \in n - silence' + 1 .. n : ~loud'[j]
      BY <2>3
    <2>6. QED
      BY <1>3, <1>7, <2>2, <2>4, <2>5 DEF Open
  <1>9. SegmentsAre'
    <2>1. \A l \in 1 .. m : ~EndsAt(l, n)'
      BY <1>5 DEF EndsAt
    <2>2. QED
      BY <1>1, <1>2, <1>4, <2>1, SegmentsStay
  <1>10. AllHeard'
    <2>1. n \in 1 .. n /\ n .. n - 1 = {}
      BY <1>4
    <2>2. Heard(n)'
      BY <1>6, <2>1 DEF Heard
    <2>3. QED
      BY <1>1, <1>4, <2>2, AllHeardGrows
  <1>11. EachEnds'
    <2>1. \A l \in 1 .. m : ~OpenFrom(l)
      BY DEF OpenFrom
    <2>2. QED
      BY <1>1, <1>4, <1>7, <2>1, EachEndsGrows
  <1>12. /\ inSpeech' \in BOOLEAN /\ segStart' \in Nat /\ silence' \in 0 .. MinSilence - 1
         /\ segments' \in Seq(Nat \X Nat)
    BY <1>1, <1>2, WholeWindows, VadConstants DEF VadTyped
  <1>13. n \in 1 .. Len(loud')
    BY <1>3, <1>4
  <1>14. QED
    BY <1>2, <1>8, <1>9, <1>10, <1>11, <1>12, <1>13, WindowLeaves

LEMMA QuietKeeps ==
  ASSUME VadInv, NEW v \in BOOLEAN, Window(v), ~inSpeech, ~v
  PROVE  VadInv'
  <1> DEFINE m == Len(loud)
  <1>0. PICK n : n = m + 1
    OBVIOUS
  <1>1. /\ Grows(v) /\ m \in Nat /\ VadTyped /\ SegmentsAre /\ AllHeard /\ EachEnds
        /\ QuietEnd
    BY WindowFinds
  <1>2. /\ segStart' = segStart /\ inSpeech' = inSpeech /\ silence' = silence
        /\ segments' = segments
    BY DEF Window, scan
  <1>3. loud'[n] = v /\ Len(loud') = n /\ \A j \in 1 .. m : loud'[j] = loud[j]
    BY <1>0, <1>1, GrowsFacts
  <1>4. n = m + 1 /\ n \in Nat /\ n - 1 = m
    BY <1>0, <1>1
  <1>5. QuietEnd'
    <2>1. PICK q \in 0 .. m : (q = 0 \/ Pause(q)) /\ \A j \in q + 1 .. m : ~loud[j]
      BY <1>1 DEF QuietEnd
    <2>2. q = 0 \/ Pause(q)'
      BY <1>1, <2>1, PauseStays
    <2>3. ASSUME NEW j \in q + 1 .. n PROVE ~loud'[j]
      <3>1. CASE j = n
        BY <1>3, <3>1
      <3>2. CASE j # n
        <4>1. j \in q + 1 .. m /\ j \in 1 .. m
          BY <1>4, <3>2
        <4>2. QED
          BY <1>3, <2>1, <4>1
      <3>3. QED
        BY <3>1, <3>2
    <2>4. q \in 0 .. Len(loud')
      BY <1>3, <1>4
    <2>5. QED
      BY <1>3, <2>2, <2>3, <2>4 DEF QuietEnd
  <1>6. SegmentsAre'
    <2>1. ASSUME NEW l \in 1 .. m, Begins(l) PROVE ~EndsAt(l, n)'
      <3>1. PICK q \in 1 .. m : EndsAt(l, q)
        BY <1>1, <2>1 DEF EachEnds, OpenFrom
      <3>2. q \in l .. m /\ Pause(q)
        BY <3>1 DEF EndsAt
      <3>3. QED
        BY <1>1, <1>4, <3>2, EndsNow
    <2>2. QED
      BY <1>1, <1>2, <1>4, <2>1, SegmentsStay
  <1>7. AllHeard'
    BY <1>1, <1>4, AllHeardGrows
  <1>8. EachEnds'
    <2>1. \A l \in 1 .. m : ~OpenFrom(l)
      BY DEF OpenFrom
    <2>2. ~Begins(n)'
      BY <1>1, <1>4, NotAgain
    <2>3. QED
      BY <1>1, <1>4, <2>1, <2>2, EachEndsGrows
  <1>9. QED
    BY <1>1, <1>2, <1>5, <1>6, <1>7, <1>8, WindowLeaves DEF VadTyped

LEMMA WindowKeeps ==
  ASSUME VadInv, NEW v \in BOOLEAN, Window(v)
  PROVE  VadInv'
  <1>1. QuietRun(v) \in Nat /\ inSpeech \in BOOLEAN
    BY VadConstants DEF VadInv, VadTyped, QuietRun
  <1>2. QED
    BY <1>1, VadConstants, ClosingKeeps, StayingOpenKeeps, OpeningKeeps, QuietKeeps

(***************************************************************************)
(* The end of the scan.                                                    *)
(***************************************************************************)
LEMMA CompleteWindows ==
  ASSUME NEW x \in Nat
  PROVE  x \div WindowSamples \in Nat /\ (x \div WindowSamples) * WindowSamples <= x
  <1> DEFINE d == x \div WindowSamples
  <1>1. WindowSamples \in Nat \ {0}
    BY VadConstants
  <1>2. PICK r \in 0 .. WindowSamples - 1 : d \in Int /\ x = WindowSamples * d + r
    <2>1. d \in Int
      BY <1>1
    <2>2. x % WindowSamples \in 0 .. WindowSamples - 1
      BY <1>1
    <2>3. x = WindowSamples * d + (x % WindowSamples)
      BY <1>1
    <2>4. QED
      BY <2>1, <2>2, <2>3
  <1>3. d >= 0
    <2>1. SUFFICES ASSUME 0 - d - 1 \in Nat PROVE FALSE
      BY <1>2
    <2>2. (0 - d - 1) * WindowSamples \in Nat
      BY <2>1, WholeWindows
    <2>3. (0 - d - 1) * WindowSamples = 0 - WindowSamples * d - WindowSamples
      BY <1>1, <1>2
    <2>4. QED
      BY <1>1, <1>2, <2>2, <2>3
  <1>4. WindowSamples * d = d * WindowSamples
    BY <1>1, <1>2
  <1>5. d * WindowSamples <= x
    BY <1>1, <1>2, <1>4
  <1>6. QED
    BY <1>2, <1>3, <1>5

LEMMA VadStarts == VadInit => VadInv
  <1> SUFFICES ASSUME VadInit PROVE VadInv
    OBVIOUS
  <1>1. VadTyped
    <2>1. 0 \in 0 .. MinSilence - 1
      BY VadConstants
    <2>2. QED
      BY <2>1, EmptySeq DEF VadInit, VadTyped
  <1>2. words \in Seq(SUBSET Word)
    BY DEF VadInit
  <1>3. Scanning /\ Transcribing
    BY DEF VadInit, Scanning, Transcribing
  <1>4. QED
    BY <1>1, <1>2, <1>3 DEF VadInv

LEMMA SplitKeeps == VadInv /\ Split => VadInv'
  <1> SUFFICES ASSUME VadInv, Split PROVE VadInv'
    OBVIOUS
  <1>1. /\ phase' = "scan" /\ length' \in 0 .. MaxWindows * WindowSamples
        /\ loud' = <<>> /\ segments' = <<>> /\ words' = <<>>
        /\ inSpeech' = FALSE /\ segStart' = 0 /\ silence' = 0
    BY DEF Split
  <1>2. Len(loud') = 0 /\ 1 .. Len(loud') = {} /\ DOMAIN segments' = {}
    BY <1>1
  <1>3. length' \in Nat
    <2>1. MaxWindows * WindowSamples \in Nat
      BY VadConstants, WholeWindows
    <2>2. QED
      BY <1>1, <2>1
  <1>4. VadTyped'
    <2>1. 0 \in 0 .. MinSilence - 1
      BY VadConstants
    <2>2. QED
      BY <1>1, <1>3, <2>1, EmptySeq DEF VadTyped
  <1>5. SegmentsAre'
    <2>1. \A s : ~Holds(segments', s)
      BY <1>2 DEF Holds
    <2>2. Stretches' = {}
      BY <1>2 DEF Stretches
    <2>3. QED
      BY <2>1, <2>2 DEF SegmentsAre
  <1>6. AllHeard' /\ EachEnds'
    BY <1>2 DEF AllHeard, EachEnds
  <1>7. QuietEnd'
    <2>1. 0 \in 0 .. Len(loud') /\ 0 + 1 .. Len(loud') = {}
      BY <1>2
    <2>2. QED
      BY <2>1 DEF QuietEnd
  <1>8. Len(loud') <= NumWindows'
    <2>1. NumWindows' >= 0
      BY <1>3, CompleteWindows DEF NumWindows
    <2>2. QED
      BY <1>2, <2>1
  <1>9. Scanning'
    BY <1>1, <1>5, <1>6, <1>7, <1>8 DEF Scanning
  <1>10. Transcribing' /\ (words \in Seq(SUBSET Word))'
    BY <1>1 DEF Transcribing
  <1>11. QED
    BY <1>4, <1>9, <1>10 DEF VadInv

LEMMA SplitFailsKeeps == VadInv /\ SplitFails => VadInv'
  <1> SUFFICES ASSUME VadInv, SplitFails PROVE VadInv'
    OBVIOUS
  <1>1. /\ phase' = "done" /\ segments' = <<>> /\ loud' = loud /\ length' = length
        /\ inSpeech' = inSpeech /\ segStart' = segStart /\ silence' = silence
        /\ words' = words
    BY DEF SplitFails, scan
  <1>2. VadTyped' /\ (words \in Seq(SUBSET Word))'
    BY <1>1 DEF VadInv, VadTyped
  <1>3. Scanning' /\ Transcribing'
    BY <1>1 DEF Scanning, Transcribing
  <1>4. QED
    BY <1>2, <1>3 DEF VadInv

LEMMA EndOfEnded ==
  ASSUME Len(loud) \in Nat, NEW k \in 1 .. Len(loud), NEW q, EndsAt(k, q)
  PROVE  EndOf(k) = q
  <1> DEFINE pauses == {r \in k .. Len(loud) : Pause(r)}
  <1>1. q \in pauses /\ \A p \in k .. q - 1 : ~Pause(p)
    BY DEF EndsAt
  <1>2. \A p \in pauses : q <= p
    BY <1>1
  <1>3. \A r \in pauses : (\A p \in pauses : r <= p) => r = q
    BY <1>1, <1>2
  <1>4. EndOf(k) = CHOOSE r \in pauses : \A p \in pauses : r <= p
    BY <1>1 DEF EndOf, Min
  <1> HIDE DEF pauses
  <1>5. (CHOOSE r \in pauses : \A p \in pauses : r <= p) = q
    BY <1>1, <1>2, <1>3
  <1>6. QED
    BY <1>4, <1>5

LEMMA EndOfUnbroken ==
  ASSUME NEW k, Unbroken(k)
  PROVE  EndOf(k) = Len(loud)
  BY DEF EndOf, Unbroken

Closed == IF inSpeech THEN Push(NumWindows * WindowSamples) ELSE segments
Long(e) == e[2] - e[1] >= MinSpeech
Whole(e) == <<WindowSamples * e[1], WindowSamples * e[2]>>

LEMMA LongIsPushed ==
  ASSUME NEW k \in Nat \ {0}, NEW q \in Nat, q - k + 1 >= MinSpeech
  PROVE  Long(<<k - 1, q>>) /\ Whole(<<k - 1, q>>) = InSamples(<<k, q>>)
  BY VadConstants DEF Long, Whole, InSamples

(* What is pushed at the end are the stretches that are long enough.       *)
LEMMA EndedAreHeld ==
  ASSUME VadTyped, SegmentsAre, NEW k \in 1 .. Len(loud), Begins(k),
         NEW q \in 1 .. Len(loud), EndsAt(k, q)
  PROVE  EndOf(k) = q /\ (q - k + 1 >= MinSpeech => Holds(segments, InSamples(<<k, q>>)))
  <1>1. Len(loud) \in Nat
    BY LenProperties DEF VadTyped
  <1>2. EndOf(k) = q
    BY <1>1, EndOfEnded
  <1>3. ASSUME q - k + 1 >= MinSpeech PROVE Holds(segments, InSamples(<<k, q>>))
    <2>1. <<k, q>> \in Stretches
      BY <1>3 DEF Stretches
    <2>2. QED
      BY <2>1 DEF SegmentsAre
  <1>4. QED
    BY <1>2, <1>3

LEMMA HeldAreExpected ==
  ASSUME VadTyped, SegmentsAre, NEW s, Holds(segments, s)
  PROVE  \E e \in Expected : Long(e) /\ s = Whole(e)
  <1>1. Len(loud) \in Nat
    BY LenProperties DEF VadTyped
  <1>2. PICK e \in Stretches : s = InSamples(e)
    BY DEF SegmentsAre
  <1>3. PICK k \in 1 .. Len(loud), q \in 1 .. Len(loud) :
          e = <<k, q>> /\ Begins(k) /\ EndsAt(k, q) /\ q - k + 1 >= MinSpeech
    BY <1>2 DEF Stretches
  <1>4. EndOf(k) = q
    BY <1>1, <1>3, EndOfEnded
  <1>5. <<k - 1, q>> \in Expected
    BY <1>3, <1>4 DEF Expected
  <1>6. k \in Nat \ {0} /\ q \in Nat
    BY <1>1
  <1>7. Long(<<k - 1, q>>) /\ Whole(<<k - 1, q>>) = s
    BY <1>2, <1>3, <1>6, LongIsPushed
  <1>8. QED
    BY <1>5, <1>7

LEMMA ClosedByOpen ==
  ASSUME VadTyped, inSpeech, NumWindows = Len(loud), NEW k \in 1 .. Len(loud), Open(k)
  PROVE  /\ EndOf(k) = Len(loud) /\ <<k - 1, Len(loud)>> \in Expected
         /\ Closed \in Seq(Nat \X Nat)
         /\ \A s : Holds(Closed, s) <=>
              \/ Holds(segments, s)
              \/ Long(<<k - 1, Len(loud)>>) /\ s = Whole(<<k - 1, Len(loud)>>)
  <1> DEFINE e == <<k - 1, Len(loud)>>
  <1>1. Len(loud) \in Nat /\ segments \in Seq(Nat \X Nat) /\ k - 1 \in Nat
    BY LenProperties DEF VadTyped
  <1>2. EndOf(k) = Len(loud)
    BY EndOfUnbroken DEF Open
  <1>3. e \in Expected
    BY <1>2 DEF Expected, Open, Unbroken
  <1>4. Whole(e) = <<WindowSamples * (k - 1), WindowSamples * Len(loud)>>
    BY DEF Whole
  <1>5. Whole(e) \in Nat \X Nat
    <2>1. WindowSamples * (k - 1) \in Nat
      BY <1>1, WholeWindows
    <2>2. WindowSamples * Len(loud) \in Nat
      BY <1>1, WholeWindows
    <2>3. QED
      BY <1>4, <2>1, <2>2
  <1>6. Closed = IF Long(e) THEN Append(segments, Whole(e)) ELSE segments
    <2>1. segStart = WindowSamples * (k - 1)
      BY DEF Open, OpenFrom
    <2>2. segStart \div WindowSamples = k - 1
      BY <1>1, <2>1, WholeWindows
    <2>3. /\ (Len(loud) * WindowSamples) \div WindowSamples = Len(loud)
          /\ Len(loud) * WindowSamples = WindowSamples * Len(loud)
      BY <1>1, WholeWindows
    <2>4. Closed = IF Len(loud) - (k - 1) >= MinSpeech
                   THEN Append(segments, <<segStart, Len(loud) * WindowSamples>>) ELSE segments
      BY <2>2, <2>3 DEF Closed, Push
    <2>5. Long(e) <=> Len(loud) - (k - 1) >= MinSpeech
      BY DEF Long
    <2>6. QED
      BY <1>4, <2>1, <2>3, <2>4, <2>5
  <1> HIDE DEF e
  <1>7. Closed \in Seq(Nat \X Nat)
    BY <1>1, <1>5, <1>6, AppendProperties
  <1>8. ASSUME NEW s
        PROVE  Holds(Closed, s) <=> Holds(segments, s) \/ (Long(e) /\ s = Whole(e))
    <2>1. CASE Long(e)
      <3>1. Holds(Append(segments, Whole(e)), s) <=> Holds(segments, s) \/ s = Whole(e)
        BY <1>1, <1>5, AppendedHolds
      <3>2. QED
        BY <1>6, <2>1, <3>1
    <2>2. CASE ~Long(e)
      BY <1>6, <2>2
    <2>3. QED
      BY <2>1, <2>2
  <1>9. QED
    BY <1>2, <1>3, <1>7, <1>8 DEF e

LEMMA ClosedIsExpected ==
  ASSUME VadTyped, SegmentsAre, EachEnds, NumWindows = Len(loud),
         inSpeech => \E k \in 1 .. Len(loud) : Open(k), NEW s
  PROVE  /\ Closed \in Seq(Nat \X Nat)
         /\ Holds(Closed, s) <=> \E e \in Expected : Long(e) /\ s = Whole(e)
  <1>1. Len(loud) \in Nat /\ inSpeech \in BOOLEAN /\ segments \in Seq(Nat \X Nat)
    BY LenProperties DEF VadTyped
  <1>2. Holds(segments, s) => \E e \in Expected : Long(e) /\ s = Whole(e)
    BY HeldAreExpected
  <1>3. ASSUME NEW k \in 1 .. Len(loud), NEW q \in 1 .. Len(loud), Begins(k), EndsAt(k, q),
               Long(<<k - 1, EndOf(k)>>), s = Whole(<<k - 1, EndOf(k)>>)
        PROVE  Holds(segments, s)
    <2>1. EndOf(k) = q
      BY <1>3, EndedAreHeld
    <2>2. k \in Nat \ {0} /\ q \in Nat
      BY <1>1
    <2>3. q - k + 1 >= MinSpeech
      BY <1>3, <2>1, <2>2 DEF Long
    <2>4. s = InSamples(<<k, q>>)
      BY <1>3, <2>1, <2>2, <2>3, LongIsPushed
    <2>5. QED
      BY <1>3, <2>3, <2>4, EndedAreHeld
  <1>4. CASE ~inSpeech
    <2>1. Closed = segments
      BY <1>4 DEF Closed
    <2>2. ASSUME NEW e \in Expected, Long(e), s = Whole(e) PROVE Holds(segments, s)
      <3>1. PICK k \in 1 .. Len(loud) : Begins(k) /\ e = <<k - 1, EndOf(k)>>
        BY DEF Expected
      <3>2. PICK q \in 1 .. Len(loud) : EndsAt(k, q)
        BY <1>4, <3>1 DEF EachEnds, OpenFrom
      <3>3. QED
        BY <1>3, <2>2, <3>1, <3>2
    <2>3. QED
      BY <1>1, <1>2, <2>1, <2>2
  <1>5. CASE inSpeech
    <2>1. PICK b \in 1 .. Len(loud) : Open(b)
      BY <1>5
    <2> DEFINE last == <<b - 1, Len(loud)>>
    <2>2. /\ EndOf(b) = Len(loud) /\ last \in Expected /\ Closed \in Seq(Nat \X Nat)
          /\ Holds(Closed, s) <=> Holds(segments, s) \/ (Long(last) /\ s = Whole(last))
      BY <1>5, <2>1, ClosedByOpen
    <2>3. ASSUME NEW e \in Expected, Long(e), s = Whole(e)
          PROVE  Holds(segments, s) \/ e = last
      <3>1. PICK k \in 1 .. Len(loud) : Begins(k) /\ e = <<k - 1, EndOf(k)>>
        BY DEF Expected
      <3>2. CASE \E q \in 1 .. Len(loud) : EndsAt(k, q)
        BY <1>3, <2>3, <3>1, <3>2
      <3>3. CASE OpenFrom(k)
        <4>1. OpenFrom(b) /\ k \in Nat \ {0} /\ b \in Nat \ {0}
          BY <1>1, <2>1 DEF Open
        <4>2. k = b
          BY <3>3, <4>1, OneOpens
        <4>3. QED
          BY <2>2, <3>1, <4>2
      <3>4. QED
        BY <3>1, <3>2, <3>3 DEF EachEnds
    <2> HIDE DEF last
    <2>4. QED
      BY <1>2, <2>2, <2>3
  <1>6. QED
    BY <1>1, <1>4, <1>5

LEMMA PaddedType ==
  ASSUME NEW s \in Nat \X Nat, length \in Nat
  PROVE  Padded(s) \in Nat \X Nat
  <1>1. s[1] \in Nat /\ s[2] \in Nat /\ Pad \in Nat
    BY VadConstants
  <1>2. (IF s[1] < Pad THEN 0 ELSE s[1] - Pad) \in Nat
    BY <1>1
  <1>3. Least(s[2] + Pad, length) \in Nat
    BY <1>1 DEF Least
  <1>4. QED
    BY <1>2, <1>3 DEF Padded

LEMMA CloseAndPadKeeps == VadInv /\ CloseAndPad => VadInv'
  <1> SUFFICES ASSUME VadInv, CloseAndPad PROVE VadInv'
    OBVIOUS
  <1>1. /\ phase = "scan" /\ Len(loud) = NumWindows /\ phase' = "transcribe"
        /\ segments' = [j \in DOMAIN Closed |-> Padded(Closed[j])]
        /\ loud' = loud /\ length' = length /\ words' = words
        /\ inSpeech' = inSpeech /\ segStart' = segStart /\ silence' = silence
    BY DEF CloseAndPad, Closed, scan
  <1>2. /\ VadTyped /\ SegmentsAre /\ AllHeard /\ EachEnds /\ words = <<>>
        /\ inSpeech => \E k \in 1 .. Len(loud) : Open(k)
    BY <1>1 DEF VadInv, Scanning
  <1>3. Closed \in Seq(Nat \X Nat)
    BY <1>1, <1>2, ClosedIsExpected
  <1>4. DOMAIN Closed = 1 .. Len(Closed) /\ Len(Closed) \in Nat
    BY <1>3, LenProperties
  <1>5. \A j \in DOMAIN Closed : Padded(Closed[j]) \in Nat \X Nat
    <2>1. \A j \in DOMAIN Closed : Closed[j] \in Nat \X Nat
      BY <1>3, <1>4, ElementOfSeq
    <2>2. length \in Nat
      BY <1>2 DEF VadTyped
    <2>3. QED
      BY <2>1, <2>2, PaddedType
  <1>6. segments' \in Seq(Nat \X Nat)
    <2>1. segments' \in [1 .. Len(Closed) -> Nat \X Nat]
      BY <1>1, <1>4, <1>5
    <2>2. QED
      BY <1>4, <2>1, SeqDef
  <1>7. VadTyped'
    BY <1>1, <1>2, <1>6 DEF VadTyped
  <1>8. Expected' = Expected /\ NumWindows' = NumWindows /\ AllHeard'
    <2>1. \A k : Pause(k)' = Pause(k)
      BY <1>1 DEF Pause
    <2>2. \A k : Begins(k)' = Begins(k)
      BY <1>1, <2>1 DEF Begins
    <2>3. ASSUME NEW k PROVE EndOf(k)' = EndOf(k)
      <3>1. {q \in k .. Len(loud') : Pause(q)'} = {q \in k .. Len(loud) : Pause(q)}
        BY <1>1, <2>1
      <3>2. QED
        BY <1>1, <3>1 DEF EndOf
    <2>4. \A k : Heard(k)' = Heard(k)
      BY <2>1, <2>2 DEF Heard
    <2>5. Expected' = Expected
      BY <1>1, <2>2, <2>3 DEF Expected
    <2>6. AllHeard'
      BY <1>1, <1>2, <2>4 DEF AllHeard
    <2>7. QED
      BY <1>1, <2>5, <2>6 DEF NumWindows
  <1>9. Cut'
    <2>1. {segments'[j] : j \in DOMAIN segments'} = {Padded(Closed[j]) : j \in DOMAIN Closed}
      BY <1>1
    <2>2. ASSUME NEW p
          PROVE  p \in {Padded(Closed[j]) : j \in DOMAIN Closed} <=>
                 p \in {Padded(Whole(e)) : e \in {d \in Expected : Long(d)}}
      <3>1. (\E j \in DOMAIN Closed : p = Padded(Closed[j]))
              <=> \E s : Holds(Closed, s) /\ p = Padded(s)
        BY DEF Holds
      <3>2. (\E s : Holds(Closed, s) /\ p = Padded(s))
              <=> \E e \in Expected : Long(e) /\ p = Padded(Whole(e))
        <4>1. \A s : Holds(Closed, s) <=> \E e \in Expected : Long(e) /\ s = Whole(e)
          <5>1. ASSUME NEW s
                PROVE  Holds(Closed, s) <=> \E e \in Expected : Long(e) /\ s = Whole(e)
            BY <1>1, <1>2, ClosedIsExpected
          <5>2. QED
            BY <5>1
        <4>2. QED
          BY <4>1
      <3>3. QED
        BY <3>1, <3>2
    <2>3. {segments'[j] : j \in DOMAIN segments'} =
          {Padded(Whole(e)) : e \in {d \in Expected : Long(d)}}
      BY <2>1, <2>2
    <2>4. {segments'[j] : j \in DOMAIN segments'} =
          {Padded(<<WindowSamples * s[1], WindowSamples * s[2]>>) :
             s \in {e \in Expected : e[2] - e[1] >= MinSpeech}}
      BY <2>3 DEF Whole, Long
    <2>5. \A s : Padded(s)' = Padded(s)
      BY <1>1 DEF Padded
    <2>6. QED
      BY <1>1, <1>8, <2>4, <2>5 DEF Cut
  <1>10. Len(segments') \in Nat /\ Len(words') = 0
    BY <1>1, <1>2, <1>6, LenProperties
  <1>11. Transcribing'
    BY <1>9, <1>10 DEF Transcribing, Pieces
  <1>12. Scanning' /\ (words \in Seq(SUBSET Word))'
    BY <1>1 DEF Scanning, VadInv
  <1>13. QED
    BY <1>7, <1>11, <1>12 DEF VadInv

(* A set of naturals that is not empty has a least member.                 *)
LEMMA LeastIsIn ==
  ASSUME NEW S \in SUBSET Nat, S # {}
  PROVE  Min(S) \in S /\ \A x \in S : Min(S) <= x
  <1>1. PICK x \in S : \A y \in S : ~(<<y, x>> \in OpToRel(<, Nat))
    BY NatLessThanWellFounded, WFMin
  <1>2. \A y \in S : x <= y
    <2>1. ASSUME NEW y \in S, y < x PROVE FALSE
      <3>1. <<y, x>> \in Nat \X Nat /\ <<y, x>>[1] < <<y, x>>[2]
        BY <2>1
      <3>2. <<y, x>> \in OpToRel(<, Nat)
        BY <3>1 DEF OpToRel
      <3>3. QED
        BY <1>1, <3>2
    <2>2. QED
      BY <2>1
  <1>3. QED
    BY <1>2 DEF Min

(***************************************************************************)
(* The pieces.                                                             *)
(***************************************************************************)

(* What depends on the verdicts, the length and the segments only.         *)
LEMMA CutStays ==
  ASSUME loud' = loud, length' = length, segments' = segments, Cut
  PROVE  Cut'
  <1>1. \A k : Pause(k)' = Pause(k)
    BY DEF Pause
  <1>2. \A k : Begins(k)' = Begins(k)
    BY <1>1 DEF Begins
  <1>3. ASSUME NEW k PROVE EndOf(k)' = EndOf(k)
    <2>1. {q \in k .. Len(loud') : Pause(q)'} = {q \in k .. Len(loud) : Pause(q)}
      BY <1>1
    <2>2. QED
      BY <2>1 DEF EndOf
  <1>4. \A k : Heard(k)' = Heard(k)
    BY <1>1, <1>2 DEF Heard
  <1>5. Expected' = Expected
    BY <1>2, <1>3 DEF Expected
  <1>6. AllHeard'
    BY <1>4 DEF AllHeard, Cut
  <1>7. \A s : Padded(s)' = Padded(s)
    BY DEF Padded
  <1>8. QED
    BY <1>5, <1>6, <1>7 DEF Cut, NumWindows

(* An encoded frame counts as one frame shift: what that does to times.    *)
LEMMA FrameTimes ==
  ASSUME NEW p \in Nat
  PROVE  LET t == TimeOf(FrameAt(p)) IN
         /\ t \in Nat
         /\ t * Subsampling <= p /\ p < (t + FrameSamples) * Subsampling
  <1> DEFINE F == FrameSamples
             S == Subsampling
             d == F * S
             q == p \div d
  <1>1. F \in Nat \ {0} /\ S \in Nat \ {0}
    BY EncoderAssumption
  <1>2. d \in Nat \ {0}
    <2>1. \A x, y \in Nat \ {0} : x * y \in Nat \ {0}
      OBVIOUS
    <2>2. QED
      BY <1>1, <2>1
  <1> HIDE DEF d
  <1>3. q \in Nat /\ q * d <= p /\ p < q * d + d
    BY <1>2
  <1> HIDE DEF F, S, q
  <1>4. (q * F) * S = q * d /\ (q * F + F) * S = q * d + d /\ q * F \in Nat
    BY <1>1, <1>3 DEF d
  <1>5. QED
    BY <1>3, <1>4 DEF TimeOf, FrameAt, F, S, d, q

(* A piece has the words of its loud windows, timed in the file.           *)
LEMMA WordsOf ==
  ASSUME VadTyped, NEW s \in Nat \X Nat
  PROVE  /\ \A w \in WordsIn(s) :
              w \in Word /\ w.window \in DOMAIN loud /\ loud[w.window] /\ TimedInPiece(w, s)
         /\ \A k \in DOMAIN loud : loud[k] /\ Within(k, s) => \E w \in WordsIn(s) : w.window = k
  <1>1. s[1] \in Nat /\ Len(loud) \in Nat /\ DOMAIN loud = 1 .. Len(loud)
    BY LenProperties DEF VadTyped
  <1>2. ASSUME NEW w \in WordsIn(s)
        PROVE  w \in Word /\ w.window \in DOMAIN loud /\ loud[w.window] /\ TimedInPiece(w, s)
    <2>1. PICK k \in LoudIn(s) :
            w = [window |-> k, time |-> Offset(s, TimeOf(FrameAt((k - 1) * WindowSamples - s[1])))]
      BY <1>2 DEF WordsIn
    <2>2. k \in 1 .. Len(loud) /\ loud[k] /\ s[1] <= (k - 1) * WindowSamples
      BY DEF LoudIn, Within
    <2>3. (k - 1) * WindowSamples \in Nat
      <3>1. k - 1 \in Nat
        BY <1>1, <2>2
      <3>2. QED
        BY <3>1, WholeWindows
    <2> DEFINE p == (k - 1) * WindowSamples - s[1]
               t == TimeOf(FrameAt(p))
    <2>4. p \in Nat
      BY <1>1, <2>2, <2>3
    <2>5. t \in Nat /\ t * Subsampling <= p /\ p < (t + FrameSamples) * Subsampling
      BY <2>4, FrameTimes
    <2>6. w.window = k /\ w.time = t + s[1]
      BY <2>1 DEF Offset
    <2> HIDE DEF t
    <2>7. w.time - s[1] = t /\ t + s[1] \in Nat
      BY <1>1, <2>5, <2>6
    <2>8. w \in Word
      <3>1. w = [window |-> k, time |-> t + s[1]]
        BY <2>1 DEF Offset, t
      <3>2. k \in Nat
        BY <1>1, <2>2
      <3>3. QED
        BY <2>7, <3>1, <3>2 DEF Word
    <2>9. TimedInPiece(w, s)
      BY <2>5, <2>6, <2>7 DEF TimedInPiece
    <2>10. QED
      BY <1>1, <2>2, <2>6, <2>8, <2>9
  <1>3. ASSUME NEW k \in DOMAIN loud, loud[k], Within(k, s)
        PROVE  \E w \in WordsIn(s) : w.window = k
    <2> DEFINE w == [window |-> k,
                     time |-> Offset(s, TimeOf(FrameAt((k - 1) * WindowSamples - s[1])))]
    <2>1. k \in LoudIn(s)
      BY <1>1, <1>3 DEF LoudIn
    <2>2. w \in WordsIn(s) /\ w.window = k
      BY <2>1 DEF WordsIn
    <2>3. QED
      BY <2>2
  <1>4. QED
    BY <1>2, <1>3

LEMMA TranscribePieceKeeps == VadInv /\ TranscribePiece => VadInv'
  <1> SUFFICES ASSUME VadInv, TranscribePiece PROVE VadInv'
    OBVIOUS
  <1> DEFINE s == segments[Pieces + 1]
             new == WordsIn(s)
  <1>1. /\ phase = "transcribe" /\ phase' = phase /\ Pieces < Len(segments)
        /\ words' = Append(words, new)
        /\ loud' = loud /\ length' = length /\ segments' = segments
        /\ inSpeech' = inSpeech /\ segStart' = segStart /\ silence' = silence
    BY DEF TranscribePiece, scan
  <1>2. /\ VadTyped /\ words \in Seq(SUBSET Word) /\ Cut
        /\ \A j \in 1 .. Pieces :
             words[j] = WordsIn(segments[j])
    BY <1>1 DEF VadInv, Transcribing
  <1>3. Pieces \in Nat /\ Len(segments) \in Nat /\ segments \in Seq(Nat \X Nat)
    BY <1>2, LenProperties DEF Pieces, VadTyped
  <1>4. s \in Nat \X Nat
    <2>1. Pieces + 1 \in 1 .. Len(segments)
      BY <1>1, <1>3
    <2>2. QED
      BY <1>3, <2>1, ElementOfSeq
  <1>5. new \in SUBSET Word
    BY <1>2, <1>4, WordsOf
  <1> HIDE DEF new
  <1>6. /\ words' \in Seq(SUBSET Word) /\ Len(words') = Pieces + 1
        /\ words'[Pieces + 1] = new /\ \A j \in 1 .. Pieces : words'[j] = words[j]
    BY <1>1, <1>2, <1>5, AppendProperties DEF Pieces
  <1>7. VadTyped' /\ Scanning'
    BY <1>1, <1>2 DEF VadTyped, Scanning
  <1>8. Transcribing'
    <2>1. Cut'
      BY <1>1, <1>2, CutStays
    <2>2. Pieces' = Pieces + 1 /\ Pieces + 1 <= Len(segments')
      BY <1>1, <1>3, <1>6 DEF Pieces
    <2>3. ASSUME NEW j \in 1 .. Pieces + 1
          PROVE  words'[j] = WordsIn(segments[j])
      <3>1. CASE j = Pieces + 1
        BY <1>6, <3>1 DEF new
      <3>2. CASE j # Pieces + 1
        <4>1. j \in 1 .. Pieces
          BY <1>3, <3>2
        <4>2. QED
          BY <1>2, <1>6, <4>1
      <3>3. QED
        BY <3>1, <3>2
    <2>4. \A j : WordsIn(segments[j])' = WordsIn(segments[j])
      BY <1>1 DEF WordsIn, LoudIn, Within, Offset
    <2>5. \A j \in 1 .. Pieces' :
            words'[j] = WordsIn(segments[j])'
      <3>1. ASSUME NEW j \in 1 .. Pieces + 1
            PROVE  words'[j] = WordsIn(segments[j])'
        <4>1. words'[j] = WordsIn(segments[j])
          BY <2>3
        <4>2. segments'[j] = segments[j] /\ WordsIn(segments[j])' = WordsIn(segments[j])
          BY <1>1, <2>4
        <4>3. QED
          BY <4>1, <4>2
      <3>2. QED
        BY <2>2, <3>1
    <2>6. QED
      BY <2>1, <2>2, <2>5 DEF Transcribing
  <1>9. QED
    BY <1>6, <1>7, <1>8 DEF VadInv

LEMMA TranscribedKeeps == VadInv /\ Transcribed => VadInv'
  <1> SUFFICES ASSUME VadInv, Transcribed PROVE VadInv'
    OBVIOUS
  <1>1. /\ phase = "transcribe" /\ phase' = "done"
        /\ words' = words /\ loud' = loud /\ length' = length /\ segments' = segments
        /\ inSpeech' = inSpeech /\ segStart' = segStart /\ silence' = silence
    BY DEF Transcribed, scan
  <1>2. /\ Cut /\ Pieces <= Len(segments)
        /\ \A j \in 1 .. Pieces :
             words[j] = WordsIn(segments[j])
    BY <1>1 DEF VadInv, Transcribing
  <1>3. Cut' /\ Pieces' = Pieces
    BY <1>1, <1>2, CutStays DEF Pieces
  <1>4. \A j : WordsIn(segments[j])' = WordsIn(segments[j])
    BY <1>1 DEF WordsIn, LoudIn, Within, Offset
  <1>5. \A j \in 1 .. Pieces' :
          words'[j] = WordsIn(segments[j])'
    BY <1>1, <1>2, <1>3, <1>4
  <1>6. Transcribing'
    BY <1>1, <1>2, <1>3, <1>5 DEF Transcribing
  <1>7. VadTyped' /\ (words \in Seq(SUBSET Word))' /\ Scanning'
    BY <1>1 DEF VadInv, VadTyped, Scanning
  <1>8. QED
    BY <1>6, <1>7 DEF VadInv

LEMMA PieceFailsKeeps == VadInv /\ PieceFails => VadInv'
  <1> SUFFICES ASSUME VadInv, PieceFails PROVE VadInv'
    OBVIOUS
  <1>1. /\ phase = "transcribe" /\ phase' = "done" /\ Pieces < Len(segments)
        /\ words' = <<>> /\ loud' = loud /\ length' = length /\ segments' = segments
        /\ inSpeech' = inSpeech /\ segStart' = segStart /\ silence' = silence
    BY DEF PieceFails, scan
  <1>2. Pieces \in Nat /\ Len(segments) \in Nat
    BY LenProperties DEF VadInv, VadTyped, Pieces
  <1>3. Len(words') # Len(segments')
    BY <1>1, <1>2
  <1>4. Transcribing'
    BY <1>1, <1>3 DEF Transcribing
  <1>5. VadTyped' /\ (words \in Seq(SUBSET Word))' /\ Scanning'
    BY <1>1 DEF VadInv, VadTyped, Scanning
  <1>6. QED
    BY <1>4, <1>5 DEF VadInv

LEMMA VadSteps == VadInv /\ VadNext => VadInv'
  BY SplitKeeps, SplitFailsKeeps, WindowKeeps, CloseAndPadKeeps, TranscribePieceKeeps,
     TranscribedKeeps, PieceFailsKeeps DEF VadNext

LEMMA VadStutters == VadInv /\ UNCHANGED vadVars => VadInv'
  <1> SUFFICES ASSUME VadInv, UNCHANGED vadVars PROVE VadInv'
    OBVIOUS
  <1>1. /\ phase' = phase /\ words' = words /\ loud' = loud /\ length' = length
        /\ segments' = segments
        /\ inSpeech' = inSpeech /\ segStart' = segStart /\ silence' = silence
    BY DEF vadVars, scan
  <1>2. VadTyped' /\ (words \in Seq(SUBSET Word))'
    BY <1>1 DEF VadInv, VadTyped
  <1>3. Scanning'
    <2>1. \A k : Pause(k)' = Pause(k)
      BY <1>1 DEF Pause
    <2>2. \A k : Begins(k)' = Begins(k)
      BY <1>1, <2>1 DEF Begins
    <2>3. \A k, q : EndsAt(k, q)' = EndsAt(k, q)
      BY <1>1, <2>1 DEF EndsAt
    <2>4. SegmentsAre' = SegmentsAre
      <3>1. Stretches' = Stretches
        BY <1>1, <2>2, <2>3 DEF Stretches
      <3>2. \A s : Holds(segments, s)' = Holds(segments, s)
        BY <1>1 DEF Holds
      <3>3. QED
        BY <3>1, <3>2 DEF SegmentsAre, InSamples
    <2>5. AllHeard' = AllHeard
      BY <1>1, <2>1, <2>2 DEF AllHeard, Heard
    <2>6. EachEnds' = EachEnds
      BY <1>1, <2>2, <2>3 DEF EachEnds, OpenFrom
    <2>7. \A k : Open(k)' = Open(k)
      BY <1>1, <2>1, <2>2 DEF Open, OpenFrom, Unbroken
    <2>8. QuietEnd' = QuietEnd
      BY <1>1, <2>1 DEF QuietEnd
    <2>9. QED
      BY <1>1, <2>4, <2>5, <2>6, <2>7, <2>8 DEF VadInv, Scanning, NumWindows
  <1>4. Transcribing'
    <2>1. Pieces' = Pieces /\ \A j : WordsIn(segments[j])' = WordsIn(segments[j])
      BY <1>1 DEF Pieces, WordsIn, LoudIn, Within, Offset
    <2>2. Cut => Cut'
      BY <1>1, CutStays
    <2>3. (\A j \in 1 .. Pieces :
             words[j] = WordsIn(segments[j]))
          => \A j \in 1 .. Pieces' :
               words'[j] = WordsIn(segments[j])'
      BY <1>1, <2>1
    <2>4. QED
      BY <1>1, <2>1, <2>2, <2>3 DEF VadInv, Transcribing
  <1>5. QED
    BY <1>2, <1>3, <1>4 DEF VadInv

(***************************************************************************)
(* What the properties say of segments and words, from the invariant.      *)
(***************************************************************************)
LEMMA VadSegments == VadInv => SegmentsMatchReference
  BY DEF VadInv, Transcribing, Cut, SegmentsMatchReference

LEMMA Further ==
  ASSUME NEW x \in Nat, NEW y \in Nat, x <= y
  PROVE  x * WindowSamples <= y * WindowSamples
  <1>1. y - x \in Nat /\ WindowSamples \in Nat
    BY VadConstants
  <1>2. (y - x) * WindowSamples \in Nat
    BY <1>1, WholeWindows
  <1>3. (y - x) * WindowSamples = y * WindowSamples - x * WindowSamples
    BY <1>1
  <1>4. x * WindowSamples \in Nat /\ y * WindowSamples \in Nat
    BY WholeWindows
  <1>5. QED
    BY <1>2, <1>3, <1>4

(* A loud window is in an expected stretch.                                *)
LEMMA LoudIsExpected ==
  ASSUME loud \in Seq(BOOLEAN), AllHeard, NEW k \in DOMAIN loud, loud[k]
  PROVE  \E b \in 1 .. k, q \in k .. Len(loud) : <<b - 1, q>> \in Expected
  <1>1. DOMAIN loud = 1 .. Len(loud) /\ Len(loud) \in Nat
    BY LenProperties
  <1>2. PICK b \in 1 .. k : Begins(b) /\ \A p \in b .. k - 1 : ~Pause(p)
    BY <1>1 DEF AllHeard, Heard
  <1>3. b \in 1 .. Len(loud) /\ k \in Nat
    BY <1>1
  <1>4. EndOf(b) \in k .. Len(loud)
    <2> DEFINE pauses == {q \in b .. Len(loud) : Pause(q)}
    <2>1. CASE pauses = {}
      <3>1. EndOf(b) = Len(loud)
        BY <2>1 DEF EndOf
      <3>2. QED
        BY <1>1, <3>1
    <2>2. CASE pauses # {}
      <3>1. EndOf(b) = Min(pauses)
        BY <2>2 DEF EndOf
      <3>2. pauses \subseteq Nat
        BY <1>3
      <3>3. Min(pauses) \in pauses
        BY <2>2, <3>2, LeastIsIn
      <3>4. QED
        BY <1>1, <1>2, <1>3, <3>1, <3>3
    <2>3. QED
      BY <2>1, <2>2
  <1>5. <<b - 1, EndOf(b)>> \in Expected
    BY <1>2, <1>3 DEF Expected
  <1>6. QED
    BY <1>4, <1>5

LEMMA PaddedHolds ==
  ASSUME length \in Nat, Len(loud) = NumWindows, NEW k \in 1 .. Len(loud),
         NEW b \in 1 .. k, NEW q \in k .. Len(loud)
  PROVE  Within(k, Padded(<<WindowSamples * (b - 1), WindowSamples * q>>))
  <1> DEFINE W == WindowSamples
  <1>1. Len(loud) \in Nat /\ NumWindows * W <= length
    BY CompleteWindows DEF NumWindows
  <1>2. k \in Nat /\ b - 1 \in Nat /\ k - 1 \in Nat /\ q \in Nat /\ Pad \in Nat /\ NumWindows \in Nat
    BY <1>1, VadConstants
  <1>3. (b - 1) * W \in Nat /\ (b - 1) * W = W * (b - 1)
    BY <1>2, WholeWindows
  <1>4. (k - 1) * W \in Nat /\ k * W \in Nat /\ NumWindows * W \in Nat
    BY <1>2, WholeWindows
  <1>5. q * W \in Nat /\ q * W = W * q
    BY <1>2, WholeWindows
  <1>6. (b - 1) * W <= (k - 1) * W
    <2>1. b - 1 <= k - 1
      BY <1>2
    <2>2. QED
      BY <1>2, <2>1, Further
  <1>7. k * W <= q * W
    BY <1>2, Further
  <1>8. k * W <= length
    <2>1. k * W <= NumWindows * W
      BY <1>2, Further
    <2>2. QED
      BY <1>1, <1>4, <2>1
  <1> HIDE DEF W
  <1>9. (IF W * (b - 1) < Pad THEN 0 ELSE W * (b - 1) - Pad) <= (k - 1) * W
    BY <1>2, <1>3, <1>4, <1>6
  <1>10. k * W <= Least(W * q + Pad, length)
    BY <1>2, <1>4, <1>5, <1>7, <1>8 DEF Least
  <1>11. QED
    BY <1>9, <1>10 DEF Within, Padded, W

LEMMA VadWords == VadInv => SpeechHeardInPiece
  <1> SUFFICES ASSUME VadInv, phase = "done", Len(words) = Len(segments),
                      Len(loud) = NumWindows, segments # <<>>
               PROVE  /\ \A j \in DOMAIN words : \A w \in words[j] :
                           loud[w.window] /\ TimedInPiece(w, segments[j])
                      /\ \A k \in DOMAIN loud : loud[k] /\ ~TooShort(k) =>
                           \E j \in DOMAIN words : \E w \in words[j] : w.window = k
    BY DEF SpeechHeardInPiece
  <1>1. /\ VadTyped /\ words \in Seq(SUBSET Word) /\ Cut
        /\ \A j \in 1 .. Pieces : words[j] = WordsIn(segments[j])
    BY DEF VadInv, Transcribing
  <1>2. /\ segments \in Seq(Nat \X Nat) /\ length \in Nat /\ loud \in Seq(BOOLEAN)
        /\ DOMAIN words = 1 .. Pieces /\ DOMAIN segments = DOMAIN words
        /\ Len(loud) \in Nat /\ DOMAIN loud = 1 .. Len(loud)
    BY <1>1, LenProperties DEF VadTyped, Pieces
  <1>3. \A j \in DOMAIN words : segments[j] \in Nat \X Nat
    <2>1. \A j \in 1 .. Len(segments) : segments[j] \in Nat \X Nat
      BY <1>2, ElementOfSeq
    <2>2. QED
      BY <1>2, <2>1 DEF Pieces
  <1>4. ASSUME NEW j \in DOMAIN words, NEW w \in words[j]
        PROVE  loud[w.window] /\ TimedInPiece(w, segments[j])
    <2>1. w \in WordsIn(segments[j])
      BY <1>1, <1>2
    <2>2. QED
      BY <1>1, <1>3, <2>1, WordsOf
  <1>5. ASSUME NEW k \in DOMAIN loud, loud[k], ~TooShort(k)
        PROVE  \E j \in DOMAIN words : \E w \in words[j] : w.window = k
    <2>1. PICK b \in 1 .. k, q \in k .. Len(loud) : <<b - 1, q>> \in Expected
      BY <1>1, <1>2, <1>5, LoudIsExpected DEF Cut
    <2>2. k \in 1 .. Len(loud) /\ b - 1 < k /\ k <= q /\ q - (b - 1) \in Int
      BY <1>2
    <2>3. q - (b - 1) >= MinSpeech
      <3>1. ~(q - (b - 1) < MinSpeech)
        BY <1>5, <2>1, <2>2 DEF TooShort
      <3>2. QED
        BY <2>2, <3>1, VadConstants
    <2>4. PICK j \in DOMAIN segments :
            segments[j] = Padded(<<WindowSamples * (b - 1), WindowSamples * q>>)
      <3>1. Padded(<<WindowSamples * (b - 1), WindowSamples * q>>) \in
              {Padded(<<WindowSamples * s[1], WindowSamples * s[2]>>) :
                 s \in {e \in Expected : e[2] - e[1] >= MinSpeech}}
        <4> DEFINE e == <<b - 1, q>>
        <4>1. e[1] = b - 1 /\ e[2] = q
          OBVIOUS
        <4>2. e \in {d \in Expected : d[2] - d[1] >= MinSpeech}
          BY <2>1, <2>3
        <4> HIDE DEF e
        <4>3. QED
          BY <4>1, <4>2
      <3>2. {segments[j] : j \in DOMAIN segments} =
              {Padded(<<WindowSamples * s[1], WindowSamples * s[2]>>) :
                 s \in {e \in Expected : e[2] - e[1] >= MinSpeech}}
        BY <1>1 DEF Cut
      <3> DEFINE x == Padded(<<WindowSamples * (b - 1), WindowSamples * q>>)
      <3>3. x \in {segments[j] : j \in DOMAIN segments}
        BY <3>1, <3>2
      <3> HIDE DEF x
      <3>4. \E j \in DOMAIN segments : segments[j] = x
        BY <3>3
      <3>5. QED
        BY <3>4 DEF x
    <2>5. Within(k, segments[j])
      BY <1>2, <2>2, <2>4, PaddedHolds
    <2>6. \E w \in WordsIn(segments[j]) : w.window = k
      BY <1>1, <1>2, <1>3, <1>5, <2>5, WordsOf
    <2>7. QED
      BY <1>1, <1>2, <2>6
  <1>6. QED
    BY <1>4, <1>5

-----------------------------------------------------------------------------
(* The tensor of a batch: each feature has a cell of its own. *)

LEMMA Products ==
  ASSUME NEW x \in Nat, NEW y \in Nat
  PROVE  x * y \in Nat /\ x * y = y * x
  OBVIOUS

LEMMA DecoderConstants ==
  /\ NMels \in Nat \ {0} /\ ContextSize \in Nat \ {0} /\ MaxTokensPerStep \in Nat
  /\ BatchSizes \subseteq Nat \ {0} /\ FrameCounts \subseteq Nat \ {0}
  /\ Subsampling \in Nat \ {0}
  BY DecoderAssumption, EncoderAssumption

(* Whole encoded frames are in the sample.                                 *)
LEMMA EncodedFramesFit ==
  ASSUME NEW n \in Nat
  PROVE  EncodedFrames(n) \in Nat /\ EncodedFrames(n) * Subsampling <= n /\ EncodedFrames(n) <= n
  <1> DEFINE d == n \div Subsampling
  <1>1. Subsampling \in Nat /\ Subsampling >= 1
    BY DecoderConstants
  <1>2. d \in Nat /\ d * Subsampling <= n
    BY <1>1
  <1> HIDE DEF d
  <1>3. d * (Subsampling - 1) \in Nat
    BY <1>1, <1>2, Products
  <1>4. d * (Subsampling - 1) = d * Subsampling - d /\ d * Subsampling \in Nat
    BY <1>1, <1>2, Products
  <1>5. d <= n
    BY <1>2, <1>3, <1>4
  <1>6. QED
    BY <1>2, <1>5 DEF EncodedFrames, d

LEMMA LargestExists ==
  ASSUME NEW ns \in Seq(Nat), NEW k \in 1 .. Len(ns)
  PROVE  \E c \in 1 .. k : \A b \in 1 .. k : ns[b] <= ns[c]
  <1> DEFINE Has(l) == \E c \in 1 .. l : \A b \in 1 .. l : ns[b] <= ns[c]
             Bad == {l \in 1 .. Len(ns) : ~Has(l)}
  <1>1. Len(ns) \in Nat /\ \A b \in 1 .. Len(ns) : ns[b] \in Nat
    BY LenProperties, ElementOfSeq
  <1>2. SUFFICES ASSUME Bad # {} PROVE FALSE
    BY DEF Has
  <1>3. Bad \in SUBSET Nat
    BY <1>1
  <1>4. PICK l \in Bad : \A x \in Bad : l <= x
    BY <1>2, <1>3, LeastIsIn
  <1>5. l \in 1 .. Len(ns) /\ ~Has(l)
    BY <1>4
  <1>6. \A x \in 1 .. Len(ns) : x < l => Has(x)
    BY <1>1, <1>4, <1>5
  <1> HIDE DEF Bad
  <1>7. l \in Nat /\ l >= 1 /\ ns[l] \in Nat
    BY <1>1, <1>5
  <1>8. l # 1
    <2>1. l = 1 => 1 .. l = {1} /\ ns[1] <= ns[1]
      BY <1>7
    <2>2. QED
      BY <1>5, <2>1
  <1>9. l - 1 \in 1 .. Len(ns) /\ l - 1 < l
    BY <1>1, <1>5, <1>7, <1>8
  <1>10. PICK c \in 1 .. l - 1 : \A b \in 1 .. l - 1 : ns[b] <= ns[c]
    BY <1>6, <1>9
  <1> HIDE DEF Has
  <1>11. \A b \in 1 .. l : b = l \/ b \in 1 .. l - 1
    BY <1>7
  <1>12. c \in 1 .. l /\ l \in 1 .. l /\ ns[c] \in Nat
    BY <1>1, <1>5, <1>7, <1>10
  <1>13. \A b \in 1 .. l : ns[b] \in Nat
    BY <1>1, <1>5, <1>7
  <1>14. CASE ns[l] <= ns[c]
    <2>1. \A b \in 1 .. l : ns[b] <= ns[c]
      BY <1>10, <1>11, <1>14
    <2>2. QED
      BY <1>5, <1>12, <2>1 DEF Has
  <1>15. CASE ns[c] <= ns[l]
    <2>1. ASSUME NEW b \in 1 .. l PROVE ns[b] <= ns[l]
      <3>1. CASE b = l
        BY <1>7, <3>1
      <3>2. CASE b \in 1 .. l - 1
        <4>1. ns[b] <= ns[c]
          BY <1>10, <3>2
        <4>2. ns[b] \in Nat /\ ns[c] \in Nat /\ ns[l] \in Nat
          BY <1>7, <1>12, <1>13
        <4>3. \A x, y, z \in Nat : x <= y /\ y <= z => x <= z
          OBVIOUS
        <4>4. QED
          BY <1>15, <4>1, <4>2, <4>3
      <3>3. QED
        BY <1>11, <3>1, <3>2
    <2>2. QED
      BY <1>5, <1>12, <2>1 DEF Has
  <1>16. QED
    BY <1>7, <1>12, <1>14, <1>15

LEMMA LargestBounds ==
  ASSUME NEW ns \in Seq(Nat), ns # <<>>
  PROVE  Largest(ns) \in Nat /\ \A b \in 1 .. Len(ns) : ns[b] \in Nat /\ ns[b] <= Largest(ns)
  <1>1. /\ Len(ns) \in Nat /\ DOMAIN ns = 1 .. Len(ns)
        /\ \A b \in 1 .. Len(ns) : ns[b] \in Nat
    BY LenProperties, ElementOfSeq
  <1>2. Len(ns) \in 1 .. Len(ns)
    BY <1>1, EmptySeq
  <1>3. PICK c \in 1 .. Len(ns) : \A b \in 1 .. Len(ns) : ns[b] <= ns[c]
    BY <1>2, LargestExists
  <1>4. \E n \in {ns[b] : b \in DOMAIN ns} : \A b \in DOMAIN ns : ns[b] <= n
    BY <1>1, <1>3
  <1>5. Largest(ns) \in {ns[b] : b \in DOMAIN ns} /\ \A b \in DOMAIN ns : ns[b] <= Largest(ns)
    BY <1>4 DEF Largest
  <1>6. QED
    BY <1>1, <1>5

LEMMA DigitsNotLess ==
  ASSUME NEW N \in Nat, NEW x \in Nat, NEW y \in Nat, x < y,
         NEW m \in 1 .. N, NEW p \in 1 .. N
  PROVE  x * N + m < y * N + p
  <1>1. y - x - 1 \in Nat /\ m \in Nat /\ p \in Nat
    OBVIOUS
  <1>2. (y - x - 1) * N \in Nat
    BY <1>1, Products
  <1>3. (y - x - 1) * N = y * N - x * N - N
    BY <1>1
  <1>4. x * N \in Nat /\ y * N \in Nat
    BY Products
  <1>5. QED
    BY <1>1, <1>2, <1>3, <1>4

LEMMA Digits ==
  ASSUME NEW N \in Nat, NEW x \in Nat, NEW y \in Nat,
         NEW m \in 1 .. N, NEW p \in 1 .. N, x * N + m = y * N + p
  PROVE  x = y /\ m = p
  <1>1. x * N \in Nat /\ y * N \in Nat /\ m \in Nat /\ p \in Nat
    BY Products
  <1>2. ~(x < y)
    <2>1. x < y => x * N + m < y * N + p
      BY DigitsNotLess
    <2>2. QED
      BY <1>1, <2>1
  <1>3. ~(y < x)
    <2>1. y < x => y * N + p < x * N + m
      BY DigitsNotLess
    <2>2. QED
      BY <1>1, <2>1
  <1>4. x = y
    BY <1>2, <1>3
  <1>5. QED
    BY <1>1, <1>4

(* The index that Encoded reads is the feature's cell.                     *)
LEMMA CellOf ==
  ASSUME NEW ns, NEW L, L = Largest(ns), L \in Nat,
         NEW b \in Nat \ {0}, NEW f \in 1 .. L, NEW m \in 1 .. NMels
  PROVE  /\ Cell(ns, <<b, f, m>>) = ((b - 1) * L + f - 1) * NMels + m
         /\ (b - 1) * L + f - 1 \in Nat /\ (b - 1) * L + f \in Nat /\ (b - 1) * L \in Nat
  <1>1. b - 1 \in Nat /\ f - 1 \in Nat /\ NMels \in Nat /\ f \in Nat /\ m \in Nat
    BY DecoderConstants
  <1>2. (b - 1) * L \in Nat
    BY <1>1, Products
  <1>3. ((b - 1) * L + f - 1) * NMels = (b - 1) * L * NMels + (f - 1) * NMels
    BY <1>1, <1>2
  <1>4. Cell(ns, <<b, f, m>>) = (b - 1) * L * NMels + (f - 1) * NMels + m
    BY DEF Cell
  <1>5. QED
    BY <1>1, <1>2, <1>3, <1>4

LEMMA CellsDiffer ==
  ASSUME NEW ns, NEW L, L = Largest(ns), L \in Nat,
         NEW b \in Nat \ {0}, NEW f \in 1 .. L, NEW m \in 1 .. NMels,
         NEW c \in Nat \ {0}, NEW g \in 1 .. L, NEW p \in 1 .. NMels
  PROVE  Cell(ns, <<b, f, m>>) = Cell(ns, <<c, g, p>>) => b = c /\ f = g /\ m = p
  <1>1. /\ Cell(ns, <<b, f, m>>) = ((b - 1) * L + f - 1) * NMels + m
        /\ (b - 1) * L + f - 1 \in Nat /\ (b - 1) * L \in Nat
    <2>1. m \in 1 .. NMels /\ f \in 1 .. L /\ b \in Nat \ {0}
      OBVIOUS
    <2>2. QED
      BY <2>1, CellOf
  <1>2. /\ Cell(ns, <<c, g, p>>) = ((c - 1) * L + g - 1) * NMels + p
        /\ (c - 1) * L + g - 1 \in Nat /\ (c - 1) * L \in Nat
    <2>1. p \in 1 .. NMels /\ g \in 1 .. L /\ c \in Nat \ {0}
      OBVIOUS
    <2>2. QED
      BY <2>1, CellOf
  <1>3. SUFFICES ASSUME ((b - 1) * L + f - 1) * NMels + m = ((c - 1) * L + g - 1) * NMels + p
                 PROVE  b = c /\ f = g /\ m = p
    BY <1>1, <1>2
  <1>4. (b - 1) * L + f - 1 = (c - 1) * L + g - 1 /\ m = p
    <2> DEFINE x == (b - 1) * L + f - 1
               y == (c - 1) * L + g - 1
    <2>1. x * NMels + m = y * NMels + p /\ NMels \in Nat /\ x \in Nat /\ y \in Nat
      BY <1>1, <1>2, <1>3, DecoderConstants
    <2> HIDE DEF x, y
    <2>2. x = y /\ m = p
      BY <2>1, Digits
    <2>3. QED
      BY <2>2 DEF x, y
  <1>5. (b - 1) * L + f = (c - 1) * L + g
    BY <1>1, <1>2, <1>4
  <1>6. b - 1 = c - 1 /\ f = g
    <2>1. b - 1 \in Nat /\ c - 1 \in Nat
      OBVIOUS
    <2>2. QED
      BY <1>5, <2>1, Digits
  <1>7. QED
    BY <1>4, <1>6

LEMMA CellInTensor ==
  ASSUME NEW N \in Nat, NEW L \in Nat, NEW B \in Nat,
         NEW b \in 1 .. B, NEW f \in 1 .. L, NEW m \in 1 .. N
  PROVE  ((b - 1) * L + f - 1) * N + m \in 1 .. B * L * N
  <1> DEFINE x == (b - 1) * L + f - 1
  <1>1. b - 1 \in Nat /\ f - 1 \in Nat /\ B - b \in Nat /\ L - f \in Nat /\ m \in Nat /\ m >= 1
    OBVIOUS
  <1>2. (b - 1) * L \in Nat /\ (B - b) * L \in Nat /\ B * L \in Nat
    BY <1>1, Products
  <1>3. (b - 1) * L + (B - b) * L = B * L - L
    BY <1>1
  <1>4. x \in Nat /\ B * L - x - 1 \in Nat
    BY <1>1, <1>2, <1>3
  <1>5. x * N \in Nat /\ (B * L - x - 1) * N \in Nat /\ B * L * N \in Nat
    BY <1>2, <1>4, Products
  <1> HIDE DEF x
  <1>6. (B * L - x - 1) * N = B * L * N - x * N - N
    BY <1>2, <1>4
  <1>7. x * N + m \in 1 .. B * L * N
    BY <1>1, <1>5, <1>6
  <1>8. QED
    BY <1>7 DEF x

LEMMA FeatureFound ==
  ASSUME NEW ns \in Seq(Nat), NEW b \in 1 .. Len(ns), NEW f \in 1 .. ns[b],
         NEW m \in 1 .. NMels
  PROVE  Layout(ns)[((b - 1) * Largest(ns) + f - 1) * NMels + m] = <<b, f, m>>
  <1> DEFINE L == Largest(ns)
             i == ((b - 1) * L + f - 1) * NMels + m
  <1>1. Len(ns) \in Nat /\ ns # <<>>
    BY LenProperties, EmptySeq
  <1>2. L \in Nat /\ \A c \in 1 .. Len(ns) : ns[c] \in Nat /\ ns[c] <= L
    BY <1>1, LargestBounds
  <1>3. f \in 1 .. L /\ b \in Nat \ {0} /\ NMels \in Nat
    BY <1>1, <1>2, DecoderConstants
  <1>4. Cell(ns, <<b, f, m>>) = i
    BY <1>2, <1>3, CellOf
  <1>5. <<b, f, m>> \in Features(ns)
    BY <1>3 DEF Features
  <1>6. i \in 1 .. Len(ns) * Largest(ns) * NMels
    BY <1>1, <1>2, <1>3, CellInTensor
  <1>7. ASSUME NEW d \in Features(ns), Cell(ns, d) = i PROVE d = <<b, f, m>>
    <2>1. PICK c \in 1 .. Len(ns), g \in 1 .. L, p \in 1 .. NMels : d = <<c, g, p>>
      BY DEF Features
    <2>2. c \in Nat \ {0} /\ Cell(ns, <<b, f, m>>) = Cell(ns, <<c, g, p>>)
      BY <1>1, <1>4, <1>7, <2>1
    <2>3. b = c /\ f = g /\ m = p
      BY <1>2, <1>3, <2>2, CellsDiffer
    <2>4. QED
      BY <2>1, <2>3
  <1> HIDE DEF i, L
  <1>8. (CHOOSE d \in Features(ns) : Cell(ns, d) = i) = <<b, f, m>>
    BY <1>4, <1>5, <1>7
  <1>9. Layout(ns)[i] = <<b, f, m>>
    BY <1>4, <1>5, <1>6, <1>8 DEF Layout
  <1>10. QED
    BY <1>9 DEF i, L

(* The context that a sample starts with.                                  *)
LEMMA BlankFits ==
  ASSUME context' = BlankContext, Len(tokens') = 0
  PROVE  ContextIsSuffix' /\ (context \in [1 .. ContextSize -> Vocabulary \union {Blank}])'
  <1>1. \A i \in 1 .. ContextSize : context'[i] = Blank /\ 0 - ContextSize + i < 1
    BY DecoderConstants DEF BlankContext
  <1>2. ContextIsSuffix'
    BY <1>1 DEF ContextIsSuffix
  <1>3. QED
    BY <1>2 DEF BlankContext

-----------------------------------------------------------------------------
(* The decoder's steps. *)

LEMMA DecodeStarts == DecodeInit => DecodeInv
  <1> SUFFICES ASSUME DecodeInit PROVE DecodeInv
    OBVIOUS
  <1>1. /\ frames = <<>> /\ data = <<>> /\ frame = 1 /\ emitted = 0
        /\ context = <<>> /\ tokens = <<>> /\ results = <<>>
    BY DEF DecodeInit
  <1>2. DecodeTyped
    BY <1>1, EmptySeq, DecoderConstants DEF DecodeTyped
  <1>3. Batch
    BY <1>1 DEF Batch
  <1>4. ~Decoding
    BY <1>1 DEF Decoding, Sample
  <1>5. Len(results) <= Len(frames) /\ DOMAIN results = {}
    BY <1>1
  <1>6. QED
    BY <1>2, <1>3, <1>4, <1>5 DEF DecodeInv, SampleInv

LEMMA FrameCountsAreNat ==
  ASSUME DecodeTyped
  PROVE  /\ Len(frames) \in Nat /\ Len(results) \in Nat /\ Len(tokens) \in Nat
         /\ frames \in Seq(Nat)
         /\ \A b \in 1 .. Len(frames) : frames[b] \in Nat \ {0} /\ frames[b] \in FrameCounts
         /\ frame \in Nat /\ emitted \in Nat
  <1>1. frames \in Seq(FrameCounts) /\ results \in Seq(Seq(Token)) /\ tokens \in Seq(Token)
    BY DEF DecodeTyped
  <1>2. Len(frames) \in Nat /\ Len(results) \in Nat /\ Len(tokens) \in Nat
    BY <1>1, LenProperties
  <1>3. \A b \in 1 .. Len(frames) : frames[b] \in Nat \ {0} /\ frames[b] \in FrameCounts
    BY <1>1, ElementOfSeq, DecoderConstants
  <1>4. frames \in Seq(Nat)
    <2>1. frames \in [1 .. Len(frames) -> Nat]
      BY <1>1, <1>3, LenProperties
    <2>2. QED
      BY <1>2, <2>1, SeqDef
  <1>5. frame \in Nat /\ emitted \in Nat
    BY DEF DecodeTyped
  <1>6. QED
    BY <1>2, <1>3, <1>4, <1>5

LEMMA StartBatchKeeps ==
  ASSUME DecodeInv, NEW n \in BatchSizes, NEW ns \in [1 .. n -> FrameCounts], StartBatch(ns)
  PROVE  DecodeInv'
  <1>1. /\ frames' = ns /\ data' = Layout(ns) /\ results' = <<>>
        /\ frame' = 1 /\ emitted' = 0 /\ tokens' = <<>> /\ context' = BlankContext
    BY DEF StartBatch
  <1>2. n \in Nat /\ n >= 1
    BY DecoderConstants
  <1>3. ns \in Seq(FrameCounts) /\ Len(ns) = n
    <2>1. ns \in Seq(FrameCounts)
      BY <1>2, SeqDef
    <2>2. DOMAIN ns = 1 .. n /\ DOMAIN ns = 1 .. Len(ns) /\ Len(ns) \in Nat
      BY <2>1, LenProperties
    <2>3. QED
      BY <1>2, <2>1, <2>2
  <1>4. DecodeTyped'
    BY <1>1, <1>3, EmptySeq, DecoderConstants DEF DecodeTyped
  <1>5. Batch'
    <2>1. ns # <<>>
      BY <1>2, <1>3
    <2>2. QED
      BY <1>1, <1>3, <2>1 DEF Batch
  <1>6. /\ Len(results') = 0 /\ Len(frames') = n /\ DOMAIN results' = {}
        /\ Len(tokens') = 0 /\ DOMAIN tokens' = {}
    BY <1>1, <1>3
  <1>7. ContextIsSuffix' /\ (context \in [1 .. ContextSize -> Vocabulary \union {Blank}])'
    BY <1>1, <1>6, BlankFits
  <1>8. SampleInv'
    <2>1. ns[1] \in Nat /\ Sample' = 1
      <3>1. 1 \in 1 .. n
        BY <1>2
      <3>2. ns[1] \in FrameCounts
        BY <3>1
      <3>3. ns[1] \in Nat
        BY <3>2, DecoderConstants
      <3>4. QED
        BY <1>6, <3>3 DEF Sample
    <2>2. Encodeds' = EncodedFrames(ns[1]) /\ EncodedFrames(ns[1]) \in Nat
      BY <1>1, <2>1, EncodedFramesFit DEF Encodeds
    <2>3. OwnFrames(Sample, tokens)' /\ Ordered(tokens)'
      BY <1>6 DEF OwnFrames, Ordered
    <2>4. \A j \in 1 .. Len(tokens') : tokens'[j].start < frame'
      BY <1>6
    <2>5. frame' <= Encodeds' + 1
      BY <1>1, <2>2
    <2>6. QED
      BY <1>7, <2>3, <2>4, <2>5 DEF SampleInv
  <1>9. QED
    BY <1>2, <1>4, <1>5, <1>6, <1>8 DEF DecodeInv

(* The features that the encoded frame from start on stands for.           *)
FeaturesAt(b, start) ==
  [g \in 1 .. Subsampling |-> [m \in 1 .. NMels |-> <<b, start * Subsampling + g, m>>]]

LEMMA FeaturesOf ==
  ASSUME DecodeInv, InFrame
  PROVE  Encoded(Sample, frame) = FeaturesAt(Sample, frame - 1)
  <1>1. DecodeTyped /\ Batch
    BY DEF DecodeInv
  <1>2. /\ Sample \in 1 .. Len(frames) /\ frames \in Seq(Nat) /\ frames[Sample] \in Nat
        /\ frame \in Nat /\ frame >= 1 /\ frame <= Encodeds /\ Len(frames) \in Nat
    BY <1>1, FrameCountsAreNat DEF InFrame, Decoding, Sample, DecodeTyped
  <1>3. data = Layout(frames) /\ frames # <<>>
    BY <1>1, <1>2 DEF Batch
  <1>4. Largest(frames) \in Nat
    BY <1>2, <1>3, LargestBounds
  <1> DEFINE L == Largest(frames)
             past == (Sample - 1) * L
             before == (frame - 1) * Subsampling
  <1>5. past \in Nat /\ before \in Nat /\ Subsampling \in Nat
    <2>1. Sample - 1 \in Nat /\ frame - 1 \in Nat /\ Subsampling \in Nat
      BY <1>2, DecoderConstants
    <2>2. QED
      BY <1>4, <2>1, Products
  <1>6. before + Subsampling <= frames[Sample]
    <2>1. /\ Encodeds \in Nat /\ Encodeds * Subsampling <= frames[Sample]
      BY <1>2, EncodedFramesFit DEF Encodeds
    <2>2. (Encodeds - frame) * Subsampling \in Nat
      <3>1. Encodeds - frame \in Nat
        BY <1>2, <2>1
      <3>2. QED
        BY <1>5, <3>1, Products
    <2>3. (Encodeds - frame) * Subsampling = Encodeds * Subsampling - before - Subsampling
      BY <1>2, <1>5, <2>1
    <2>4. Encodeds * Subsampling \in Nat
      BY <1>5, <2>1, Products
    <2> DEFINE whole == Encodeds * Subsampling
               ahead == (Encodeds - frame) * Subsampling
    <2>5. whole <= frames[Sample] /\ whole \in Nat /\ ahead \in Nat /\ ahead = whole - before - Subsampling
      BY <2>1, <2>2, <2>3, <2>4
    <2> HIDE DEF before, whole, ahead
    <2>6. QED
      BY <1>2, <1>5, <2>5
  <1> HIDE DEF past, before
  <1>7. ASSUME NEW g \in 1 .. Subsampling, NEW m \in 1 .. NMels
        PROVE  data[(past + before + g - 1) * NMels + m] = <<Sample, before + g, m>>
    <2>1. before + g \in 1 .. frames[Sample]
      BY <1>2, <1>5, <1>6
    <2> DEFINE f == before + g
    <2> HIDE DEF f
    <2>2. Layout(frames)[((Sample - 1) * Largest(frames) + f - 1) * NMels + m] = <<Sample, f, m>>
      <3>1. f \in 1 .. frames[Sample]
        BY <2>1 DEF f
      <3>2. QED
        BY <1>2, <3>1, FeatureFound
    <2>3. (Sample - 1) * Largest(frames) + f - 1 = past + before + g - 1
      BY <1>5 DEF f, past
    <2>4. QED
      BY <1>3, <2>2, <2>3 DEF f
  <1>8. Encoded(Sample, frame) =
          [g \in 1 .. Subsampling |->
             [m \in 1 .. NMels |-> data[(past + before + g - 1) * NMels + m]]]
    BY DEF Encoded, past, before
  <1>9. FeaturesAt(Sample, frame - 1) =
          [g \in 1 .. Subsampling |-> [m \in 1 .. NMels |-> <<Sample, before + g, m>>]]
    BY DEF FeaturesAt, before
  <1> DEFINE Read(g) == [m \in 1 .. NMels |-> data[(past + before + g - 1) * NMels + m]]
             Kept(g) == [m \in 1 .. NMels |-> <<Sample, before + g, m>>]
  <1>10. \A g \in 1 .. Subsampling : Read(g) = Kept(g)
    BY <1>7
  <1>11. /\ Encoded(Sample, frame) = [g \in 1 .. Subsampling |-> Read(g)]
         /\ FeaturesAt(Sample, frame - 1) = [g \in 1 .. Subsampling |-> Kept(g)]
    BY <1>8, <1>9
  <1> HIDE DEF Read, Kept
  <1>12. QED
    BY <1>10, <1>11

LEMMA EmitKeeps ==
  ASSUME DecodeInv, NEW id \in Vocabulary, Emit(id)
  PROVE  DecodeInv'
  <1> DEFINE token == [id |-> id, start |-> frame - 1, end |-> frame,
                       heard |-> FeaturesAt(Sample, frame - 1)]
  <1>1. /\ InFrame /\ emitted < MaxTokensPerStep
        /\ context' = Shifted(id) /\ emitted' = emitted + 1
        /\ frames' = frames /\ data' = data /\ frame' = frame /\ results' = results
    BY DEF Emit
  <1>2. tokens' = Append(tokens, token)
    BY <1>1, FeaturesOf DEF Emit
  <1>3. /\ DecodeTyped /\ Batch /\ SampleInv /\ Decoding
        /\ Len(results) \in Nat /\ Len(tokens) \in Nat /\ Len(frames) \in Nat
        /\ frame \in Nat /\ frame - 1 \in Nat /\ emitted \in Nat
        /\ Sample \in Nat /\ Sample \in 1 .. Len(frames) /\ frames[Sample] \in Nat
        /\ Encodeds \in Nat
    <2>1. DecodeTyped /\ Batch /\ SampleInv /\ Decoding
      BY <1>1 DEF DecodeInv, InFrame
    <2>2. /\ Len(results) \in Nat /\ Len(tokens) \in Nat /\ Len(frames) \in Nat
          /\ frame \in Nat /\ frame - 1 \in Nat /\ emitted \in Nat
          /\ Sample \in Nat /\ Sample \in 1 .. Len(frames) /\ frames[Sample] \in Nat
      BY <2>1, FrameCountsAreNat DEF DecodeTyped, Decoding, Sample
    <2>3. Encodeds \in Nat
      BY <2>2, EncodedFramesFit DEF Encodeds
    <2>4. QED
      BY <2>1, <2>2, <2>3
  <1>4. token \in Token
    <2>1. FeaturesAt(Sample, frame - 1) \in
            [1 .. Subsampling -> [1 .. NMels -> Nat \X Nat \X Nat]]
      <3>1. ASSUME NEW g \in 1 .. Subsampling, NEW m \in 1 .. NMels
            PROVE  <<Sample, (frame - 1) * Subsampling + g, m>> \in Nat \X Nat \X Nat
        <4>1. (frame - 1) * Subsampling \in Nat
          BY <1>3, DecoderConstants, Products
        <4>2. g \in Nat /\ m \in Nat
          BY DecoderConstants
        <4> DEFINE before == (frame - 1) * Subsampling
        <4>3. before + g \in Nat
          BY <4>1, <4>2
        <4> HIDE DEF before
        <4>4. <<Sample, before + g, m>> \in Nat \X Nat \X Nat
          BY <1>3, <4>2, <4>3
        <4>5. QED
          BY <4>4 DEF before
      <3>2. QED
        BY <3>1 DEF FeaturesAt
    <2>2. QED
      BY <1>3, <2>1 DEF Token
  <1>5. token.id = id /\ token.start = frame - 1
        /\ token.heard = FeaturesAt(Sample, frame - 1)
    OBVIOUS
  <1> HIDE DEF token
  <1>6. tokens \in Seq(Token)
    BY <1>3 DEF DecodeTyped
  <1>7. /\ tokens' \in Seq(Token) /\ Len(tokens') = Len(tokens) + 1
        /\ tokens'[Len(tokens) + 1] = token
        /\ \A j \in 1 .. Len(tokens) : tokens'[j] = tokens[j]
    BY <1>2, <1>4, <1>6, AppendProperties
  <1>8. DOMAIN tokens' = 1 .. Len(tokens) + 1 /\ DOMAIN tokens = 1 .. Len(tokens)
    BY <1>6, <1>7, LenProperties
  <1>9. Sample' = Sample /\ Decoding'
    BY <1>1, <1>3 DEF Sample, Decoding
  <1>10. DecodeTyped'
    <2>1. emitted' \in 0 .. MaxTokensPerStep
      BY <1>1, <1>3, DecoderConstants
    <2>2. QED
      BY <1>1, <1>3, <1>7, <2>1 DEF DecodeTyped
  <1>11. Batch'
    <2>1. frames # <<>>
      BY <1>3
    <2>2. QED
      BY <1>1, <1>3, <2>1 DEF Batch
  <1>12. ASSUME NEW j \in 1 .. Len(tokens) + 1
         PROVE  /\ tokens'[j].start < frame /\ tokens'[j].start < Encodeds
                /\ tokens'[j].start \in Nat
                /\ tokens'[j].heard = FeaturesAt(Sample, tokens'[j].start)
    <2>1. CASE j = Len(tokens) + 1
      <3>1. tokens'[j].start = frame - 1 /\ frame <= Encodeds
        BY <1>1, <1>5, <1>7, <2>1 DEF InFrame
      <3>2. tokens'[j].heard = FeaturesAt(Sample, frame - 1)
        BY <1>5, <1>7, <2>1
      <3>3. tokens'[j].start \in Nat /\ tokens'[j].start < frame /\ tokens'[j].start < Encodeds
        BY <1>3, <3>1
      <3>4. QED
        BY <3>1, <3>2, <3>3
    <2>2. CASE j # Len(tokens) + 1
      <3>1. j \in 1 .. Len(tokens)
        BY <1>3, <2>2
      <3>2. tokens[j] \in Token
        BY <1>6, <3>1, ElementOfSeq
      <3>3. tokens[j].start < frame /\ OwnFrames(Sample, tokens)
        BY <1>3, <3>1 DEF SampleInv
      <3>4. /\ tokens[j].start < Encodeds
            /\ tokens[j].heard = FeaturesAt(Sample, tokens[j].start)
        BY <1>8, <3>1, <3>3 DEF OwnFrames, Encodeds, FeaturesAt
      <3>5. QED
        BY <1>7, <3>1, <3>2, <3>3, <3>4 DEF Token
    <2>3. QED
      BY <2>1, <2>2
  <1>13. OwnFrames(Sample, tokens)'
    BY <1>1, <1>8, <1>9, <1>12 DEF OwnFrames, Encodeds, FeaturesAt
  <1>14. Ordered(tokens)'
    <2>1. ASSUME NEW j \in 1 .. Len(tokens) PROVE tokens'[j].start <= tokens'[j + 1].start
      <3>1. CASE j = Len(tokens)
        <4>1. tokens'[j + 1].start = frame - 1
          BY <1>5, <1>7, <3>1
        <4>2. tokens'[j].start \in Nat /\ tokens'[j].start < frame
          <5>1. j \in 1 .. Len(tokens) + 1
            BY <1>3
          <5>2. QED
            BY <1>12, <5>1
        <4>3. QED
          BY <1>3, <4>1, <4>2
      <3>2. CASE j # Len(tokens)
        <4>1. j \in 1 .. Len(tokens) - 1 /\ j + 1 \in 1 .. Len(tokens)
          BY <1>3, <3>2
        <4>2. tokens[j].start <= tokens[j + 1].start
          BY <1>3, <4>1 DEF SampleInv, Ordered
        <4>3. QED
          BY <1>7, <4>1, <4>2
      <3>3. QED
        BY <3>1, <3>2
    <2>2. Len(tokens') - 1 = Len(tokens)
      BY <1>3, <1>7
    <2>3. QED
      BY <2>1, <2>2 DEF Ordered
  <1>15. /\ context' = [i \in 1 .. ContextSize |-> IF i = ContextSize THEN id ELSE context[i + 1]]
         /\ context \in [1 .. ContextSize -> Vocabulary \union {Blank}]
    BY <1>1, <1>3 DEF Shifted, SampleInv
  <1>16. context' \in [1 .. ContextSize -> Vocabulary \union {Blank}]
    <2>1. ASSUME NEW i \in 1 .. ContextSize, i # ContextSize
          PROVE  context[i + 1] \in Vocabulary \union {Blank}
      <3>1. i + 1 \in 1 .. ContextSize
        BY <2>1, DecoderConstants
      <3>2. QED
        BY <1>15, <3>1
    <2>2. QED
      BY <1>15, <2>1
  <1>17. ContextIsSuffix'
    <2>1. ASSUME NEW i \in 1 .. ContextSize, NEW l, l = Len(tokens') - ContextSize + i
          PROVE  context'[i] = IF l < 1 THEN Blank ELSE tokens'[l].id
      <3>1. ContextSize \in Nat /\ i \in Nat
        BY DecoderConstants
      <3>2. CASE i = ContextSize
        <4>1. l = Len(tokens) + 1
          BY <1>3, <1>7, <2>1, <3>1, <3>2
        <4>2. QED
          BY <1>3, <1>5, <1>7, <1>15, <3>2, <4>1
      <3>3. CASE i # ContextSize
        <4>1. i + 1 \in 1 .. ContextSize /\ l = Len(tokens) - ContextSize + (i + 1)
          BY <1>3, <1>7, <2>1, <3>1, <3>3
        <4>2. context[i + 1] = IF l < 1 THEN Blank ELSE tokens[l].id
          BY <1>3, <4>1 DEF SampleInv, ContextIsSuffix
        <4>3. ~(l < 1) => l \in 1 .. Len(tokens)
          BY <1>3, <3>1, <4>1
        <4>4. QED
          BY <1>7, <1>15, <3>3, <4>2, <4>3
      <3>4. QED
        BY <3>2, <3>3
    <2>2. QED
      BY <2>1 DEF ContextIsSuffix
  <1>18. SampleInv'
    <2>1. frame' <= Encodeds' + 1
      BY <1>1, <1>3, <1>9 DEF SampleInv, Encodeds
    <2>2. \A j \in 1 .. Len(tokens') : tokens'[j].start < frame'
      BY <1>1, <1>7, <1>12
    <2>3. QED
      BY <1>13, <1>14, <1>16, <1>17, <2>1, <2>2 DEF SampleInv
  <1>19. /\ Len(results') <= Len(frames')
         /\ \A b \in DOMAIN results' : OwnFrames(b, results[b])' /\ Tiled(b, results[b])'
    <2>1. \A b : OwnFrames(b, results[b])' = OwnFrames(b, results[b])
      BY <1>1 DEF OwnFrames
    <2>2. \A b : Tiled(b, results[b])' = Tiled(b, results[b])
      BY <1>1 DEF Tiled, EndsWell
    <2>3. QED
      BY <1>1, <2>1, <2>2 DEF DecodeInv
  <1>20. QED
    BY <1>10, <1>11, <1>18, <1>19 DEF DecodeInv

LEMMA NextFrameKeeps == DecodeInv /\ NextFrame => DecodeInv'
  <1> SUFFICES ASSUME DecodeInv, NextFrame PROVE DecodeInv'
    OBVIOUS
  <1>1. /\ InFrame /\ frame' = frame + 1 /\ emitted' = 0
        /\ frames' = frames /\ data' = data /\ context' = context
        /\ tokens' = tokens /\ results' = results
    BY DEF NextFrame
  <1>2. DecodeTyped /\ Batch /\ SampleInv /\ Decoding
    BY <1>1 DEF DecodeInv, InFrame
  <1>3. /\ Len(results) \in Nat /\ Len(tokens) \in Nat /\ frame \in Nat
        /\ Sample \in 1 .. Len(frames) /\ frames[Sample] \in Nat /\ frame <= Encodeds
    BY <1>1, <1>2, FrameCountsAreNat DEF Sample, Decoding, InFrame
  <1>4. DecodeTyped'
    BY <1>1, <1>2, <1>3, DecoderConstants DEF DecodeTyped
  <1>5. Batch'
    BY <1>1, <1>2 DEF Batch
  <1>6. Sample' = Sample
    BY <1>1 DEF Sample
  <1>7. ASSUME NEW j \in 1 .. Len(tokens) PROVE tokens[j].start < frame + 1
    <2>1. tokens[j] \in Token
      BY <1>2, ElementOfSeq DEF DecodeTyped
    <2>2. tokens[j].start \in Nat /\ tokens[j].start < frame
      BY <1>2, <2>1 DEF Token, SampleInv
    <2>3. QED
      BY <1>3, <2>2
  <1>8. OwnFrames(Sample, tokens)' /\ Ordered(tokens)' /\ ContextIsSuffix'
    BY <1>1, <1>2, <1>6 DEF SampleInv, OwnFrames, Ordered, ContextIsSuffix
  <1>9. frame' <= Encodeds' + 1
    <2>1. Encodeds \in Nat /\ Encodeds' = Encodeds
      BY <1>1, <1>3, <1>6, EncodedFramesFit DEF Encodeds
    <2>2. QED
      BY <1>1, <1>3, <2>1
  <1>10. SampleInv'
    BY <1>1, <1>2, <1>7, <1>8, <1>9 DEF SampleInv
  <1>11. /\ Len(results') <= Len(frames')
         /\ \A b \in DOMAIN results' : OwnFrames(b, results[b])' /\ Tiled(b, results[b])'
    <2>1. \A b : OwnFrames(b, results[b])' = OwnFrames(b, results[b])
      BY <1>1 DEF OwnFrames
    <2>2. \A b : Tiled(b, results[b])' = Tiled(b, results[b])
      BY <1>1 DEF Tiled, EndsWell
    <2>3. QED
      BY <1>1, <2>1, <2>2 DEF DecodeInv
  <1>12. QED
    BY <1>4, <1>5, <1>10, <1>11 DEF DecodeInv

(* The clamp to the duration touches only the sample of a single frame.    *)
LEMMA ClampedEnd ==
  ASSUME NEW n \in Nat \ {0}, NEW duration \in Lasting(n), NEW x \in Nat, x <= EncodedFrames(n)
  PROVE  /\ Least(x, duration) \in Nat /\ Least(x, duration) <= x
         /\ n # 1 \/ x = 0 => Least(x, duration) = x
  <1>1. EncodedFrames(n) \in Nat /\ EncodedFrames(n) <= n
    BY EncodedFramesFit
  <1>2. duration \in Nat /\ (n # 1 => n < duration)
    <2>1. CASE n = 1
      BY <2>1 DEF Lasting
    <2>2. CASE n # 1
      BY <2>2 DEF Lasting
    <2>3. QED
      BY <2>1, <2>2
  <1>3. n # 1 => x < duration
    BY <1>1, <1>2
  <1>4. QED
    BY <1>2, <1>3 DEF Least

LEMMA EndsFacts ==
  ASSUME DecodeTyped, SampleInv, Decoding, frames[Sample] \in Nat \ {0},
         NEW duration \in Lasting(frames[Sample])
  PROVE  /\ Ends(Encodeds, duration) \in Seq(Token)
         /\ OwnFrames(Sample, Ends(Encodeds, duration)) /\ Tiled(Sample, Ends(Encodeds, duration))
  <1> DEFINE maxT == Encodeds
             done == Ends(maxT, duration)
             end(j) == IF j < Len(tokens) THEN tokens[j + 1].start ELSE maxT
             cut(j) == Least(end(j), duration)
  <1>1. tokens \in Seq(Token) /\ Len(tokens) \in Nat /\ DOMAIN tokens = 1 .. Len(tokens)
    BY LenProperties DEF DecodeTyped
  <1>2. \A j \in 1 .. Len(tokens) : tokens[j] \in Token /\ tokens[j].start \in Nat
    <2>1. \A j \in 1 .. Len(tokens) : tokens[j] \in Token
      BY <1>1, ElementOfSeq
    <2>2. QED
      BY <2>1 DEF Token
  <1>3. maxT = EncodedFrames(frames[Sample]) /\ maxT \in Nat /\ maxT <= frames[Sample]
    <2>1. frames[Sample] \in Nat /\ maxT = EncodedFrames(frames[Sample])
      BY DEF Encodeds
    <2> HIDE DEF maxT
    <2>2. QED
      BY <2>1, EncodedFramesFit
  <1>4. \A j \in 1 .. Len(tokens) : tokens[j].start < maxT
    BY <1>1 DEF SampleInv, OwnFrames, Encodeds
  <1>5. done = [j \in 1 .. Len(tokens) |-> [tokens[j] EXCEPT !.end = cut(j)]]
    BY <1>1 DEF Ends
  <1> HIDE DEF done, maxT
  <1>6. ASSUME NEW j \in 1 .. Len(tokens)
        PROVE  end(j) \in Nat /\ end(j) <= maxT
    <2>1. CASE j < Len(tokens)
      <3>1. j + 1 \in 1 .. Len(tokens)
        BY <1>1, <2>1
      <3>2. tokens[j + 1].start \in Nat /\ tokens[j + 1].start < maxT
        BY <1>2, <1>4, <3>1
      <3>3. QED
        BY <1>3, <2>1, <3>2
    <2>2. CASE ~(j < Len(tokens))
      BY <1>3, <2>2
    <2>3. QED
      BY <2>1, <2>2
  <1> HIDE DEF end, cut
  <1>7. ASSUME NEW j \in 1 .. Len(tokens)
        PROVE  /\ cut(j) \in Nat /\ cut(j) <= end(j)
               /\ frames[Sample] # 1 \/ end(j) = 0 => cut(j) = end(j)
    BY <1>3, <1>6, ClampedEnd DEF cut
  <1>8. \A j \in 1 .. Len(tokens) :
          /\ done[j] \in Token /\ done[j].start = tokens[j].start
          /\ done[j].heard = tokens[j].heard /\ done[j].end = cut(j)
    BY <1>2, <1>5, <1>7 DEF Token
  <1>9. done \in Seq(Token) /\ DOMAIN done = 1 .. Len(tokens) /\ Len(done) = Len(tokens)
    <2>1. done \in [1 .. Len(tokens) -> Token]
      BY <1>5, <1>8
    <2>2. done \in Seq(Token)
      BY <1>1, <2>1, SeqDef
    <2>3. QED
      BY <1>1, <2>1, <2>2, LenProperties
  <1>10. OwnFrames(Sample, done)
    <2>1. OwnFrames(Sample, tokens)
      BY DEF SampleInv
    <2>2. QED
      BY <1>1, <1>8, <1>9, <2>1 DEF OwnFrames
  <1>11. Tiled(Sample, done)
    <2>1. ASSUME NEW j \in 1 .. Len(tokens) - 1
          PROVE  done[j].start <= done[j + 1].start /\ done[j].end = done[j + 1].start
      <3>1. j \in 1 .. Len(tokens) /\ j + 1 \in 1 .. Len(tokens) /\ j < Len(tokens)
        BY <1>1
      <3>2. tokens[j].start <= tokens[j + 1].start
        BY DEF SampleInv, Ordered
      <3>3. end(j) = tokens[j + 1].start
        BY <3>1 DEF end
      <3>4. cut(j) = end(j)
        <4>1. CASE frames[Sample] # 1
          BY <1>7, <3>1, <4>1
        <4>2. CASE frames[Sample] = 1
          <5>1. tokens[j + 1].start \in Nat /\ tokens[j + 1].start < maxT
            BY <1>2, <1>4, <3>1
          <5>2. end(j) = 0
            BY <1>3, <3>3, <4>2, <5>1
          <5>3. QED
            BY <1>7, <3>1, <5>2
        <4>3. QED
          BY <4>1, <4>2
      <3>5. QED
        BY <1>8, <3>1, <3>2, <3>3, <3>4
    <2>2. ASSUME done # <<>>
          PROVE  done[Len(done)].start <= done[Len(done)].end /\ EndsWell(Sample, done[Len(done)].end)
      <3> DEFINE l == Len(tokens)
      <3>1. l # 0
        BY <1>9, <2>2, EmptySeq
      <3>2. l \in 1 .. Len(tokens) /\ ~(l < Len(tokens))
        BY <1>1, <3>1
      <3>3. end(l) = maxT
        BY <3>2 DEF end
      <3>4. tokens[l].start \in Nat /\ tokens[l].start < maxT
        BY <1>2, <1>4, <3>2
      <3>5. cut(l) \in Nat /\ cut(l) <= maxT /\ (frames[Sample] # 1 => cut(l) = maxT)
        BY <1>7, <3>2, <3>3
      <3>6. done[Len(done)].start = tokens[l].start /\ done[Len(done)].end = cut(l)
        BY <1>8, <1>9, <3>2
      <3> HIDE DEF l
      <3>7. tokens[l].start <= cut(l)
        <4>1. CASE frames[Sample] # 1
          BY <1>3, <3>4, <3>5, <4>1
        <4>2. CASE frames[Sample] = 1
          BY <1>3, <3>4, <3>5, <4>2
        <4>3. QED
          BY <4>1, <4>2
      <3>8. EndsWell(Sample, cut(l))
        <4>1. CASE frames[Sample] # 1
          BY <1>3, <3>5, <4>1 DEF EndsWell
        <4>2. CASE frames[Sample] = 1
          BY <1>3, <3>5, <4>2 DEF EndsWell
        <4>3. QED
          BY <4>1, <4>2
      <3>9. QED
        BY <3>6, <3>7, <3>8
    <2>3. QED
      BY <1>9, <2>1, <2>2 DEF Tiled
  <1>12. QED
    BY <1>9, <1>10, <1>11 DEF done, maxT

LEMMA FinishSampleKeeps == DecodeInv /\ FinishSample => DecodeInv'
  <1> SUFFICES ASSUME DecodeInv, FinishSample PROVE DecodeInv'
    OBVIOUS
  <1>0. PICK duration \in Lasting(frames[Sample]) :
          results' = Append(results, Ends(Encodeds, duration))
    BY DEF FinishSample
  <1> DEFINE done == Ends(Encodeds, duration)
  <1>1. /\ Decoding /\ results' = Append(results, done)
        /\ frame' = 1 /\ emitted' = 0 /\ tokens' = <<>> /\ context' = BlankContext
        /\ frames' = frames /\ data' = data
    BY <1>0 DEF FinishSample
  <1>2. DecodeTyped /\ Batch /\ SampleInv
    BY DEF DecodeInv
  <1>3. /\ Len(results) \in Nat /\ Len(frames) \in Nat /\ results \in Seq(Seq(Token))
        /\ Sample = Len(results) + 1 /\ Sample \in 1 .. Len(frames) /\ frames[Sample] \in Nat \ {0}
    BY <1>1, <1>2, FrameCountsAreNat DEF Sample, Decoding, DecodeTyped
  <1>4. done \in Seq(Token) /\ OwnFrames(Sample, done) /\ Tiled(Sample, done)
    BY <1>1, <1>2, <1>3, EndsFacts
  <1> HIDE DEF done
  <1>5. /\ results' \in Seq(Seq(Token)) /\ Len(results') = Sample
        /\ results'[Sample] = done
        /\ \A b \in 1 .. Len(results) : results'[b] = results[b]
    BY <1>1, <1>3, <1>4, AppendProperties
  <1>6. DOMAIN results' = 1 .. Sample /\ DOMAIN results = 1 .. Len(results)
    BY <1>3, <1>5, LenProperties
  <1>7. DecodeTyped'
    BY <1>1, <1>2, <1>5, EmptySeq, DecoderConstants DEF DecodeTyped
  <1>8. Batch'
    <2>1. frames # <<>>
      BY <1>3
    <2>2. QED
      BY <1>1, <1>2, <2>1 DEF Batch
  <1>9. Len(tokens') = 0 /\ DOMAIN tokens' = {}
    BY <1>1
  <1>10. SampleInv'
    <2>1. SUFFICES ASSUME Decoding' PROVE SampleInv'
      BY DEF SampleInv
    <2>2. Sample' = Sample + 1 /\ Sample' \in 1 .. Len(frames)
      BY <1>1, <1>3, <1>5, <2>1 DEF Sample, Decoding
    <2>3. frames[Sample'] \in Nat
      BY <1>2, <2>2, FrameCountsAreNat
    <2>4. frame' <= Encodeds' + 1
      <3>1. Encodeds' = EncodedFrames(frames[Sample']) /\ EncodedFrames(frames[Sample']) \in Nat
        BY <1>1, <2>3, EncodedFramesFit DEF Encodeds
      <3>2. \A x \in Nat : 1 <= x + 1
        OBVIOUS
      <3>3. QED
        BY <1>1, <3>1, <3>2
    <2>5. OwnFrames(Sample, tokens)' /\ Ordered(tokens)'
      BY <1>9 DEF OwnFrames, Ordered
    <2>6. \A j \in 1 .. Len(tokens') : tokens'[j].start < frame'
      BY <1>9
    <2>7. ContextIsSuffix' /\ (context \in [1 .. ContextSize -> Vocabulary \union {Blank}])'
      BY <1>1, <1>9, BlankFits
    <2>8. QED
      BY <2>4, <2>5, <2>6, <2>7 DEF SampleInv
  <1>11. ASSUME NEW b \in 1 .. Sample
         PROVE  OwnFrames(b, results'[b]) /\ Tiled(b, results'[b])
    <2>1. CASE b = Sample
      BY <1>4, <1>5, <2>1
    <2>2. CASE b # Sample
      <3>1. b \in 1 .. Len(results)
        BY <1>3, <2>2
      <3>2. OwnFrames(b, results[b]) /\ Tiled(b, results[b])
        BY <1>6, <3>1 DEF DecodeInv
      <3>3. QED
        BY <1>5, <3>1, <3>2
    <2>3. QED
      BY <2>1, <2>2
  <1>12. \A b \in DOMAIN results' : OwnFrames(b, results[b])' /\ Tiled(b, results[b])'
    <2>1. ASSUME NEW b \in DOMAIN results'
          PROVE  OwnFrames(b, results[b])' /\ Tiled(b, results[b])'
      <3>1. OwnFrames(b, results'[b]) /\ Tiled(b, results'[b])
        BY <1>6, <1>11
      <3>2. QED
        BY <1>1, <3>1 DEF OwnFrames, Tiled, EndsWell
    <2>2. QED
      BY <2>1
  <1>13. Len(results') <= Len(frames')
    BY <1>1, <1>3, <1>5
  <1>14. QED
    BY <1>7, <1>8, <1>10, <1>12, <1>13 DEF DecodeInv

LEMMA BatchOverKeeps == DecodeInv /\ BatchOver => DecodeInv'
  <1> SUFFICES ASSUME DecodeInv, BatchOver PROVE DecodeInv'
    OBVIOUS
  <1>1. /\ frames' = <<>> /\ data' = <<>> /\ frame' = 1 /\ emitted' = 0
        /\ context' = <<>> /\ tokens' = <<>> /\ results' = <<>>
    BY DEF BatchOver
  <1>2. DecodeTyped'
    BY <1>1, EmptySeq, DecoderConstants DEF DecodeTyped
  <1>3. Batch'
    BY <1>1 DEF Batch
  <1>4. ~Decoding'
    BY <1>1 DEF Decoding, Sample
  <1>5. Len(results') <= Len(frames') /\ DOMAIN results' = {}
    BY <1>1
  <1>6. QED
    BY <1>2, <1>3, <1>4, <1>5 DEF DecodeInv, SampleInv

LEMMA DecodeSteps == DecodeInv /\ DecodeNext => DecodeInv'
  BY StartBatchKeeps, EmitKeeps, NextFrameKeeps, FinishSampleKeeps, BatchOverKeeps
  DEF DecodeNext

LEMMA DecodeStutters == DecodeInv /\ UNCHANGED decodeVars => DecodeInv'
  <1> SUFFICES ASSUME DecodeInv, UNCHANGED decodeVars PROVE DecodeInv'
    OBVIOUS
  <1>1. /\ frames' = frames /\ data' = data /\ frame' = frame /\ emitted' = emitted
        /\ context' = context /\ tokens' = tokens /\ results' = results
    BY DEF decodeVars
  <1>2. DecodeTyped' /\ Batch'
    BY <1>1 DEF DecodeInv, DecodeTyped, Batch
  <1>3. SampleInv'
    BY <1>1 DEF DecodeInv, SampleInv, Decoding, Sample, Encodeds, OwnFrames, Ordered, ContextIsSuffix
  <1>4. /\ Len(results') <= Len(frames')
        /\ \A b \in DOMAIN results' : OwnFrames(b, results[b])' /\ Tiled(b, results[b])'
    <2>1. \A b : OwnFrames(b, results[b])' = OwnFrames(b, results[b])
      BY <1>1 DEF OwnFrames
    <2>2. \A b : Tiled(b, results[b])' = Tiled(b, results[b])
      BY <1>1 DEF Tiled, EndsWell
    <2>3. QED
      BY <1>1, <2>1, <2>2 DEF DecodeInv
  <1>5. QED
    BY <1>2, <1>3, <1>4 DEF DecodeInv

LEMMA DecodeSound == DecodeInv => BatchIsSingly
  BY DEF DecodeInv, SampleInv, BatchIsSingly

-----------------------------------------------------------------------------
(* The parts together. *)

LEMMA LibraryStarts == Init => IInv
  BY FfiStarts, VadStarts, DecodeStarts DEF Init, IInv

LEMMA LibrarySteps == IInv /\ [Next]_vars => IInv'
  <1> SUFFICES ASSUME IInv, [Next]_vars PROVE IInv'
    OBVIOUS
  <1>1. /\ FfiNext \/ UNCHANGED ffiVars
        /\ VadNext \/ UNCHANGED vadVars
        /\ DecodeNext \/ UNCHANGED decodeVars
    BY DEF Next, vars
  <1>2. FfiInv'
    BY <1>1, FfiSteps, FfiStutters DEF IInv
  <1>3. VadInv'
    BY <1>1, VadSteps, VadStutters DEF IInv
  <1>4. DecodeInv'
    BY <1>1, DecodeSteps, DecodeStutters DEF IInv
  <1>5. QED
    BY <1>2, <1>3, <1>4 DEF IInv

THEOREM LibraryInvariant == Spec => []IInv
  BY LibraryStarts, LibrarySteps, PTL DEF Spec

(***************************************************************************)
(* In every reachable state a handle that the host was given and has not   *)
(* freed is valid, every object is dropped once, and an engine's triplets  *)
(* are in its pool or with the calls that run (ffi.rs:86-213, 384-442).    *)
(***************************************************************************)
THEOREM HandlesAreSound == Spec => []HandlesSound
  <1>1. IInv => HandlesSound
    <2> SUFFICES ASSUME IInv PROVE HandlesSound
      OBVIOUS
    <2>1. HandlesStayValid /\ DroppedOnce /\ TripletsAccounted
      BY FfiSound DEF IInv
    <2>2. FfiTyped
      BY DEF IInv, FfiInv
    <2>3. ASSUME NEW o \in Objects
          PROVE  /\ obj[o].kind \in Kinds /\ obj[o].state \in {"unborn", "allocated", "dropped"}
                 /\ obj[o].idle \in 0 .. obj[o].size
      <3>1. obj[o] \in Object
        BY <2>2 DEF FfiTyped
      <3>2. obj[o].idle \in Nat /\ obj[o].size \in Nat /\ obj[o].kind \in Kinds
            /\ obj[o].state \in {"unborn", "allocated", "dropped"}
        BY <3>1 DEF Object
      <3>3. obj[o].idle + Cardinality(With(o)) = obj[o].size /\ Cardinality(With(o)) \in Nat
        BY <2>1, <2>2, WithFinite DEF TripletsAccounted
      <3>4. QED
        BY <3>2, <3>3
    <2>4. TypeOK
      BY <2>2, <2>3 DEF TypeOK, FfiTyped, IInv, VadInv, VadTyped, DecodeInv, DecodeTyped
    <2>5. QED
      BY <2>1, <2>4 DEF HandlesSound
  <1>2. QED
    BY <1>1, LibraryInvariant, PTL

(***************************************************************************)
(* A call that finds the pool empty does so while as many others as it has *)
(* triplets transcribe with one of the same engine (ffi.rs:222-251).       *)
(***************************************************************************)
THEOREM TurnedAwayOnlyWhenBusy == Spec => EmptyOnlyWhenBusy
  <1>1. IInv /\ [Next]_vars =>
          [\A t \in Threads : TurnedAway(t) =>
             Cardinality(With(call[t].on)) >= obj[call[t].on].size]_vars
    <2> SUFFICES ASSUME IInv, Next, NEW t \in Threads, TurnedAway(t)
                 PROVE  Cardinality(With(call[t].on)) >= obj[call[t].on].size
      OBVIOUS
    <2>1. FfiNext \/ UNCHANGED ffiVars
      BY DEF Next
    <2>2. call'[t] # call[t]
      BY DEF TurnedAway, Calling, Nobody
    <2>3. FfiNext
      BY <2>1, <2>2 DEF ffiVars
    <2>4. QED
      BY <2>3, EmptyPoolIsBusy DEF IInv
  <1>2. QED
    BY <1>1, LibraryInvariant, PTL DEF Spec, EmptyOnlyWhenBusy

(***************************************************************************)
(* When the scan is over, the segments are the stretches of the verdicts   *)
(* that are long enough, padded and clamped to the file (vad.rs:178-236).  *)
(***************************************************************************)
THEOREM SegmentsAreTheStretches == Spec => []SegmentsMatchReference
  <1>1. IInv => SegmentsMatchReference
    BY VadSegments DEF IInv
  <1>2. QED
    BY <1>1, LibraryInvariant, PTL

(***************************************************************************)
(* When a file was transcribed, its words are those of loud windows, every *)
(* loud window outside a stretch that is too short has one, and each is    *)
(* timed by the encoded frames since the start of its piece, whatever the  *)
(* encoder's subsampling (engine.rs:278-312, decode.rs:112).               *)
(***************************************************************************)
THEOREM SpeechIsHeardInPiece == Spec => []SpeechHeardInPiece
  <1>1. IInv => SpeechHeardInPiece
    BY VadWords DEF IInv
  <1>2. QED
    BY <1>1, LibraryInvariant, PTL

(***************************************************************************)
(* A sample of a batch is decoded from its own features alone, and its     *)
(* tokens tile it, whatever the sizes of batch, samples and features       *)
(* (engine.rs:214-276, decode.rs:74-132).                                  *)
(***************************************************************************)
THEOREM BatchIsDecodedSingly == Spec => []BatchIsSingly
  <1>1. IInv => BatchIsSingly
    BY DecodeSound DEF IInv
  <1>2. QED
    BY <1>1, LibraryInvariant, PTL
=============================================================================
