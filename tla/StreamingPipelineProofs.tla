----------------------- MODULE StreamingPipelineProofs -----------------------
(***************************************************************************)
(* Proofs about the streaming pipeline and its voice detector, for any     *)
(* sizes of windows and chunks and any sequence of calls; in the end, that *)
(* each call keeps the contract its owners rely on.                        *)
(***************************************************************************)
EXTENDS PipelineCalls, SequenceTheorems, TLAPS

(***************************************************************************)
(* The inductive invariant.                                                *)
(*                                                                         *)
(* Between    where a call leaves its scratch variables, and that calls    *)
(*            that succeed leave less than a chunk to decode.              *)
(* Tiled      token i is that of frame i at the encoded frame made of it,  *)
(*            and the clock has counted as many of them as the frames are. *)
(* Stamped    time stamps never fall and stay below the clock.             *)
(* Cached     the caches have seen the audio of the tokens.                *)
(* Counted    the detector's counter is the length of the run of verdicts  *)
(*            against its state, and its state is what they say.           *)
(* Passed     the detector's buffer is the end of the audio, and what the  *)
(*            extractor has, or is about to get, are the windows in speech.*)
(***************************************************************************)
All == tokens \o fresh

Between ==
  /\ next <= Len(fed)
  /\ pc # "frames" => fresh = <<>>
  /\ pc # "vad" => speech = <<>>
  /\ pc = "vad" => hasVad
  /\ pc \in {"idle", "flush"} /\ ~failed => Len(fed) < next + ChunkFrames
  /\ pc = "panicked" => failed

TilesTo(toks, n) ==
  /\ Len(toks) = n
  /\ \A i \in 1 .. n : toks[i].unit = fed[i] /\ toks[i].at = EncodedAt(i)

InStep == clock * ChunkShift = next * EncodedFrames

Tiled == ~failed /\ ~finished => InStep /\ TilesTo(All, next)

StampedBelow(toks, time) ==
  /\ \A i \in 1 .. Len(toks) : toks[i].at < time
  /\ \A i \in 1 .. Len(toks) - 1 : toks[i].at <= toks[i + 1].at

Stamped == StampedBelow(All, clock)

Cached == ~failed => cache = Heard(All)

EndsRun(s, verdict, n) ==
  /\ n <= Len(s)
  /\ \A k \in Len(s) - n + 1 .. Len(s) : s[k] = verdict
  /\ n < Len(s) => s[Len(s) - n] # verdict

Counted ==
  IF vad.state = "silence"
  THEN EndsRun(said, "speech", vad.highs) /\ ~EndsInSpeech(said)
  ELSE EndsRun(said, "silence", vad.lows) /\ EndsInSpeech(said)

PassedWindows == {k \in 1 .. Len(said) : EndsInSpeech(SubSeq(said, 1, k))}

In(x, s) == \E i \in 1 .. Len(s) : s[i] = x

Passed ==
  hasVad =>
    /\ \A i \in 1 .. Len(buffer) : buffer[i] = heard - Len(buffer) + i
    /\ ~finished =>
         \A x : In(x, fed) \/ In(x, speech) <=> \E k \in PassedWindows : x \in WindowUnits(k)

(* The type invariant, one variable at a time, and the whole.              *)
Typed ==
  /\ pc \in {"idle", "vad", "frames", "flush", "panicked"}
  /\ auto \in BOOLEAN /\ hasVad \in BOOLEAN /\ wasSpeech \in BOOLEAN
  /\ finished \in BOOLEAN /\ failed \in BOOLEAN
  /\ vad \in [state : {"silence", "speech"}, highs : Nat, lows : Nat]
  /\ vad.highs < MinSpeech /\ vad.lows < MinSilence
  /\ buffer \in Seq(Units) /\ speech \in Seq(Units)
  /\ fed \in Seq(Units) /\ cache \in Seq(Units)
  /\ said \in Seq(Verdicts)
  /\ next \in Nat /\ clock \in Nat /\ heard \in Nat
  /\ fresh \in Seq(TokenType) /\ tokens \in Seq(TokenType)
  /\ final = Nothing \/ final \in Seq(TokenType)

DecoderInv == Typed /\ Between /\ Tiled /\ Stamped /\ Cached
IInv == DecoderInv /\ Counted /\ Passed

LEMMA TypedIsTypeOK == Typed <=> TypeOK
  BY DEF TypeOK, Typed

(* The sizes, one by one.                                                  *)
LEMMA Sizes ==
  /\ Window \in Nat \ {0} /\ ChunkFrames \in Nat \ {0} /\ ChunkShift \in Nat \ {0}
  /\ MinSpeech \in Nat \ {0} /\ MinSilence \in Nat \ {0}
  /\ ChunkShift <= ChunkFrames /\ MaxAudio \in Nat /\ MaxDecoded \in Nat
  /\ EncodedFrames \in Nat \ {0} /\ EncodedFrames <= ChunkShift
  BY SizesAssumption, BatchesAssumption

-----------------------------------------------------------------------------
(* Places among the encoded frames. *)

LEMMA Products ==
  ASSUME NEW x \in Nat, NEW y \in Nat
  PROVE  x * y \in Nat
  OBVIOUS

LEMMA QuotientFacts ==
  ASSUME NEW x \in Nat, NEW d \in Nat \ {0}
  PROVE  x \div d \in Nat /\ (x \div d) * d <= x /\ x < (x \div d) * d + d
  OBVIOUS

LEMMA Factors ==
  ASSUME NEW x \in Nat, NEW y \in Nat, NEW d \in Nat \ {0}, x * d < y * d + d
  PROVE  x <= y
  <1>1. SUFFICES ASSUME x - y - 1 \in Nat PROVE FALSE
    OBVIOUS
  <1>2. (x - y - 1) * d \in Nat
    BY <1>1, Products
  <1>3. (x - y - 1) * d = x * d - y * d - d
    OBVIOUS
  <1>4. x * d \in Nat /\ y * d \in Nat
    BY Products
  <1>5. QED
    BY <1>2, <1>3, <1>4

(* EncodedAt(i), by what it is multiplied with.                            *)
LEMMA EncodedAtBounds ==
  ASSUME NEW i \in Nat \ {0}
  PROVE  /\ EncodedAt(i) \in Nat /\ EncodedAt(i) * ChunkShift \in Nat
         /\ (i - 1) * EncodedFrames \in Nat
         /\ EncodedAt(i) * ChunkShift <= (i - 1) * EncodedFrames
         /\ (i - 1) * EncodedFrames < EncodedAt(i) * ChunkShift + ChunkShift
  <1> DEFINE x == (i - 1) * EncodedFrames
  <1>1. i - 1 \in Nat /\ EncodedFrames \in Nat /\ ChunkShift \in Nat \ {0}
    BY Sizes
  <1>2. x \in Nat
    BY <1>1, Products
  <1>3. EncodedAt(i) = x \div ChunkShift
    BY DEF EncodedAt
  <1> HIDE DEF x
  <1>4. /\ EncodedAt(i) \in Nat
        /\ EncodedAt(i) * ChunkShift <= x /\ x < EncodedAt(i) * ChunkShift + ChunkShift
    BY <1>1, <1>2, <1>3, QuotientFacts
  <1>5. EncodedAt(i) * ChunkShift \in Nat
    BY <1>1, <1>4, Products
  <1>6. QED
    BY <1>2, <1>4, <1>5 DEF x

(* Later frames are not at earlier places...                               *)
LEMMA EncodedAtGrows ==
  ASSUME NEW i \in Nat \ {0}
  PROVE  EncodedAt(i) <= EncodedAt(i + 1)
  <1>1. /\ EncodedAt(i) \in Nat /\ EncodedAt(i) * ChunkShift \in Nat
        /\ (i - 1) * EncodedFrames \in Nat
        /\ EncodedAt(i) * ChunkShift <= (i - 1) * EncodedFrames
    BY EncodedAtBounds
  <1>2. /\ EncodedAt(i + 1) \in Nat /\ EncodedAt(i + 1) * ChunkShift \in Nat
        /\ i * EncodedFrames < EncodedAt(i + 1) * ChunkShift + ChunkShift
    <2>1. i + 1 \in Nat \ {0} /\ (i + 1) - 1 = i
      OBVIOUS
    <2>2. /\ EncodedAt(i + 1) \in Nat /\ EncodedAt(i + 1) * ChunkShift \in Nat
          /\ ((i + 1) - 1) * EncodedFrames < EncodedAt(i + 1) * ChunkShift + ChunkShift
      BY <2>1, EncodedAtBounds
    <2>3. QED
      BY <2>1, <2>2
  <1>3. (i - 1) * EncodedFrames = i * EncodedFrames - EncodedFrames /\ i * EncodedFrames \in Nat
    BY Sizes, Products
  <1>4. EncodedAt(i) * ChunkShift < EncodedAt(i + 1) * ChunkShift + ChunkShift
    BY <1>1, <1>2, <1>3, Sizes
  <1>5. QED
    BY <1>1, <1>2, <1>4, Factors, Sizes

(* ...those of a chunk are within what it is encoded to...                 *)
LEMMA EncodedAtInChunk ==
  ASSUME NEW i \in 1 .. ChunkShift
  PROVE  EncodedAt(i) \in Nat /\ EncodedAt(i) + 1 <= EncodedFrames
  <1>1. i \in Nat \ {0} /\ ChunkShift - i \in Nat
    BY Sizes
  <1>2. /\ EncodedAt(i) \in Nat /\ EncodedAt(i) * ChunkShift \in Nat
        /\ EncodedAt(i) * ChunkShift <= (i - 1) * EncodedFrames
    BY <1>1, EncodedAtBounds
  <1>3. (ChunkShift - i) * EncodedFrames \in Nat /\ EncodedFrames * ChunkShift \in Nat
    BY <1>1, Sizes, Products
  <1>4. (i - 1) * EncodedFrames =
          EncodedFrames * ChunkShift - (ChunkShift - i) * EncodedFrames - EncodedFrames
    BY <1>1, Sizes
  <1>5. (EncodedAt(i) + 1) * ChunkShift = EncodedAt(i) * ChunkShift + ChunkShift
    BY <1>2, Sizes
  <1>6. (EncodedAt(i) + 1) * ChunkShift < EncodedFrames * ChunkShift + ChunkShift
    BY <1>2, <1>3, <1>4, <1>5, Sizes
  <1>7. EncodedAt(i) + 1 \in Nat
    BY <1>2
  <1>8. QED
    BY <1>2, <1>6, <1>7, Factors, Sizes

(* ...and a clock in step with the frames before is where the place of the *)
(* next ones starts from.                                                  *)
LEMMA EncodedAtInStep ==
  ASSUME NEW c \in Nat, NEW n \in Nat, c * ChunkShift = n * EncodedFrames, NEW i \in Nat \ {0}
  PROVE  EncodedAt(n + i) = c + EncodedAt(i)
  <1> DEFINE a == EncodedAt(i)
             b == EncodedAt(n + i)
             S == ChunkShift
             E == EncodedFrames
  <1>1. /\ a \in Nat /\ a * S \in Nat /\ (i - 1) * E \in Nat
        /\ a * S <= (i - 1) * E /\ (i - 1) * E < a * S + S
    BY EncodedAtBounds
  <1>2. /\ b \in Nat /\ b * S \in Nat /\ ((n + i) - 1) * E \in Nat
        /\ b * S <= ((n + i) - 1) * E /\ ((n + i) - 1) * E < b * S + S
    <2>1. n + i \in Nat \ {0}
      OBVIOUS
    <2>2. QED
      BY <2>1, EncodedAtBounds
  <1> HIDE DEF a, b
  <1>3. S \in Nat \ {0} /\ E \in Nat
    BY Sizes
  <1> HIDE DEF S, E
  <1>4. ((n + i) - 1) * E = n * E + (i - 1) * E /\ (c + a) * S = c * S + a * S
    BY <1>1, <1>3
  <1>5. c * S = n * E /\ c * S \in Nat
    BY <1>3, Products DEF S, E
  <1>6. (c + a) * S < b * S + S /\ b * S < (c + a) * S + S
    BY <1>1, <1>2, <1>3, <1>4, <1>5
  <1>7. c + a \in Nat
    BY <1>1
  <1>8. c + a <= b /\ b <= c + a
    BY <1>2, <1>3, <1>6, <1>7, Factors
  <1>9. QED
    BY <1>2, <1>7, <1>8 DEF a, b

-----------------------------------------------------------------------------
(* Tokens and what they transcribe. *)

LEMMA HeardFacts ==
  ASSUME NEW s \in Seq(TokenType)
  PROVE  /\ Heard(s) \in Seq(Units) /\ Len(Heard(s)) = Len(s)
         /\ \A i \in 1 .. Len(s) : Heard(s)[i] = s[i].unit
  <1>1. Len(s) \in Nat /\ \A i \in 1 .. Len(s) : s[i] \in TokenType
    BY LenProperties, ElementOfSeq
  <1>2. Heard(s) \in [1 .. Len(s) -> Units]
    BY <1>1 DEF Heard, TokenType
  <1>3. Heard(s) \in Seq(Units)
    BY <1>1, <1>2, SeqDef
  <1>4. Len(Heard(s)) = Len(s)
    BY <1>1, <1>2, <1>3, LenProperties
  <1>5. QED
    BY <1>3, <1>4 DEF Heard

LEMMA HeardEmpty == Heard(<<>>) = <<>>
  <1>1. <<>> \in Seq(TokenType) /\ Len(<<>>) = 0
    BY EmptySeq
  <1>2. Heard(<<>>) \in Seq(Units) /\ Len(Heard(<<>>)) = 0
    BY <1>1, HeardFacts
  <1>3. QED
    BY <1>2, EmptySeq

LEMMA HeardConcat ==
  ASSUME NEW s \in Seq(TokenType), NEW t \in Seq(TokenType)
  PROVE  Heard(s \o t) = Heard(s) \o Heard(t)
  <1>1. /\ s \o t \in Seq(TokenType) /\ Len(s \o t) = Len(s) + Len(t)
        /\ \A i \in 1 .. Len(s) + Len(t) :
             (s \o t)[i] = IF i <= Len(s) THEN s[i] ELSE t[i - Len(s)]
        /\ Len(s) \in Nat /\ Len(t) \in Nat
    BY ConcatProperties, LenProperties
  <1>2. /\ Heard(s \o t) \in Seq(Units) /\ Len(Heard(s \o t)) = Len(s) + Len(t)
        /\ \A i \in 1 .. Len(s) + Len(t) : Heard(s \o t)[i] = (s \o t)[i].unit
    BY <1>1, HeardFacts
  <1>3. /\ Heard(s) \in Seq(Units) /\ Len(Heard(s)) = Len(s)
        /\ \A i \in 1 .. Len(s) : Heard(s)[i] = s[i].unit
    BY HeardFacts
  <1>4. /\ Heard(t) \in Seq(Units) /\ Len(Heard(t)) = Len(t)
        /\ \A i \in 1 .. Len(t) : Heard(t)[i] = t[i].unit
    BY HeardFacts
  <1>5. /\ Heard(s) \o Heard(t) \in Seq(Units)
        /\ Len(Heard(s) \o Heard(t)) = Len(s) + Len(t)
        /\ \A i \in 1 .. Len(s) + Len(t) :
             (Heard(s) \o Heard(t))[i] = IF i <= Len(s) THEN Heard(s)[i] ELSE Heard(t)[i - Len(s)]
    <2> DEFINE a == Heard(s)
               b == Heard(t)
    <2>1. a \in Seq(Units) /\ b \in Seq(Units) /\ Len(a) = Len(s) /\ Len(b) = Len(t)
      BY <1>3, <1>4
    <2> HIDE DEF a, b
    <2>2. /\ a \o b \in Seq(Units) /\ Len(a \o b) = Len(a) + Len(b)
          /\ \A i \in 1 .. Len(a) + Len(b) :
               (a \o b)[i] = IF i <= Len(a) THEN a[i] ELSE b[i - Len(a)]
      BY <2>1, ConcatProperties
    <2>3. QED
      BY <2>1, <2>2 DEF a, b
  <1>6. ASSUME NEW i \in 1 .. Len(s) + Len(t)
        PROVE  Heard(s \o t)[i] = (Heard(s) \o Heard(t))[i]
    <2>1. CASE i <= Len(s)
      BY <1>1, <1>2, <1>3, <1>5, <2>1
    <2>2. CASE ~(i <= Len(s))
      <3>1. i - Len(s) \in 1 .. Len(t)
        BY <1>1, <2>2
      <3>2. QED
        BY <1>1, <1>2, <1>4, <1>5, <2>2, <3>1
    <2>3. QED
      BY <2>1, <2>2
  <1>7. QED
    BY <1>2, <1>5, <1>6, SeqEqual

(* What a chunk emits: a token for each frame it advances over.            *)
LEMMA EmittedFacts ==
  ASSUME Typed, next < Len(fed)
  PROVE  LET n == Least(ChunkShift, Len(fed) - next) IN
         /\ Emitted \in Seq(TokenType) /\ Len(Emitted) = n
         /\ n \in 1 .. ChunkShift /\ n <= Len(fed) - next
         /\ \A i \in 1 .. n : Emitted[i].unit = fed[next + i] /\ Emitted[i].at = clock + EncodedAt(i)
  <1> DEFINE n == Least(ChunkShift, Len(fed) - next)
  <1>1. /\ Len(fed) \in Nat /\ next \in Nat /\ clock \in Nat
        /\ \A i \in 1 .. Len(fed) : fed[i] \in Units
    BY LenProperties, ElementOfSeq DEF Typed
  <1>2. n \in 1 .. ChunkShift /\ n <= Len(fed) - next /\ n \in Nat
    BY <1>1, Sizes DEF Least
  <1> HIDE DEF n
  <1>3. Emitted = [i \in 1 .. n |-> [unit |-> fed[next + i], at |-> clock + EncodedAt(i)]]
    BY DEF Emitted, FramesReady, n
  <1>4. \A i \in 1 .. n : fed[next + i] \in Units /\ clock + EncodedAt(i) \in Nat
    <2>1. ASSUME NEW i \in 1 .. n PROVE fed[next + i] \in Units /\ clock + EncodedAt(i) \in Nat
      <3>1. i \in 1 .. ChunkShift /\ next + i \in 1 .. Len(fed)
        BY <1>1, <1>2, Sizes
      <3>2. EncodedAt(i) \in Nat
        BY <3>1, EncodedAtInChunk
      <3>3. QED
        BY <1>1, <3>1, <3>2
    <2>2. QED
      BY <2>1
  <1>5. Emitted \in [1 .. n -> TokenType]
    BY <1>3, <1>4 DEF TokenType
  <1>6. Emitted \in Seq(TokenType)
    BY <1>2, <1>5, SeqDef
  <1>7. Len(Emitted) = n
    BY <1>2, <1>5, <1>6, LenProperties
  <1>8. QED
    BY <1>2, <1>3, <1>6, <1>7 DEF n

(* Joining tokens is associative.                                         *)
LEMMA TokensAppended ==
  ASSUME NEW s \in Seq(TokenType), NEW t \in Seq(TokenType), NEW u \in Seq(TokenType)
  PROVE  (s \o t) \o u = s \o (t \o u)
  BY ConcatAssociative

(* A chunk decoded after the tokens so far.                                *)
LEMMA DecodedAfter ==
  ASSUME Typed, next < Len(fed), NEW toks \in Seq(TokenType), StampedBelow(toks, clock)
  PROVE  /\ toks \o Emitted \in Seq(TokenType)
         /\ StampedBelow(toks \o Emitted, clock + EncodedFrames)
         /\ Heard(toks \o Emitted) = Heard(toks) \o Heard(Emitted)
         /\ TilesTo(toks, next) /\ InStep =>
              TilesTo(toks \o Emitted, next + Least(ChunkShift, Len(fed) - next))
  <1> DEFINE n == Least(ChunkShift, Len(fed) - next)
             all == toks \o Emitted
  <1>1. /\ Emitted \in Seq(TokenType) /\ Len(Emitted) = n
        /\ n \in 1 .. ChunkShift /\ n <= Len(fed) - next
        /\ \A i \in 1 .. n : Emitted[i].unit = fed[next + i] /\ Emitted[i].at = clock + EncodedAt(i)
    BY EmittedFacts
  <1>2. /\ next \in Nat /\ clock \in Nat /\ Len(fed) \in Nat /\ Len(toks) \in Nat /\ n \in Nat
        /\ ChunkShift \in Nat \ {0} /\ EncodedFrames \in Nat
        /\ \A i \in 1 .. Len(toks) : toks[i].at \in Nat
    <2>1. Len(toks) \in Nat /\ \A i \in 1 .. Len(toks) : toks[i] \in TokenType
      BY LenProperties, ElementOfSeq
    <2>2. Len(fed) \in Nat
      BY LenProperties DEF Typed
    <2>3. n \in Nat
      BY <1>1, Sizes
    <2>4. \A i \in 1 .. Len(toks) : toks[i].at \in Nat
      BY <2>1 DEF TokenType
    <2>5. QED
      BY <2>1, <2>2, <2>3, <2>4, Sizes DEF Typed
  <1>3. /\ all \in Seq(TokenType) /\ Len(all) = Len(toks) + n
        /\ \A i \in 1 .. Len(toks) + n :
             all[i] = IF i <= Len(toks) THEN toks[i] ELSE Emitted[i - Len(toks)]
    BY <1>1, ConcatProperties
  <1> HIDE DEF n, all
  <1>4. \A i \in 1 .. Len(toks) : all[i] = toks[i]
    BY <1>2, <1>3
  <1>5. \A i \in Len(toks) + 1 .. Len(toks) + n :
          /\ all[i].unit = fed[next + (i - Len(toks))]
          /\ all[i].at = clock + EncodedAt(i - Len(toks))
    <2> SUFFICES ASSUME NEW i \in Len(toks) + 1 .. Len(toks) + n
                 PROVE  /\ all[i].unit = fed[next + (i - Len(toks))]
                        /\ all[i].at = clock + EncodedAt(i - Len(toks))
      OBVIOUS
    <2>1. i - Len(toks) \in 1 .. n /\ i \in 1 .. Len(toks) + n /\ ~(i <= Len(toks))
      BY <1>2
    <2>2. all[i] = Emitted[i - Len(toks)]
      BY <1>3, <2>1
    <2>3. QED
      BY <1>1, <2>1, <2>2
  <1>6. StampedBelow(all, clock + EncodedFrames)
    <2>1. ASSUME NEW i \in 1 .. Len(all) PROVE all[i].at < clock + EncodedFrames
      <3>1. CASE i <= Len(toks)
        <4>1. i \in 1 .. Len(toks) /\ all[i].at = toks[i].at /\ toks[i].at < clock
          BY <1>2, <1>4, <3>1 DEF StampedBelow
        <4>2. toks[i].at \in Nat /\ clock \in Nat /\ EncodedFrames \in Nat
          BY <1>2, <4>1
        <4>3. \A x, y, z \in Nat : x < y => x < y + z
          OBVIOUS
        <4>4. QED
          BY <4>1, <4>2, <4>3
      <3>2. CASE ~(i <= Len(toks))
        <4>1. i \in Len(toks) + 1 .. Len(toks) + n
          BY <1>2, <1>3, <3>2
        <4>2. all[i].at = clock + EncodedAt(i - Len(toks))
          BY <1>5, <4>1
        <4>3. i - Len(toks) \in 1 .. ChunkShift
          BY <1>1, <1>2, <4>1
        <4>4. /\ EncodedAt(i - Len(toks)) \in Nat
              /\ EncodedAt(i - Len(toks)) + 1 <= EncodedFrames
          BY <4>3, EncodedAtInChunk
        <4>5. QED
          BY <1>2, <4>2, <4>4
      <3>3. QED
        BY <3>1, <3>2
    <2>2. ASSUME NEW i \in 1 .. Len(all) - 1 PROVE all[i].at <= all[i + 1].at
      <3>1. CASE i + 1 <= Len(toks)
        <4>1. i \in 1 .. Len(toks) - 1 /\ i \in 1 .. Len(toks) /\ i + 1 \in 1 .. Len(toks)
          BY <1>2, <1>3, <3>1
        <4>2. toks[i].at <= toks[i + 1].at
          BY <4>1 DEF StampedBelow
        <4>3. QED
          BY <1>4, <4>1, <4>2
      <3>2. CASE i = Len(toks)
        <4>1. i \in 1 .. Len(toks) /\ i + 1 \in Len(toks) + 1 .. Len(toks) + n
          BY <1>1, <1>2, <3>2
        <4>2. all[i].at < clock /\ all[i].at \in Nat
          BY <1>2, <1>4, <4>1 DEF StampedBelow
        <4>3. all[i + 1].at = clock + EncodedAt((i + 1) - Len(toks))
          BY <1>5, <4>1
        <4>4. EncodedAt((i + 1) - Len(toks)) \in Nat
          <5>1. (i + 1) - Len(toks) \in 1 .. ChunkShift
            BY <1>2, <3>2
          <5>2. QED
            BY <5>1, EncodedAtInChunk
        <4>5. QED
          BY <1>2, <4>2, <4>3, <4>4
      <3>3. CASE i > Len(toks)
        <4>1. /\ i \in Len(toks) + 1 .. Len(toks) + n
              /\ i + 1 \in Len(toks) + 1 .. Len(toks) + n
          BY <1>2, <1>3, <3>3
        <4>2. /\ all[i].at = clock + EncodedAt(i - Len(toks))
              /\ all[i + 1].at = clock + EncodedAt((i + 1) - Len(toks))
          BY <1>5, <4>1
        <4> DEFINE k == i - Len(toks)
        <4>3. k \in Nat \ {0} /\ (i + 1) - Len(toks) = k + 1
          BY <1>2, <1>3, <3>3
        <4>4. EncodedAt(k) \in Nat /\ EncodedAt(k + 1) \in Nat /\ EncodedAt(k) <= EncodedAt(k + 1)
          <5>1. k + 1 \in Nat \ {0}
            BY <4>3
          <5> HIDE DEF k
          <5>2. QED
            BY <4>3, <5>1, EncodedAtBounds, EncodedAtGrows
        <4>5. QED
          BY <1>2, <4>2, <4>3, <4>4
      <3>4. QED
        BY <1>2, <1>3, <3>1, <3>2, <3>3
    <2>3. QED
      BY <2>1, <2>2 DEF StampedBelow
  <1>7. ASSUME TilesTo(toks, next), InStep PROVE TilesTo(all, next + n)
    <2>1. Len(toks) = next
      BY <1>7 DEF TilesTo
    <2>2. ASSUME NEW i \in 1 .. next + n PROVE all[i].unit = fed[i] /\ all[i].at = EncodedAt(i)
      <3>1. CASE i <= Len(toks)
        BY <1>2, <1>4, <1>7, <2>1, <3>1 DEF TilesTo
      <3>2. CASE ~(i <= Len(toks))
        <4>1. i \in Len(toks) + 1 .. Len(toks) + n
          BY <1>2, <2>1, <3>2
        <4> DEFINE k == i - Len(toks)
        <4>2. next + k = i /\ k \in Nat \ {0}
          BY <1>2, <2>1, <4>1
        <4>3. EncodedAt(next + k) = clock + EncodedAt(k)
          BY <1>2, <1>7, <4>2, EncodedAtInStep DEF InStep
        <4>4. QED
          BY <1>5, <4>1, <4>2, <4>3
      <3>3. QED
        BY <3>1, <3>2
    <2>3. QED
      BY <1>3, <2>1, <2>2 DEF TilesTo
  <1>8. Heard(all) = Heard(toks) \o Heard(Emitted)
    BY <1>1, HeardConcat DEF all
  <1>9. QED
    BY <1>3, <1>6, <1>7, <1>8 DEF n, all

-----------------------------------------------------------------------------
(* Steps as the decoder sees them. *)

LEMMA AllTyped ==
  ASSUME Typed
  PROVE  All \in Seq(TokenType) /\ Len(All) \in Nat /\ Len(fed) \in Nat /\ next \in Nat
  BY ConcatProperties, LenProperties DEF Typed, All

(* More frames, or none, and nothing decoded.                              *)
Grown ==
  /\ UNCHANGED <<next, cache, clock, failed, finished, All>>
  /\ Len(fed) <= Len(fed') /\ \A i \in 1 .. Len(fed) : fed'[i] = fed[i]

LEMMA GrownKeeps ==
  ASSUME DecoderInv, Grown, Typed'
  PROVE  Tiled' /\ Stamped' /\ Cached' /\ next' <= Len(fed')
  <1>1. /\ next' = next /\ cache' = cache /\ clock' = clock /\ failed' = failed
        /\ finished' = finished /\ All' = All
        /\ Len(fed) <= Len(fed') /\ \A i \in 1 .. Len(fed) : fed'[i] = fed[i]
    BY DEF Grown
  <1>2. next \in Nat /\ Len(fed) \in Nat /\ Len(fed') \in Nat /\ next <= Len(fed)
    BY LenProperties DEF DecoderInv, Typed, Between
  <1>3. \A i \in 1 .. next : fed'[i] = fed[i]
    BY <1>1, <1>2
  <1>4. Tiled'
    BY <1>1, <1>3 DEF DecoderInv, Tiled, TilesTo, InStep
  <1>5. Stamped' /\ Cached'
    BY <1>1 DEF DecoderInv, Stamped, Cached
  <1>6. QED
    BY <1>1, <1>2, <1>4, <1>5

LEMMA FeedGrows ==
  ASSUME Typed, NEW samples \in Seq(Units), Feed(samples)
  PROVE  /\ finished' = finished /\ fed' \in Seq(Units)
         /\ Len(fed) <= Len(fed') /\ \A i \in 1 .. Len(fed) : fed'[i] = fed[i]
  <1>1. fed \in Seq(Units) /\ Len(fed) \in Nat /\ Len(samples) \in Nat
    BY LenProperties DEF Typed
  <1>2. CASE fed' = fed
    BY <1>1, <1>2 DEF Feed
  <1>3. CASE fed' = fed \o samples
    BY <1>1, <1>3, ConcatProperties DEF Feed
  <1>4. QED
    BY <1>2, <1>3 DEF Feed

LEMMA NothingInStep ==
  ASSUME clock = 0, next = 0
  PROVE  InStep
  BY Sizes DEF InStep

LEMMA NoTokens ==
  ASSUME tokens = <<>>, fresh = <<>>
  PROVE  All = <<>> /\ Len(All) = 0 /\ StampedBelow(All, clock) /\ TilesTo(All, 0) /\ Heard(All) = <<>>
  <1>1. <<>> \in Seq(TokenType) /\ <<>> \o <<>> = <<>> /\ Len(<<>>) = 0
    BY EmptySeq, ConcatEmptySeq
  <1>2. All = <<>> /\ Len(All) = 0
    BY <1>1 DEF All
  <1>3. QED
    BY <1>2, HeardEmpty DEF StampedBelow, TilesTo

LEMMA InitDecoder == Init => DecoderInv
  <1> SUFFICES ASSUME Init PROVE DecoderInv
    OBVIOUS
  <1>1. /\ pc = "idle" /\ auto = FALSE /\ hasVad \in BOOLEAN /\ vad = QuietVad
        /\ buffer = <<>> /\ said = <<>> /\ speech = <<>> /\ wasSpeech = FALSE
        /\ fed = <<>> /\ finished = FALSE /\ next = 0 /\ cache = <<>> /\ clock = 0
        /\ failed = FALSE /\ fresh = <<>> /\ tokens = <<>> /\ final = Nothing /\ heard = 0
    BY DEF Init
  <1>2. /\ vad \in [state : {"silence", "speech"}, highs : Nat, lows : Nat]
        /\ vad.highs < MinSpeech /\ vad.lows < MinSilence
    BY <1>1, Sizes DEF QuietVad
  <1>3. <<>> \in Seq(Units) /\ <<>> \in Seq(Verdicts) /\ <<>> \in Seq(TokenType) /\ Len(<<>>) = 0
    BY EmptySeq
  <1>4. Typed
    BY <1>1, <1>2, <1>3 DEF Typed
  <1>5. Between
    BY <1>1, <1>3, Sizes DEF Between
  <1>6. Tiled /\ Stamped /\ Cached
    <2>1. InStep
      BY <1>1, NothingInStep
    <2>2. QED
      BY <1>1, <2>1, NoTokens DEF Tiled, Stamped, Cached
  <1>7. QED
    BY <1>4, <1>5, <1>6 DEF DecoderInv

(* Everything starts afresh, the rest of the call's state aside.           *)
LEMMA RestartDecoder ==
  ASSUME DecoderInv, Restart, pc' = "idle", fresh' = <<>>, speech' = <<>>,
         auto' \in BOOLEAN, hasVad' \in BOOLEAN, wasSpeech' \in BOOLEAN, heard' \in Nat,
         final' = Nothing \/ final' \in Seq(TokenType)
  PROVE  DecoderInv'
  <1>1. /\ cache' = <<>> /\ clock' = 0 /\ next' = 0 /\ tokens' = <<>> /\ fed' = <<>>
        /\ finished' = FALSE /\ vad' = QuietVad /\ buffer' = <<>> /\ said' = <<>>
        /\ failed' = FALSE
    BY DEF Restart
  <1>2. /\ vad' \in [state : {"silence", "speech"}, highs : Nat, lows : Nat]
        /\ vad'.highs < MinSpeech /\ vad'.lows < MinSilence
    BY <1>1, Sizes DEF QuietVad
  <1>3. <<>> \in Seq(Units) /\ <<>> \in Seq(Verdicts) /\ <<>> \in Seq(TokenType) /\ Len(<<>>) = 0
    BY EmptySeq
  <1>4. Typed'
    BY <1>1, <1>2, <1>3 DEF Typed
  <1>5. Between'
    BY <1>1, <1>3, Sizes DEF Between
  <1>6. Tiled' /\ Stamped' /\ Cached'
    <2>1. All' = <<>> \o <<>>
      BY <1>1 DEF All
    <2>2. All' = <<>> /\ Len(All') = 0
      BY <1>3, <2>1, ConcatEmptySeq
    <2>3. Heard(All') = <<>>
      BY <2>2, HeardEmpty
    <2>4. InStep'
      BY <1>1, Sizes DEF InStep
    <2>5. QED
      BY <1>1, <2>2, <2>3, <2>4 DEF Tiled, TilesTo, Stamped, StampedBelow, Cached
  <1>7. QED
    BY <1>4, <1>5, <1>6 DEF DecoderInv

-----------------------------------------------------------------------------
(* The decoder's half of the invariant, call by call. *)

(* The verdict on a window keeps the counters below their limits.          *)
LEMMA VadTyped ==
  ASSUME Typed, NEW verdict \in Verdicts,
         vad' = IF vad.state = "silence" THEN InSilence(verdict) ELSE InSpeech(verdict)
  PROVE  /\ vad' \in [state : {"silence", "speech"}, highs : Nat, lows : Nat]
         /\ vad'.highs < MinSpeech /\ vad'.lows < MinSilence
  <1>1. /\ vad \in [state : {"silence", "speech"}, highs : Nat, lows : Nat]
        /\ vad.highs < MinSpeech /\ vad.lows < MinSilence
    BY DEF Typed
  <1>2. CASE vad.state = "silence"
    BY <1>1, <1>2, Sizes DEF InSilence
  <1>3. CASE vad.state # "silence"
    BY <1>1, <1>3, Sizes DEF InSpeech, QuietVad
  <1>4. QED
    BY <1>2, <1>3

LEMMA VadWindowDecoder ==
  ASSUME DecoderInv, NEW verdict \in Verdicts, VadWindow(verdict)
  PROVE  DecoderInv'
  <1>1. Typed
    BY DEF DecoderInv
  <1>2. /\ pc = "vad" /\ Len(buffer) >= Window
        /\ vad' = IF vad.state = "silence" THEN InSilence(verdict) ELSE InSpeech(verdict)
        /\ said' = Append(said, verdict)
        /\ buffer' = SubSeq(buffer, Window + 1, Len(buffer))
        /\ speech' = speech \/ speech' = speech \o SubSeq(buffer, 1, Window)
        /\ UNCHANGED <<pc, auto, hasVad, wasSpeech, fed, finished, next, cache, clock, failed,
                       fresh, tokens, final, heard>>
    BY DEF VadWindow, extractor, decoding
  <1>3. buffer \in Seq(Units) /\ Len(buffer) \in Nat /\ \A i \in 1 .. Len(buffer) : buffer[i] \in Units
    BY <1>1, LenProperties, ElementOfSeq DEF Typed
  <1>4. buffer' \in Seq(Units)
    BY <1>2, <1>3, Sizes, SubSeqProperties
  <1>5. SubSeq(buffer, 1, Window) \in Seq(Units)
    BY <1>2, <1>3, Sizes, SubSeqProperties
  <1>6. speech' \in Seq(Units)
    <2>1. speech \in Seq(Units)
      BY <1>1 DEF Typed
    <2>2. speech \o SubSeq(buffer, 1, Window) \in Seq(Units)
      BY <1>5, <2>1, ConcatProperties
    <2>3. QED
      BY <1>2, <2>1, <2>2
  <1>7. said' \in Seq(Verdicts)
    BY <1>1, <1>2, AppendProperties DEF Typed
  <1>8. Typed'
    BY <1>1, <1>2, <1>4, <1>6, <1>7, VadTyped DEF Typed
  <1>9. Grown
    BY <1>1, <1>2, AllTyped DEF Grown, All
  <1>10. Between'
    BY <1>2 DEF DecoderInv, Between
  <1>11. QED
    BY <1>8, <1>9, <1>10, GrownKeeps DEF DecoderInv

LEMMA VadDoneDecoder ==
  ASSUME DecoderInv, VadDone
  PROVE  DecoderInv'
  <1>1. Typed
    BY DEF DecoderInv
  <1>2. /\ pc = "vad" /\ pc' = "frames" /\ speech' = <<>>
        /\ UNCHANGED <<auto, hasVad, vad, buffer, said, wasSpeech, next, cache, clock, failed,
                       fresh, tokens, final, heard>>
    BY DEF VadDone, detector, decoding
  <1>3. /\ finished' = finished /\ fed' \in Seq(Units)
        /\ Len(fed) <= Len(fed') /\ \A i \in 1 .. Len(fed) : fed'[i] = fed[i]
    <2>1. CASE Feed(speech)
      BY <1>1, <2>1, FeedGrows DEF Typed
    <2>2. CASE UNCHANGED extractor
      BY <1>1, <2>2, LenProperties DEF Typed, extractor
    <2>3. QED
      BY <2>1, <2>2 DEF VadDone
  <1>4. Typed'
    BY <1>1, <1>2, <1>3, EmptySeq DEF Typed
  <1>5. Grown
    BY <1>2, <1>3 DEF Grown, All
  <1>6. next' <= Len(fed') /\ Tiled' /\ Stamped' /\ Cached'
    BY <1>4, <1>5, GrownKeeps
  <1>7. Between'
    BY <1>2, <1>6 DEF DecoderInv, Between
  <1>8. QED
    BY <1>4, <1>6, <1>7 DEF DecoderInv

LEMMA AcceptAudioDecoder ==
  ASSUME DecoderInv, NEW n \in Batches, AcceptAudio(n)
  PROVE  DecoderInv'
  <1> DEFINE samples == [i \in 1 .. n |-> heard + i]
  <1>1. Typed
    BY DEF DecoderInv
  <1>2. n \in Nat /\ heard \in Nat /\ heard + n <= MaxAudio /\ MaxAudio \in Nat
    BY <1>1, BatchesAssumption DEF AcceptAudio, Typed
  <1>3. samples \in Seq(Units)
    <2>1. \A i \in 1 .. n : heard + i \in 1 .. MaxAudio
      BY <1>2
    <2>2. samples \in [1 .. n -> Units]
      BY <2>1 DEF Units
    <2>3. QED
      BY <1>2, <2>2, SeqDef
  <1> HIDE DEF samples
  <1>4. /\ pc = "idle" /\ heard' = heard + n /\ auto' = FALSE
        /\ IF hasVad
           THEN /\ pc' = "vad"
                /\ wasSpeech' = (vad.state = "speech")
                /\ buffer' = buffer \o samples
                /\ UNCHANGED extractor
           ELSE /\ pc' = "frames" /\ Feed(samples) /\ UNCHANGED <<wasSpeech, buffer>>
        /\ UNCHANGED <<hasVad, vad, said, speech, next, cache, clock, failed, fresh, tokens, final>>
    BY DEF AcceptAudio, decoding, samples
  <1>5. /\ finished' = finished /\ fed' \in Seq(Units)
        /\ Len(fed) <= Len(fed') /\ \A i \in 1 .. Len(fed) : fed'[i] = fed[i]
    <2>1. CASE hasVad
      BY <1>1, <1>4, <2>1, LenProperties DEF Typed, extractor
    <2>2. CASE ~hasVad
      BY <1>1, <1>3, <1>4, <2>2, FeedGrows
    <2>3. QED
      BY <2>1, <2>2
  <1>6. /\ buffer' \in Seq(Units) /\ wasSpeech' \in BOOLEAN
        /\ pc' \in {"vad", "frames"} /\ (pc' = "vad" => hasVad)
    <2>1. CASE hasVad
      <3>1. pc' = "vad" /\ buffer' = buffer \o samples /\ wasSpeech' = (vad.state = "speech")
        BY <1>4, <2>1
      <3>2. buffer \o samples \in Seq(Units)
        BY <1>1, <1>3, ConcatProperties DEF Typed
      <3>3. wasSpeech' \in BOOLEAN
        BY <3>1
      <3>4. QED
        BY <2>1, <3>1, <3>2, <3>3
    <2>2. CASE ~hasVad
      BY <1>1, <1>4, <2>2 DEF Typed
    <2>3. QED
      BY <2>1, <2>2
  <1>7. Typed'
    <2>1. /\ heard' \in Nat
          /\ auto' \in BOOLEAN
          /\ finished' \in BOOLEAN
      <3>1. heard' = heard + n /\ auto' = FALSE
        BY <1>4
      <3>2. finished' \in BOOLEAN
        BY <1>1, <1>5 DEF Typed
      <3>3. heard' \in Nat
        BY <1>2, <3>1
      <3>4. auto' \in BOOLEAN
        BY <3>1
      <3>5. QED
        BY <3>2, <3>3, <3>4
    <2>2. /\ hasVad' = hasVad /\ vad' = vad /\ said' = said /\ speech' = speech /\ next' = next
          /\ cache' = cache /\ clock' = clock /\ failed' = failed /\ fresh' = fresh
          /\ tokens' = tokens /\ final' = final
      BY <1>4
    <2>3. QED
      BY <1>1, <1>5, <1>6, <2>1, <2>2 DEF Typed
  <1>8. Grown
    BY <1>4, <1>5 DEF Grown, All
  <1>9. next' <= Len(fed') /\ Tiled' /\ Stamped' /\ Cached'
    BY <1>7, <1>8, GrownKeeps
  <1>10. fresh' = <<>> /\ speech' = <<>>
    BY <1>4 DEF DecoderInv, Between
  <1>11. Between'
    BY <1>4, <1>6, <1>9, <1>10 DEF DecoderInv, Between
  <1>12. QED
    BY <1>7, <1>9, <1>11 DEF DecoderInv

LEMMA DecodeReadyDecoder ==
  ASSUME DecoderInv, DecodeReady
  PROVE  DecoderInv'
  <1>1. Typed
    BY DEF DecoderInv
  <1>2. /\ pc = "frames" /\ Len(fed) >= next + ChunkFrames /\ next' = next + ChunkShift
        /\ UNCHANGED <<auto, hasVad, vad, buffer, said, speech, wasSpeech, fed, finished, tokens,
                       final, heard>>
    BY DEF DecodeReady, FramesReady, detector, extractor
  <1>3. next \in Nat /\ Len(fed) \in Nat /\ clock \in Nat /\ All \in Seq(TokenType)
    BY <1>1, AllTyped DEF Typed
  <1>4. next' \in Nat /\ next < Len(fed) /\ next' <= Len(fed)
    BY <1>2, <1>3, Sizes
  <1>5. /\ Emitted \in Seq(TokenType) /\ Least(ChunkShift, Len(fed) - next) = ChunkShift
    BY <1>1, <1>2, <1>3, <1>4, Sizes, EmittedFacts DEF Least
  <1>6. /\ Heard(Emitted) \in Seq(Units) /\ cache \in Seq(Units)
        /\ cache \o Heard(Emitted) \in Seq(Units)
    BY <1>1, <1>5, HeardFacts, ConcatProperties DEF Typed
  <1>7. CASE ChunkDecoded /\ fresh' = fresh \o Emitted /\ UNCHANGED pc
    <2>1. /\ cache' = cache \o Heard(Emitted) /\ clock' = clock + EncodedFrames
          /\ failed' = failed /\ pc' = pc /\ fresh' = fresh \o Emitted
      BY <1>7 DEF ChunkDecoded
    <2>2. fresh' \in Seq(TokenType)
      BY <1>1, <1>5, <2>1, ConcatProperties DEF Typed
    <2>3. clock' \in Nat
      BY <1>3, <2>1, Sizes
    <2>4. Typed'
      BY <1>1, <1>2, <1>4, <1>6, <2>1, <2>2, <2>3 DEF Typed
    <2>5. Between'
      BY <1>2, <1>4, <2>1 DEF DecoderInv, Between
    <2>6. All' = All \o Emitted
      <3>1. tokens \in Seq(TokenType) /\ fresh \in Seq(TokenType)
        BY <1>1 DEF Typed
      <3>2. (tokens \o fresh) \o Emitted = tokens \o (fresh \o Emitted)
        BY <1>5, <3>1, TokensAppended
      <3>3. QED
        BY <1>2, <2>1, <3>2 DEF All
    <2>7. /\ StampedBelow(All \o Emitted, clock + EncodedFrames)
          /\ Heard(All \o Emitted) = Heard(All) \o Heard(Emitted)
          /\ TilesTo(All, next) /\ InStep => TilesTo(All \o Emitted, next + ChunkShift)
      BY <1>1, <1>3, <1>4, <1>5, DecodedAfter DEF DecoderInv, Stamped
    <2>8. Stamped'
      BY <2>1, <2>6, <2>7 DEF Stamped, StampedBelow
    <2>9. Cached'
      BY <2>1, <2>6, <2>7 DEF DecoderInv, Cached
    <2>10. Tiled'
      <3>1. SUFFICES ASSUME ~failed', ~finished' PROVE InStep' /\ TilesTo(All, next)'
        BY DEF Tiled
      <3>2. InStep /\ TilesTo(All, next)
        BY <1>2, <2>1, <3>1 DEF DecoderInv, Tiled
      <3>3. InStep'
        <4>1. /\ (clock + EncodedFrames) * ChunkShift = clock * ChunkShift + EncodedFrames * ChunkShift
              /\ (next + ChunkShift) * EncodedFrames = next * EncodedFrames + EncodedFrames * ChunkShift
          BY <1>3, Sizes
        <4>2. QED
          BY <1>2, <2>1, <3>2, <4>1 DEF InStep
      <3>4. TilesTo(All \o Emitted, next + ChunkShift)
        BY <2>7, <3>2
      <3>5. QED
        BY <1>2, <2>6, <3>3, <3>4 DEF TilesTo
    <2>11. QED
      BY <2>4, <2>5, <2>8, <2>9, <2>10 DEF DecoderInv
  <1>8. CASE ChunkFailed /\ fresh' = <<>> /\ pc' = "idle"
    <2>1. /\ cache' \in Seq(Units) /\ clock' = clock /\ failed' = TRUE /\ fresh' = <<>> /\ pc' = "idle"
      BY <1>6, <1>8 DEF ChunkFailed
    <2>2. <<>> \in Seq(TokenType)
      BY EmptySeq
    <2>3. Typed'
      BY <1>1, <1>2, <1>4, <2>1, <2>2 DEF Typed
    <2>4. Between'
      BY <1>2, <1>4, <2>1 DEF DecoderInv, Between
    <2>5. Tiled' /\ Cached'
      BY <2>1 DEF Tiled, Cached
    <2>6. Stamped'
      <3>1. All' = tokens
        BY <1>1, <1>2, <2>1, ConcatEmptySeq DEF All, Typed
      <3>2. /\ Len(tokens) \in Nat /\ Len(fresh) \in Nat /\ Len(All) = Len(tokens) + Len(fresh)
            /\ \A k \in 1 .. Len(tokens) + Len(fresh) : k <= Len(tokens) => All[k] = tokens[k]
        <4>1. tokens \in Seq(TokenType) /\ fresh \in Seq(TokenType)
          BY <1>1 DEF Typed
        <4>2. Len(tokens) \in Nat /\ Len(fresh) \in Nat
          BY <4>1, LenProperties
        <4>3. QED
          BY <4>1, <4>2, ConcatProperties DEF All
      <3>3. Len(tokens) <= Len(All) /\ \A k \in 1 .. Len(tokens) : All[k] = tokens[k]
        BY <3>2
      <3>4. StampedBelow(tokens, clock)
        BY <3>2, <3>3 DEF DecoderInv, Stamped, StampedBelow
      <3>5. QED
        BY <2>1, <3>1, <3>4 DEF Stamped, StampedBelow
    <2>7. QED
      BY <2>3, <2>4, <2>5, <2>6 DEF DecoderInv
  <1>9. QED
    BY <1>7, <1>8 DEF DecodeReady

LEMMA FramesDoneDecoder ==
  ASSUME DecoderInv, FramesDone
  PROVE  DecoderInv'
  <1>1. Typed
    BY DEF DecoderInv
  <1>2. /\ pc = "frames" /\ Len(fed) < next + ChunkFrames
        /\ tokens' = tokens \o fresh /\ fresh' = <<>>
        /\ UNCHANGED <<hasVad, vad, buffer, said, speech, wasSpeech, fed, finished, next, cache,
                       clock, failed, final, heard>>
    BY DEF FramesDone, FramesReady, detector, extractor, decoding
  <1>3. pc' \in {"flush", "idle"} /\ auto' \in BOOLEAN
    BY <1>1 DEF FramesDone, Typed
  <1>4. tokens' \in Seq(TokenType) /\ fresh' \in Seq(TokenType)
    BY <1>1, <1>2, AllTyped, EmptySeq DEF All
  <1>5. Typed'
    BY <1>1, <1>2, <1>3, <1>4 DEF Typed
  <1>6. All' = All
    BY <1>1, <1>2, AllTyped, ConcatEmptySeq DEF All
  <1>7. Grown
    BY <1>1, <1>2, <1>6, AllTyped DEF Grown
  <1>8. Between'
    BY <1>2, <1>3 DEF DecoderInv, Between
  <1>9. QED
    BY <1>5, <1>7, <1>8, GrownKeeps DEF DecoderInv

LEMMA OtherCallsDecoder ==
  ASSUME DecoderInv, CallFlush \/ Reset \/ TakeFinalText
  PROVE  DecoderInv'
  <1>1. Typed
    BY DEF DecoderInv
  <1>2. CASE Reset
    BY <1>1, <1>2, RestartDecoder DEF Reset, Typed, DecoderInv, Between
  <1>3. CASE CallFlush \/ TakeFinalText
    <2>1. /\ pc = "idle" /\ pc' \in {"idle", "flush"} /\ auto' \in BOOLEAN
          /\ final' = Nothing \/ final' = final
          /\ UNCHANGED <<hasVad, vad, buffer, said, speech, wasSpeech, fed, finished, next, cache,
                         clock, failed, fresh, tokens, heard>>
      BY <1>1, <1>3 DEF CallFlush, TakeFinalText, detector, extractor, decoding, Typed
    <2>2. Typed'
      BY <1>1, <2>1 DEF Typed
    <2>3. Grown
      BY <1>1, <2>1, AllTyped DEF Grown, All
    <2>4. Between'
      BY <2>1 DEF DecoderInv, Between
    <2>5. QED
      BY <2>2, <2>3, <2>4, GrownKeeps DEF DecoderInv
  <1>4. QED
    BY <1>2, <1>3

(* A flush finds less than a chunk, if nothing failed, and no new tokens.  *)
LEMMA FlushRemaining ==
  ASSUME DecoderInv, pc = "flush"
  PROVE  /\ fresh = <<>> /\ speech = <<>> /\ All = tokens
         /\ Remaining = Len(fed) - next /\ Remaining \in Nat
         /\ ~failed => Remaining < ChunkFrames
  <1>1. fresh = <<>> /\ speech = <<>> /\ next <= Len(fed)
    BY DEF DecoderInv, Between
  <1>2. next \in Nat /\ Len(fed) \in Nat /\ tokens \in Seq(TokenType)
    BY AllTyped DEF DecoderInv, Typed
  <1>3. All = tokens
    BY <1>1, <1>2, ConcatEmptySeq DEF All
  <1>4. Remaining = Len(fed) - next
    BY DEF Remaining, FramesReady
  <1>5. ~failed => Len(fed) < next + ChunkFrames
    BY DEF DecoderInv, Between
  <1>6. QED
    BY <1>1, <1>2, <1>3, <1>4, <1>5, Sizes

LEMMA FlushDecoder ==
  ASSUME DecoderInv, Flush
  PROVE  DecoderInv'
  <1>1. Typed
    BY DEF DecoderInv
  <1>2. pc = "flush" /\ UNCHANGED <<auto, hasVad, speech, wasSpeech, fresh, heard>>
    BY DEF Flush, FlushNothing, FlushTrailing, FlushFails, FlushPanics
  <1>3. /\ fresh = <<>> /\ speech = <<>> /\ All = tokens
        /\ Remaining = Len(fed) - next /\ Remaining \in Nat
        /\ ~failed => Remaining < ChunkFrames
    BY <1>2, FlushRemaining
  <1>4. next \in Nat /\ Len(fed) \in Nat /\ clock \in Nat /\ tokens \in Seq(TokenType)
    BY <1>1, AllTyped DEF Typed
  <1>5. CASE \E text \in Seq(TokenType) : auto /\ HandOver(text) /\ pc' = "idle"
    <2>1. PICK text \in Seq(TokenType) : HandOver(text)
      BY <1>5
    <2>2. final' = text /\ Restart
      BY <1>5, <2>1 DEF HandOver
    <2>3. QED
      BY <1>1, <1>2, <1>3, <1>5, <2>2, RestartDecoder DEF Typed
  <1>6. CASE ~auto /\ FlushNothing
    <2>1. /\ pc' = "idle" /\ tokens' = tokens /\ finished' = TRUE
          /\ UNCHANGED <<final, fed, next, vad, buffer, said, cache, clock, failed>>
      BY <1>6 DEF FlushNothing, HandOver, detector
    <2>2. Typed'
      BY <1>1, <1>2, <2>1 DEF Typed
    <2>3. All' = All
      BY <1>2, <2>1 DEF All
    <2>4. Stamped' /\ Cached' /\ Tiled'
      BY <2>1, <2>3 DEF DecoderInv, Stamped, Cached, Tiled
    <2>5. Between'
      BY <1>2, <2>1 DEF DecoderInv, Between
    <2>6. QED
      BY <2>2, <2>4, <2>5 DEF DecoderInv
  <1>7. CASE ~auto /\ FlushTrailing
    <2>1. /\ pc' = "idle" /\ tokens' = tokens \o Emitted /\ finished' = TRUE
          /\ cache' = cache \o Heard(Emitted) /\ clock' = clock + EncodedFrames /\ failed' = failed
          /\ UNCHANGED <<final, fed, next, vad, buffer, said>>
      BY <1>7 DEF FlushTrailing, HandOver, detector, ChunkDecoded
    <2>2. next < Len(fed)
      BY <1>3, <1>4, <1>7, Sizes DEF FlushTrailing
    <2>3. Emitted \in Seq(TokenType)
      BY <1>1, <2>2, EmittedFacts
    <2>4. cache' \in Seq(Units) /\ clock' \in Nat
      <3>1. Heard(Emitted) \in Seq(Units) /\ cache \in Seq(Units)
        BY <1>1, <2>3, HeardFacts DEF Typed
      <3>2. cache \o Heard(Emitted) \in Seq(Units)
        BY <3>1, ConcatProperties
      <3>3. QED
        BY <1>4, <2>1, <3>2, Sizes
    <2>5. /\ tokens \o Emitted \in Seq(TokenType)
          /\ StampedBelow(tokens \o Emitted, clock + EncodedFrames)
          /\ Heard(tokens \o Emitted) = Heard(tokens) \o Heard(Emitted)
      BY <1>1, <1>3, <1>4, <2>2, DecodedAfter DEF DecoderInv, Stamped
    <2>6. Typed'
      BY <1>1, <1>2, <2>1, <2>4, <2>5 DEF Typed
    <2>7. All' = tokens \o Emitted
      BY <1>2, <1>3, <2>1, <2>5, ConcatEmptySeq DEF All
    <2>8. Stamped' /\ Cached' /\ Tiled'
      BY <1>3, <2>1, <2>5, <2>7 DEF DecoderInv, Stamped, StampedBelow, Cached, Tiled
    <2>9. Between'
      BY <1>2, <2>1 DEF DecoderInv, Between
    <2>10. QED
      BY <2>6, <2>8, <2>9 DEF DecoderInv
  <1>8. CASE FlushFails
    <2>1. /\ pc' = "idle" /\ finished' = TRUE /\ failed' = TRUE /\ clock' = clock
          /\ cache' \in {cache, cache \o Heard(Emitted)}
          /\ UNCHANGED <<vad, buffer, said, fed, next, tokens, final>>
      BY <1>8 DEF FlushFails, ChunkFailed, detector
    <2>2. next < Len(fed)
      BY <1>3, <1>4, <1>8, Sizes DEF FlushFails
    <2>3. cache' \in Seq(Units)
      <3>1. Heard(Emitted) \in Seq(Units) /\ cache \in Seq(Units)
        BY <1>1, <2>2, EmittedFacts, HeardFacts DEF Typed
      <3>2. cache \o Heard(Emitted) \in Seq(Units)
        BY <3>1, ConcatProperties
      <3>3. QED
        BY <2>1, <3>1, <3>2
    <2>4. Typed'
      BY <1>1, <1>2, <2>1, <2>3 DEF Typed
    <2>5. All' = All
      BY <1>2, <2>1 DEF All
    <2>6. Stamped' /\ Cached' /\ Tiled'
      BY <2>1, <2>5 DEF DecoderInv, Stamped, Cached, Tiled
    <2>7. Between'
      BY <1>2, <2>1 DEF DecoderInv, Between
    <2>8. QED
      BY <2>4, <2>6, <2>7 DEF DecoderInv
  <1>9. CASE FlushPanics
    <2>1. /\ pc' = "panicked" /\ finished' = TRUE
          /\ UNCHANGED <<vad, buffer, said, fed, next, cache, clock, failed, tokens, final>>
      BY <1>9 DEF FlushPanics, detector, decoding
    <2>2. failed
      BY <1>3, <1>9, Sizes DEF FlushPanics
    <2>3. Typed'
      BY <1>1, <1>2, <2>1 DEF Typed
    <2>4. All' = All
      BY <1>2, <2>1 DEF All
    <2>5. Stamped' /\ Cached' /\ Tiled'
      BY <2>1, <2>4 DEF DecoderInv, Stamped, Cached, Tiled
    <2>6. Between'
      BY <1>2, <2>1, <2>2 DEF DecoderInv, Between
    <2>7. QED
      BY <2>3, <2>5, <2>6 DEF DecoderInv
  <1>10. CASE auto /\ FlushNothing
    BY <1>4, <1>5, <1>10 DEF FlushNothing
  <1>11. CASE auto /\ FlushTrailing
    <2>1. next < Len(fed)
      BY <1>3, <1>4, <1>11, Sizes DEF FlushTrailing
    <2>2. tokens \o Emitted \in Seq(TokenType)
      BY <1>1, <1>4, <2>1, EmittedFacts, ConcatProperties
    <2>3. QED
      BY <1>5, <1>11, <2>2 DEF FlushTrailing
  <1>12. QED
    BY <1>6, <1>7, <1>8, <1>9, <1>10, <1>11 DEF Flush

-----------------------------------------------------------------------------
(* Runs of verdicts, and what one more verdict makes of them. *)

LEMMA VerdictAppended ==
  ASSUME NEW s \in Seq(Verdicts), NEW v \in Verdicts
  PROVE  LET t == Append(s, v) IN
         /\ t \in Seq(Verdicts) /\ Len(s) \in Nat /\ Len(t) = Len(s) + 1
         /\ t[Len(t)] = v /\ \A i \in 1 .. Len(s) : t[i] = s[i]
  BY AppendProperties, LenProperties

LEMMA RunOfPrefix ==
  ASSUME NEW s \in Seq(Verdicts), NEW v \in Verdicts, NEW verdict,
         NEW i \in 1 .. Len(s), NEW n \in Nat
  PROVE  RunOf(verdict, Append(s, v), i, n) <=> RunOf(verdict, s, i, n)
  <1> DEFINE t == Append(s, v)
  <1>1. Len(s) \in Nat /\ \A k \in 1 .. Len(s) : t[k] = s[k]
    BY VerdictAppended
  <1> HIDE DEF t
  <1>2. ASSUME i >= n, NEW k \in i - n + 1 .. i PROVE t[k] = s[k]
    <2>1. k \in 1 .. Len(s)
      BY <1>1, <1>2
    <2>2. QED
      BY <1>1, <2>1
  <1>3. RunOf(verdict, t, i, n) <=> RunOf(verdict, s, i, n)
    BY <1>2 DEF RunOf
  <1>4. QED
    BY <1>3 DEF t

LEMMA EndsInSpeechAppended ==
  ASSUME NEW s \in Seq(Verdicts), NEW v \in Verdicts
  PROVE  LET t == Append(s, v) IN
         EndsInSpeech(t) <=>
           \/ RunOf("speech", t, Len(t), MinSpeech)
           \/ EndsInSpeech(s) /\ ~RunOf("silence", t, Len(t), MinSilence)
  <1> DEFINE t == Append(s, v)
             n == Len(s)
  <1>1. n \in Nat /\ Len(t) = n + 1 /\ \A i \in 1 .. n : t[i] = s[i]
    BY VerdictAppended
  <1>2. MinSpeech \in Nat \ {0} /\ MinSilence \in Nat \ {0}
    BY Sizes
  <1>3. \A i \in 1 .. n : /\ RunOf("speech", t, i, MinSpeech) <=> RunOf("speech", s, i, MinSpeech)
                          /\ RunOf("silence", t, i, MinSilence) <=> RunOf("silence", s, i, MinSilence)
    BY <1>2, RunOfPrefix
  <1> HIDE DEF t, n
  <1>4. ASSUME NEW i \in 1 .. n, RunOf("speech", t, i, MinSpeech), n + 1 < i + MinSilence
        PROVE  ~RunOf("silence", t, n + 1, MinSilence)
    <2>1. i \in i - MinSpeech + 1 .. i
      BY <1>1, <1>2
    <2>2. t[i] = "speech"
      BY <1>4, <2>1 DEF RunOf
    <2>3. i \in n + 1 - MinSilence + 1 .. n + 1
      BY <1>1, <1>2, <1>4
    <2>4. RunOf("silence", t, n + 1, MinSilence) => t[i] = "silence"
      BY <1>1, <1>2, <2>3 DEF RunOf
    <2>5. QED
      BY <2>2, <2>4
  <1>5. ASSUME EndsInSpeech(t)
        PROVE  \/ RunOf("speech", t, n + 1, MinSpeech)
               \/ EndsInSpeech(s) /\ ~RunOf("silence", t, n + 1, MinSilence)
    <2>1. PICK i \in 1 .. n + 1 :
            /\ RunOf("speech", t, i, MinSpeech)
            /\ \A j \in i + MinSilence .. n + 1 : ~RunOf("silence", t, j, MinSilence)
      BY <1>1, <1>5 DEF EndsInSpeech
    <2>2. CASE i = n + 1
      BY <2>1, <2>2
    <2>3. CASE i # n + 1
      <3>1. i \in 1 .. n
        BY <1>1, <2>3
      <3>2. \A j \in i + MinSilence .. n : j \in 1 .. n /\ j \in i + MinSilence .. n + 1
        BY <1>1, <1>2, <3>1
      <3>3. EndsInSpeech(s)
        BY <1>3, <2>1, <3>1, <3>2 DEF EndsInSpeech, n
      <3>4. ~RunOf("silence", t, n + 1, MinSilence)
        <4>1. CASE n + 1 < i + MinSilence
          BY <1>4, <2>1, <3>1, <4>1
        <4>2. CASE ~(n + 1 < i + MinSilence)
          <5>1. n + 1 \in i + MinSilence .. n + 1
            BY <1>1, <1>2, <3>1, <4>2
          <5>2. QED
            BY <2>1, <5>1
        <4>3. QED
          BY <4>1, <4>2
      <3>5. QED
        BY <3>3, <3>4
    <2>4. QED
      BY <2>2, <2>3
  <1>6. ASSUME RunOf("speech", t, n + 1, MinSpeech) PROVE EndsInSpeech(t)
    <2>1. n + 1 \in 1 .. n + 1 /\ \A j \in (n + 1) + MinSilence .. n + 1 : FALSE
      BY <1>1, <1>2
    <2>2. QED
      BY <1>1, <1>6, <2>1 DEF EndsInSpeech
  <1>7. ASSUME EndsInSpeech(s), ~RunOf("silence", t, n + 1, MinSilence) PROVE EndsInSpeech(t)
    <2>1. PICK i \in 1 .. n :
            /\ RunOf("speech", s, i, MinSpeech)
            /\ \A j \in i + MinSilence .. n : ~RunOf("silence", s, j, MinSilence)
      BY <1>7 DEF EndsInSpeech, n
    <2>2. ASSUME NEW j \in i + MinSilence .. n + 1 PROVE ~RunOf("silence", t, j, MinSilence)
      <3>1. CASE j = n + 1
        BY <1>7, <3>1
      <3>2. CASE j # n + 1
        <4>1. j \in i + MinSilence .. n /\ j \in 1 .. n
          BY <1>1, <1>2, <3>2
        <4>2. QED
          BY <1>3, <2>1, <4>1
      <3>3. QED
        BY <3>1, <3>2
    <2>3. i \in 1 .. n + 1 /\ RunOf("speech", t, i, MinSpeech)
      BY <1>1, <1>3, <2>1
    <2>4. QED
      BY <1>1, <2>2, <2>3 DEF EndsInSpeech
  <1>8. EndsInSpeech(t) <=> \/ RunOf("speech", t, Len(t), MinSpeech)
                            \/ EndsInSpeech(s) /\ ~RunOf("silence", t, Len(t), MinSilence)
    BY <1>1, <1>5, <1>6, <1>7
  <1>9. QED
    BY <1>8 DEF t

(* A run that goes on, and one that is broken.                             *)
LEMMA RunGoesOn ==
  ASSUME NEW s \in Seq(Verdicts), NEW v \in Verdicts, NEW n \in Nat, EndsRun(s, v, n)
  PROVE  LET t == Append(s, v) IN
         /\ EndsRun(t, v, n + 1)
         /\ \A m \in Nat \ {0} : RunOf(v, t, Len(t), m) <=> m <= n + 1
  <1> DEFINE t == Append(s, v)
  <1>1. /\ Len(s) \in Nat /\ Len(t) = Len(s) + 1 /\ t[Len(t)] = v
        /\ \A i \in 1 .. Len(s) : t[i] = s[i]
    BY VerdictAppended
  <1> HIDE DEF t
  <1>2. n <= Len(s) /\ (\A k \in Len(s) - n + 1 .. Len(s) : s[k] = v)
        /\ (n < Len(s) => s[Len(s) - n] # v)
    BY DEF EndsRun
  <1>3. \A k \in Len(t) - (n + 1) + 1 .. Len(t) : t[k] = v
    <2> SUFFICES ASSUME NEW k \in Len(t) - (n + 1) + 1 .. Len(t) PROVE t[k] = v
      OBVIOUS
    <2>1. CASE k = Len(t)
      BY <1>1, <2>1
    <2>2. CASE k # Len(t)
      <3>1. k \in Len(s) - n + 1 .. Len(s) /\ k \in 1 .. Len(s)
        BY <1>1, <1>2, <2>2
      <3>2. QED
        BY <1>1, <1>2, <3>1
    <2>3. QED
      BY <2>1, <2>2
  <1>4. n + 1 < Len(t) => t[Len(t) - (n + 1)] # v
    <2> SUFFICES ASSUME n + 1 < Len(t) PROVE t[Len(t) - (n + 1)] # v
      OBVIOUS
    <2>1. Len(t) - (n + 1) = Len(s) - n /\ Len(s) - n \in 1 .. Len(s) /\ n < Len(s)
      BY <1>1, <1>2
    <2>2. QED
      BY <1>1, <1>2, <2>1
  <1>5. ASSUME NEW m \in Nat \ {0} PROVE RunOf(v, t, Len(t), m) <=> m <= n + 1
    <2>1. CASE m <= n + 1
      <3>1. \A k \in Len(t) - m + 1 .. Len(t) : k \in Len(t) - (n + 1) + 1 .. Len(t)
        BY <1>1, <1>2, <2>1
      <3>2. Len(t) >= m
        BY <1>1, <1>2, <2>1
      <3>3. QED
        BY <1>3, <2>1, <3>1, <3>2 DEF RunOf
    <2>2. CASE ~(m <= n + 1)
      <3>1. SUFFICES ASSUME RunOf(v, t, Len(t), m) PROVE FALSE
        BY <2>2
      <3>2. Len(t) >= m
        BY <3>1 DEF RunOf
      <3>3. n + 1 < Len(t) /\ Len(t) - (n + 1) \in Len(t) - m + 1 .. Len(t)
        BY <1>1, <1>2, <2>2, <3>2
      <3>4. QED
        BY <1>4, <3>1, <3>3 DEF RunOf
    <2>3. QED
      BY <2>1, <2>2
  <1>6. EndsRun(t, v, n + 1)
    BY <1>1, <1>2, <1>3, <1>4 DEF EndsRun
  <1>7. QED
    BY <1>5, <1>6 DEF t

LEMMA RunBroken ==
  ASSUME NEW s \in Seq(Verdicts), NEW v \in Verdicts, NEW w, w # v
  PROVE  LET t == Append(s, v) IN
         EndsRun(t, w, 0) /\ \A m \in Nat \ {0} : ~RunOf(w, t, Len(t), m)
  <1> DEFINE t == Append(s, v)
  <1>1. Len(s) \in Nat /\ Len(t) = Len(s) + 1 /\ t[Len(t)] = v
    BY VerdictAppended
  <1> HIDE DEF t
  <1>2. EndsRun(t, w, 0)
    <2>1. Len(t) - 0 = Len(t) /\ 0 <= Len(t) /\ \A k \in Len(t) - 0 + 1 .. Len(t) : FALSE
      BY <1>1
    <2>2. QED
      BY <1>1, <2>1 DEF EndsRun
  <1>3. ASSUME NEW m \in Nat \ {0} PROVE ~RunOf(w, t, Len(t), m)
    <2>1. Len(t) \in Len(t) - m + 1 .. Len(t)
      BY <1>1
    <2>2. QED
      BY <1>1, <2>1 DEF RunOf
  <1>4. QED
    BY <1>2, <1>3 DEF t

(* The detector's counters do what they are for.                           *)
LEMMA VadCounted ==
  ASSUME Typed, Counted, NEW v \in Verdicts, said' = Append(said, v),
         vad' = IF vad.state = "silence" THEN InSilence(v) ELSE InSpeech(v)
  PROVE  Counted'
  <1> DEFINE t == Append(said, v)
  <1>1. /\ vad \in [state : {"silence", "speech"}, highs : Nat, lows : Nat]
        /\ vad.highs < MinSpeech /\ vad.lows < MinSilence
        /\ said \in Seq(Verdicts)
    BY DEF Typed
  <1>2. EndsInSpeech(t) <=>
           \/ RunOf("speech", t, Len(t), MinSpeech)
           \/ EndsInSpeech(said) /\ ~RunOf("silence", t, Len(t), MinSilence)
    BY <1>1, EndsInSpeechAppended
  <1>3. MinSpeech \in Nat \ {0} /\ MinSilence \in Nat \ {0}
    BY Sizes
  <1>4. "speech" \in Verdicts /\ "silence" \in Verdicts
    BY DEF Verdicts
  <1>5. \A w : w # v => EndsRun(t, w, 0) /\ \A m \in Nat \ {0} : ~RunOf(w, t, Len(t), m)
    BY <1>1, RunBroken
  <1> HIDE DEF t
  <1>6. SUFFICES IF vad'.state = "silence"
                 THEN EndsRun(t, "speech", vad'.highs) /\ ~EndsInSpeech(t)
                 ELSE EndsRun(t, "silence", vad'.lows) /\ EndsInSpeech(t)
    BY DEF Counted, t
  <1>7. CASE vad.state = "silence"
    <2>1. EndsRun(said, "speech", vad.highs) /\ ~EndsInSpeech(said) /\ vad' = InSilence(v)
      BY <1>7 DEF Counted
    <2>2. CASE v # "speech"
      <3>1. vad' = [vad EXCEPT !.highs = 0]
        BY <2>1, <2>2 DEF InSilence
      <3>2. vad'.state = "silence" /\ vad'.highs = 0
        BY <1>1, <1>7, <3>1
      <3>3. EndsRun(t, "speech", 0) /\ ~RunOf("speech", t, Len(t), MinSpeech)
        BY <1>3, <1>5, <2>2
      <3>4. QED
        BY <1>2, <2>1, <3>2, <3>3
    <2>3. CASE v = "speech"
      <3>1. /\ EndsRun(t, "speech", vad.highs + 1)
            /\ RunOf("speech", t, Len(t), MinSpeech) <=> MinSpeech <= vad.highs + 1
        BY <1>1, <1>3, <2>1, <2>3, RunGoesOn DEF t
      <3>2. CASE vad.highs + 1 < MinSpeech
        <4>1. vad' = [vad EXCEPT !.highs = @ + 1]
          BY <2>1, <2>3, <3>2 DEF InSilence
        <4>2. vad'.state = "silence" /\ vad'.highs = vad.highs + 1
          BY <1>1, <1>7, <4>1
        <4>3. ~(MinSpeech <= vad.highs + 1)
          BY <1>1, <1>3, <3>2
        <4>4. QED
          BY <1>2, <2>1, <3>1, <4>2, <4>3
      <3>3. CASE ~(vad.highs + 1 < MinSpeech)
        <4>1. vad' = [state |-> "speech", highs |-> 0, lows |-> 0]
          BY <2>1, <2>3, <3>3 DEF InSilence
        <4>2. vad'.state = "speech" /\ vad'.lows = 0
          BY <4>1
        <4>3. MinSpeech <= vad.highs + 1
          BY <1>1, <1>3, <3>3
        <4>4. EndsRun(t, "silence", 0)
          BY <1>5, <2>3
        <4>5. QED
          BY <1>2, <3>1, <4>2, <4>3, <4>4
      <3>4. QED
        BY <3>2, <3>3
    <2>4. QED
      BY <2>2, <2>3
  <1>8. CASE vad.state # "silence"
    <2>1. EndsRun(said, "silence", vad.lows) /\ EndsInSpeech(said) /\ vad' = InSpeech(v)
      BY <1>8 DEF Counted
    <2>2. vad.state = "speech"
      BY <1>1, <1>8
    <2>3. CASE v # "silence"
      <3>1. vad' = [vad EXCEPT !.lows = 0]
        BY <2>1, <2>3 DEF InSpeech
      <3>2. vad'.state = "speech" /\ vad'.lows = 0
        BY <1>1, <2>2, <3>1
      <3>3. EndsRun(t, "silence", 0) /\ ~RunOf("silence", t, Len(t), MinSilence)
        BY <1>3, <1>5, <2>3
      <3>4. QED
        BY <1>2, <2>1, <3>2, <3>3
    <2>4. CASE v = "silence"
      <3>1. /\ EndsRun(t, "silence", vad.lows + 1)
            /\ RunOf("silence", t, Len(t), MinSilence) <=> MinSilence <= vad.lows + 1
        BY <1>1, <1>3, <2>1, <2>4, RunGoesOn DEF t
      <3>2. CASE vad.lows + 1 < MinSilence
        <4>1. vad' = [vad EXCEPT !.lows = @ + 1]
          BY <2>1, <2>4, <3>2 DEF InSpeech
        <4>2. vad'.state = "speech" /\ vad'.lows = vad.lows + 1
          BY <1>1, <2>2, <4>1
        <4>3. ~(MinSilence <= vad.lows + 1)
          BY <1>1, <1>3, <3>2
        <4>4. QED
          BY <1>2, <2>1, <3>1, <4>2, <4>3
      <3>3. CASE ~(vad.lows + 1 < MinSilence)
        <4>1. vad' = QuietVad
          BY <2>1, <2>4, <3>3 DEF InSpeech
        <4>2. vad'.state = "silence" /\ vad'.highs = 0
          BY <4>1 DEF QuietVad
        <4>3. MinSilence <= vad.lows + 1
          BY <1>1, <1>3, <3>3
        <4>4. EndsRun(t, "speech", 0) /\ ~RunOf("speech", t, Len(t), MinSpeech)
          BY <1>3, <1>5, <2>4
        <4>5. QED
          BY <1>2, <3>1, <4>2, <4>3, <4>4
      <3>4. QED
        BY <3>2, <3>3
    <2>5. QED
      BY <2>3, <2>4
  <1>9. QED
    BY <1>7, <1>8

-----------------------------------------------------------------------------
(* The windows that passed, and where they come from. *)

LEMMA InConcat ==
  ASSUME NEW S, NEW s \in Seq(S), NEW t \in Seq(S), NEW x
  PROVE  In(x, s \o t) <=> In(x, s) \/ In(x, t)
  <1>1. /\ Len(s) \in Nat /\ Len(t) \in Nat /\ Len(s \o t) = Len(s) + Len(t)
        /\ \A i \in 1 .. Len(s) + Len(t) :
             (s \o t)[i] = IF i <= Len(s) THEN s[i] ELSE t[i - Len(s)]
    BY ConcatProperties, LenProperties
  <1>2. ASSUME In(x, s \o t) PROVE In(x, s) \/ In(x, t)
    <2>1. PICK i \in 1 .. Len(s) + Len(t) : (s \o t)[i] = x
      BY <1>1, <1>2 DEF In
    <2>2. CASE i <= Len(s)
      <3>1. i \in 1 .. Len(s) /\ s[i] = x
        BY <1>1, <2>1, <2>2
      <3>2. QED
        BY <3>1 DEF In
    <2>3. CASE ~(i <= Len(s))
      <3>1. i - Len(s) \in 1 .. Len(t) /\ t[i - Len(s)] = x
        BY <1>1, <2>1, <2>3
      <3>2. QED
        BY <3>1 DEF In
    <2>4. QED
      BY <2>2, <2>3
  <1>3. ASSUME In(x, s) PROVE In(x, s \o t)
    <2>1. PICK i \in 1 .. Len(s) : s[i] = x
      BY <1>3 DEF In
    <2>2. i \in 1 .. Len(s) + Len(t) /\ (s \o t)[i] = x
      BY <1>1, <2>1
    <2>3. QED
      BY <1>1, <2>2 DEF In
  <1>4. ASSUME In(x, t) PROVE In(x, s \o t)
    <2>1. PICK i \in 1 .. Len(t) : t[i] = x
      BY <1>4 DEF In
    <2>2. /\ i + Len(s) \in 1 .. Len(s) + Len(t) /\ ~(i + Len(s) <= Len(s))
          /\ i + Len(s) - Len(s) = i
      BY <1>1
    <2>3. (s \o t)[i + Len(s)] = x
      BY <1>1, <2>1, <2>2
    <2>4. QED
      BY <1>1, <2>2, <2>3 DEF In
  <1>5. QED
    BY <1>2, <1>3, <1>4

LEMMA PrefixAppended ==
  ASSUME NEW s \in Seq(Verdicts), NEW v \in Verdicts
  PROVE  /\ \A k \in 1 .. Len(s) : SubSeq(Append(s, v), 1, k) = SubSeq(s, 1, k)
         /\ SubSeq(Append(s, v), 1, Len(s) + 1) = Append(s, v)
  <1> DEFINE t == Append(s, v)
  <1>1. /\ t \in Seq(Verdicts) /\ Len(s) \in Nat /\ Len(t) = Len(s) + 1
        /\ \A i \in 1 .. Len(s) : t[i] = s[i]
    BY VerdictAppended
  <1> HIDE DEF t
  <1>2. ASSUME NEW k \in 1 .. Len(s) PROVE SubSeq(t, 1, k) = SubSeq(s, 1, k)
    <2>1. k \in Int /\ 1 <= k /\ \A i \in 1 .. k : i \in 1 .. Len(s) /\ i \in 1 .. Len(t)
      BY <1>1
    <2>2. \A i \in 1 .. k : t[i] \in Verdicts /\ s[i] \in Verdicts
      BY <1>1, <2>1, ElementOfSeq
    <2>3. /\ SubSeq(t, 1, k) \in Seq(Verdicts) /\ Len(SubSeq(t, 1, k)) = k
          /\ \A i \in 1 .. k : SubSeq(t, 1, k)[i] = t[i]
      <3>1. /\ SubSeq(t, 1, k) \in Seq(Verdicts)
            /\ Len(SubSeq(t, 1, k)) = IF 1 <= k THEN k - 1 + 1 ELSE 0
            /\ \A i \in 1 .. k - 1 + 1 : SubSeq(t, 1, k)[i] = t[1 + i - 1]
        BY <2>1, <2>2, SubSeqProperties
      <3>2. QED
        BY <2>1, <3>1
    <2>4. /\ SubSeq(s, 1, k) \in Seq(Verdicts) /\ Len(SubSeq(s, 1, k)) = k
          /\ \A i \in 1 .. k : SubSeq(s, 1, k)[i] = s[i]
      <3>1. /\ SubSeq(s, 1, k) \in Seq(Verdicts)
            /\ Len(SubSeq(s, 1, k)) = IF 1 <= k THEN k - 1 + 1 ELSE 0
            /\ \A i \in 1 .. k - 1 + 1 : SubSeq(s, 1, k)[i] = s[1 + i - 1]
        BY <2>1, <2>2, SubSeqProperties
      <3>2. QED
        BY <2>1, <3>1
    <2>5. \A i \in 1 .. k : SubSeq(t, 1, k)[i] = SubSeq(s, 1, k)[i]
      BY <1>1, <2>1, <2>3, <2>4
    <2>6. QED
      BY <2>3, <2>4, <2>5, SeqEqual
  <1>3. SubSeq(t, 1, Len(s) + 1) = t
    BY <1>1, SubSeqFull
  <1>4. QED
    BY <1>2, <1>3 DEF t

(* One window further, the windows of before are where they were.          *)
LEMMA WindowsStay ==
  ASSUME Typed, Typed', Len(said') = Len(said) + 1,
         heard' - Len(buffer') = heard - Len(buffer) + Window
  PROVE  /\ \A k \in 1 .. Len(said) : WindowUnits(k)' = WindowUnits(k)
         /\ \A k : k = Len(said) + 1 =>
              WindowUnits(k)' = heard - Len(buffer) + 1 .. heard - Len(buffer) + Window
  <1> DEFINE n == Len(said)
             at == heard - Len(buffer)
  <1>1. /\ n \in Nat /\ Len(buffer) \in Nat /\ heard \in Nat /\ Len(buffer') \in Nat
        /\ heard' \in Nat /\ Window \in Nat /\ at \in Int
    BY LenProperties, Sizes DEF Typed
  <1>2. ASSUME NEW k \in 1 .. n PROVE WindowUnits(k)' = WindowUnits(k)
    <2> DEFINE m == n - k + 1
    <2>1. m \in Nat /\ (n + 1) - k + 1 = m + 1
      BY <1>1
    <2>2. Window * (m + 1) = Window * m + Window /\ Window * m \in Nat
      BY <1>1, <2>1
    <2>3. heard' - Len(buffer') - Window * (m + 1) = at - Window * m
      BY <1>1, <2>1, <2>2
    <2>4. WindowUnits(k) = at - Window * m + 1 .. at - Window * m + Window
      BY DEF WindowUnits
    <2> HIDE DEF m, at
    <2>5. WindowUnits(k)' =
            heard' - Len(buffer') - Window * (m + 1) + 1
              .. heard' - Len(buffer') - Window * (m + 1) + Window
      BY <2>1 DEF WindowUnits
    <2>6. QED
      BY <2>3, <2>4, <2>5
  <1>3. ASSUME NEW k, k = n + 1 PROVE WindowUnits(k)' = at + 1 .. at + Window
    <2>1. (n + 1) - k + 1 = 1 /\ Window * 1 = Window
      BY <1>1, <1>3
    <2>2. heard' - Len(buffer') - Window * ((n + 1) - k + 1) = at
      BY <1>1, <2>1
    <2> HIDE DEF at
    <2>3. WindowUnits(k)' =
            heard' - Len(buffer') - Window * ((n + 1) - k + 1) + 1
              .. heard' - Len(buffer') - Window * ((n + 1) - k + 1) + Window
      BY DEF WindowUnits
    <2>4. QED
      BY <2>2, <2>3
  <1>4. QED
    BY <1>2, <1>3

LEMMA VadWindowPassed ==
  ASSUME Typed, Typed', Counted', Passed, NEW v \in Verdicts, VadWindow(v)
  PROVE  Passed'
  <1> DEFINE n == Len(said)
             size == Len(buffer)
             window == SubSeq(buffer, 1, Window)
  <1>1. /\ size >= Window /\ said' = Append(said, v)
        /\ speech' = IF vad'.state = "speech" THEN speech \o window ELSE speech
        /\ buffer' = SubSeq(buffer, Window + 1, size)
        /\ UNCHANGED <<hasVad, fed, finished, heard>>
    BY DEF VadWindow, extractor
  <1>2. /\ n \in Nat /\ size \in Nat /\ heard \in Nat /\ Window \in Nat \ {0}
        /\ said \in Seq(Verdicts) /\ speech \in Seq(Units) /\ buffer \in Seq(Units)
        /\ \A i \in 1 .. size : buffer[i] \in Units
    BY LenProperties, ElementOfSeq, Sizes DEF Typed
  <1>3. /\ Len(buffer') = size - Window
        /\ \A i \in 1 .. size - Window : buffer'[i] = buffer[Window + i]
    <2>1. Window + 1 \in Int /\ \A i \in Window + 1 .. size : buffer[i] \in Units
      BY <1>2
    <2>2. /\ Len(buffer') = IF Window + 1 <= size THEN size - (Window + 1) + 1 ELSE 0
          /\ \A i \in 1 .. size - (Window + 1) + 1 : buffer'[i] = buffer[(Window + 1) + i - 1]
      BY <1>1, <1>2, <2>1, SubSeqProperties
    <2>3. QED
      BY <1>1, <1>2, <2>2
  <1>4. /\ window \in Seq(Units) /\ Len(window) = Window
        /\ \A i \in 1 .. Window : window[i] = buffer[i]
    <2>1. 1 \in Int /\ Window \in Int /\ \A i \in 1 .. Window : buffer[i] \in Units
      BY <1>1, <1>2
    <2>2. /\ window \in Seq(Units)
          /\ Len(window) = IF 1 <= Window THEN Window - 1 + 1 ELSE 0
          /\ \A i \in 1 .. Window - 1 + 1 : window[i] = buffer[1 + i - 1]
      BY <2>1, SubSeqProperties
    <2>3. QED
      BY <1>2, <2>2
  <1>5. SUFFICES ASSUME hasVad
                 PROVE  /\ \A i \in 1 .. Len(buffer') : buffer'[i] = heard' - Len(buffer') + i
                        /\ ~finished' =>
                             \A x : In(x, fed') \/ In(x, speech')
                                    <=> \E k \in PassedWindows' : x \in WindowUnits(k)'
    BY <1>1 DEF Passed
  <1>6. \A i \in 1 .. size : buffer[i] = heard - size + i
    BY <1>5 DEF Passed
  <1>7. ASSUME NEW i \in 1 .. Len(buffer') PROVE buffer'[i] = heard' - Len(buffer') + i
    <2>1. i \in 1 .. size - Window /\ Window + i \in 1 .. size
      BY <1>1, <1>2, <1>3
    <2>2. buffer'[i] = heard - size + (Window + i)
      BY <1>3, <1>6, <2>1
    <2>3. heard' = heard /\ Len(buffer') = size - Window
      BY <1>1, <1>3
    <2>4. QED
      BY <1>2, <2>1, <2>2, <2>3
  <1>8. /\ \A k \in 1 .. n : SubSeq(said', 1, k) = SubSeq(said, 1, k)
        /\ SubSeq(said', 1, n + 1) = said' /\ Len(said') = n + 1
    BY <1>1, <1>2, PrefixAppended, VerdictAppended
  <1>9. /\ \A k \in 1 .. n : WindowUnits(k)' = WindowUnits(k)
        /\ \A k : k = n + 1 => WindowUnits(k)' = heard - size + 1 .. heard - size + Window
    <2>1. heard' = heard /\ Len(buffer') = size - Window
      BY <1>1, <1>3
    <2>2. heard' - Len(buffer') = heard - size + Window
      BY <1>2, <2>1
    <2>3. QED
      BY <1>8, <2>2, WindowsStay
  <1>10. vad'.state = "speech" <=> EndsInSpeech(said')
    <2>1. vad'.state \in {"silence", "speech"}
      BY DEF Typed
    <2>2. QED
      BY <2>1 DEF Counted
  <1> HIDE DEF n, size, window
  <1>11. \A x : In(x, window) <=> x \in heard - size + 1 .. heard - size + Window
    <2> SUFFICES ASSUME NEW x PROVE In(x, window) <=> x \in heard - size + 1 .. heard - size + Window
      OBVIOUS
    <2>1. ASSUME NEW i \in 1 .. Window PROVE window[i] = heard - size + i
      <3>1. i \in 1 .. size
        BY <1>1, <1>2
      <3>2. QED
        BY <1>4, <1>6, <3>1
    <2>2. ASSUME In(x, window) PROVE x \in heard - size + 1 .. heard - size + Window
      <3>1. PICK i \in 1 .. Window : window[i] = x
        BY <1>4, <2>2 DEF In
      <3>2. QED
        BY <1>2, <2>1, <3>1
    <2>3. ASSUME x \in heard - size + 1 .. heard - size + Window PROVE In(x, window)
      <3>1. x - (heard - size) \in 1 .. Window /\ heard - size + (x - (heard - size)) = x
        BY <1>2, <2>3
      <3>2. window[x - (heard - size)] = x
        BY <2>1, <3>1
      <3>3. QED
        BY <1>4, <3>1, <3>2 DEF In
    <2>4. QED
      BY <2>2, <2>3
  <1>12. ASSUME ~finished', NEW x
         PROVE  In(x, fed') \/ In(x, speech') <=> \E k \in PassedWindows' : x \in WindowUnits(k)'
    <2>1. In(x, fed) \/ In(x, speech) <=> \E k \in PassedWindows : x \in WindowUnits(k)
      BY <1>1, <1>5, <1>12 DEF Passed
    <2>2. PassedWindows' = IF vad'.state = "speech" THEN PassedWindows \union {n + 1} ELSE PassedWindows
      <3>1. PassedWindows' = {k \in 1 .. n + 1 : EndsInSpeech(SubSeq(said', 1, k))}
        BY <1>8 DEF PassedWindows
      <3>2. PassedWindows = {k \in 1 .. n : EndsInSpeech(SubSeq(said, 1, k))}
        BY DEF PassedWindows, n
      <3>3. ASSUME NEW k PROVE k \in 1 .. n + 1 <=> k \in 1 .. n \/ k = n + 1
        BY <1>2
      <3>4. n + 1 \notin 1 .. n
        BY <1>2
      <3>5. QED
        BY <1>8, <1>10, <3>1, <3>2, <3>3, <3>4
    <2>3. \A k \in PassedWindows : k \in 1 .. n
      BY DEF PassedWindows, n
    <2>4. CASE vad'.state = "speech"
      <3>1. In(x, speech') <=> In(x, speech) \/ In(x, window)
        BY <1>1, <1>2, <1>4, <2>4, InConcat DEF window
      <3>2. (\E k \in PassedWindows' : x \in WindowUnits(k)')
              <=> (\E k \in PassedWindows \union {n + 1} : x \in WindowUnits(k)')
        BY <2>2, <2>4
      <3>3. (\E k \in PassedWindows \union {n + 1} : x \in WindowUnits(k)')
              <=> \/ \E k \in PassedWindows : x \in WindowUnits(k)'
                  \/ \E k \in {n + 1} : x \in WindowUnits(k)'
        OBVIOUS
      <3>4. (\E k \in {n + 1} : x \in WindowUnits(k)')
              <=> x \in heard - size + 1 .. heard - size + Window
        BY <1>9
      <3>5. (\E k \in PassedWindows : x \in WindowUnits(k)')
              <=> \E k \in PassedWindows : x \in WindowUnits(k)
        BY <1>9, <2>3
      <3>6. QED
        BY <1>1, <1>11, <2>1, <3>1, <3>2, <3>3, <3>4, <3>5
    <2>5. CASE vad'.state # "speech"
      <3>1. speech' = speech
        BY <1>1, <2>5
      <3>2. (\E k \in PassedWindows' : x \in WindowUnits(k)')
              <=> (\E k \in PassedWindows : x \in WindowUnits(k))
        BY <1>9, <2>2, <2>3, <2>5
      <3>3. QED
        BY <1>1, <2>1, <3>1, <3>2
    <2>6. QED
      BY <2>4, <2>5
  <1>13. QED
    BY <1>7, <1>12

(* The end of the detector's loop: what passed goes to the extractor.      *)
LEMMA VadDonePassed ==
  ASSUME Typed, Passed, VadDone
  PROVE  Passed'
  <1>1. /\ speech' = <<>>
        /\ UNCHANGED <<hasVad, buffer, said, heard, finished>>
    BY DEF VadDone, Feed, detector, extractor
  <1>2. speech \in Seq(Units) /\ fed \in Seq(Units) /\ Len(<<>>) = 0
    BY EmptySeq DEF Typed
  <1>3. ASSUME ~finished, NEW x
        PROVE  In(x, fed') \/ In(x, speech') <=> In(x, fed) \/ In(x, speech)
    <2>1. ~In(x, <<>>)
      BY <1>2 DEF In
    <2>2. CASE speech = <<>>
      BY <1>1, <2>1, <2>2 DEF VadDone, extractor
    <2>3. CASE speech # <<>>
      <3>1. fed' = fed \o speech
        BY <1>3, <2>3 DEF VadDone, Feed
      <3>2. In(x, fed \o speech) <=> In(x, fed) \/ In(x, speech)
        BY <1>2, InConcat
      <3>3. QED
        BY <1>1, <2>1, <3>1, <3>2
    <2>4. QED
      BY <2>2, <2>3
  <1>4. PassedWindows' = PassedWindows /\ \A k : WindowUnits(k)' = WindowUnits(k)
    BY <1>1 DEF PassedWindows, WindowUnits
  <1>5. QED
    BY <1>1, <1>3, <1>4 DEF Passed

(* More audio in the buffer, behind what is there.                         *)
LEMMA AcceptAudioPassed ==
  ASSUME Typed, Passed, NEW n \in Batches, AcceptAudio(n)
  PROVE  Passed'
  <1> DEFINE samples == [i \in 1 .. n |-> heard + i]
  <1>1. CASE ~hasVad
    BY <1>1 DEF AcceptAudio, Passed
  <1>2. CASE hasVad
    <2>1. /\ buffer' = buffer \o samples /\ heard' = heard + n
          /\ UNCHANGED <<hasVad, said, speech, fed, finished>>
      BY <1>2 DEF AcceptAudio, extractor
    <2>2. /\ n \in Nat /\ heard \in Nat /\ Len(buffer) \in Nat
          /\ buffer \in Seq(Int)
      <3>1. n \in Nat
        BY BatchesAssumption
      <3>2. Len(buffer) \in Nat /\ \A i \in 1 .. Len(buffer) : buffer[i] \in Int
        <4>1. buffer \in Seq(Units) /\ Units \subseteq Int
          BY Sizes DEF Typed, Units
        <4>2. Len(buffer) \in Nat /\ \A i \in 1 .. Len(buffer) : buffer[i] \in Units
          BY <4>1, LenProperties, ElementOfSeq
        <4>3. QED
          BY <4>1, <4>2
      <3>3. buffer \in [1 .. Len(buffer) -> Int]
        BY <3>2, LenProperties DEF Typed
      <3>4. QED
        BY <3>1, <3>2, <3>3, SeqDef DEF Typed
    <2>3. samples \in Seq(Int) /\ Len(samples) = n
      <3>1. samples \in [1 .. n -> Int]
        BY <2>2
      <3>2. QED
        BY <2>2, <3>1, SeqDef, LenProperties
    <2>4. \A i \in 1 .. n : samples[i] = heard + i
      OBVIOUS
    <2> HIDE DEF samples
    <2>5. /\ Len(buffer') = Len(buffer) + n
          /\ \A i \in 1 .. Len(buffer) + n :
               buffer'[i] = IF i <= Len(buffer) THEN buffer[i] ELSE samples[i - Len(buffer)]
      <3>1. /\ Len(buffer \o samples) = Len(buffer) + Len(samples)
            /\ \A i \in 1 .. Len(buffer) + Len(samples) :
                 (buffer \o samples)[i] =
                   IF i <= Len(buffer) THEN buffer[i] ELSE samples[i - Len(buffer)]
        BY <2>2, <2>3, ConcatProperties
      <3>2. QED
        BY <2>1, <2>3, <3>1
    <2>6. heard' - Len(buffer') = heard - Len(buffer)
      BY <2>1, <2>2, <2>5
    <2>7. ASSUME NEW i \in 1 .. Len(buffer') PROVE buffer'[i] = heard' - Len(buffer') + i
      <3>1. CASE i <= Len(buffer)
        <4>1. i \in 1 .. Len(buffer) /\ buffer'[i] = buffer[i]
          BY <2>2, <2>5, <3>1
        <4>2. buffer[i] = heard - Len(buffer) + i
          BY <1>2, <4>1 DEF Passed
        <4>3. QED
          BY <2>6, <4>1, <4>2
      <3>2. CASE ~(i <= Len(buffer))
        <4>1. i - Len(buffer) \in 1 .. n /\ buffer'[i] = samples[i - Len(buffer)]
          BY <2>2, <2>5, <3>2
        <4>2. buffer'[i] = heard + (i - Len(buffer))
          BY <2>4, <4>1
        <4>3. i \in Int /\ heard + (i - Len(buffer)) = heard - Len(buffer) + i
          BY <2>2, <2>5
        <4>4. QED
          BY <2>6, <4>2, <4>3
      <3>3. QED
        BY <3>1, <3>2
    <2>8. PassedWindows' = PassedWindows /\ \A k : WindowUnits(k)' = WindowUnits(k)
      BY <2>1, <2>6 DEF PassedWindows, WindowUnits
    <2>9. QED
      BY <1>2, <2>1, <2>7, <2>8 DEF Passed
  <1>3. QED
    BY <1>1, <1>2 DEF Typed

(* Steps that leave the detector alone, or a stream that is finished.      *)
LEMMA DetectorUntouched ==
  ASSUME Counted, Passed, UNCHANGED <<vad, said, hasVad, buffer, heard>>,
         finished' \/ UNCHANGED <<fed, speech, finished>>
  PROVE  Counted' /\ Passed'
  <1>1. vad' = vad /\ said' = said /\ hasVad' = hasVad /\ buffer' = buffer /\ heard' = heard
    OBVIOUS
  <1>2. Counted'
    BY <1>1 DEF Counted
  <1>3. PassedWindows' = PassedWindows /\ \A k : WindowUnits(k)' = WindowUnits(k)
    BY <1>1 DEF PassedWindows, WindowUnits
  <1>4. CASE finished'
    BY <1>1, <1>2, <1>4 DEF Passed
  <1>5. CASE fed' = fed /\ speech' = speech /\ finished' = finished
    BY <1>1, <1>2, <1>3, <1>5 DEF Passed
  <1>6. QED
    BY <1>4, <1>5

LEMMA NothingSaid ==
  ASSUME vad = QuietVad, said = <<>>, buffer = <<>>, fed = <<>>, speech = <<>>
  PROVE  Counted /\ Passed
  <1>1. Len(<<>>) = 0
    BY EmptySeq
  <1>2. Counted
    BY <1>1 DEF Counted, QuietVad, EndsRun, EndsInSpeech
  <1>3. Passed
    BY <1>1 DEF Passed, PassedWindows, In
  <1>4. QED
    BY <1>2, <1>3

LEMMA RestartDetector ==
  ASSUME Restart, speech' = <<>>
  PROVE  Counted' /\ Passed'
  <1>1. /\ vad' = QuietVad /\ said' = <<>> /\ buffer' = <<>> /\ fed' = <<>> /\ speech' = <<>>
    BY DEF Restart
  <1>2. Len(<<>>) = 0
    BY EmptySeq
  <1>3. Counted'
    BY <1>1, <1>2 DEF Counted, QuietVad, EndsRun, EndsInSpeech
  <1>4. Passed'
    BY <1>1, <1>2 DEF Passed, PassedWindows, In
  <1>5. QED
    BY <1>3, <1>4

LEMMA FlushDetector ==
  ASSUME IInv, Flush
  PROVE  Counted' /\ Passed'
  <1>1. Typed /\ Counted /\ Passed /\ DecoderInv
    BY DEF IInv, DecoderInv
  <1>2. pc = "flush" /\ speech' = speech /\ hasVad' = hasVad /\ heard' = heard
    BY DEF Flush, FlushNothing, FlushTrailing, FlushFails, FlushPanics
  <1>3. speech = <<>>
    BY <1>1, <1>2, FlushRemaining
  <1>4. CASE Restart
    BY <1>2, <1>3, <1>4, RestartDetector
  <1>5. CASE finished' = TRUE /\ UNCHANGED <<vad, said, buffer>>
    BY <1>1, <1>2, <1>5, DetectorUntouched
  <1>6. CASE FlushNothing
    BY <1>4, <1>5, <1>6 DEF FlushNothing, HandOver, detector
  <1>7. CASE FlushTrailing
    BY <1>4, <1>5, <1>7 DEF FlushTrailing, HandOver, detector
  <1>8. CASE FlushFails
    BY <1>5, <1>8 DEF FlushFails, detector
  <1>9. CASE FlushPanics
    BY <1>5, <1>9 DEF FlushPanics, detector
  <1>10. QED
    BY <1>6, <1>7, <1>8, <1>9 DEF Flush

-----------------------------------------------------------------------------
(* The invariant. *)

LEMMA InitIInv == Init => IInv
  BY InitDecoder, NothingSaid DEF Init, IInv

LEMMA NextIInv == IInv /\ [Next]_vars => IInv'
  <1> SUFFICES ASSUME IInv, [Next]_vars PROVE IInv'
    OBVIOUS
  <1>1. DecoderInv /\ Typed /\ Counted /\ Passed
    BY DEF IInv, DecoderInv
  <1>2. ASSUME NEW n \in Batches, AcceptAudio(n) PROVE IInv'
    <2>1. DecoderInv'
      BY <1>1, <1>2, AcceptAudioDecoder
    <2>2. Counted'
      BY <1>1, <1>2 DEF AcceptAudio, Counted
    <2>3. Passed'
      BY <1>1, <1>2, AcceptAudioPassed
    <2>4. QED
      BY <2>1, <2>2, <2>3 DEF IInv
  <1>3. ASSUME NEW verdict \in Verdicts, VadWindow(verdict) PROVE IInv'
    <2>1. DecoderInv' /\ Typed'
      BY <1>1, <1>3, VadWindowDecoder DEF DecoderInv
    <2>2. Counted'
      BY <1>1, <1>3, VadCounted DEF VadWindow
    <2>3. Passed'
      BY <1>1, <1>3, <2>1, <2>2, VadWindowPassed
    <2>4. QED
      BY <2>1, <2>2, <2>3 DEF IInv
  <1>4. CASE VadDone
    <2>1. Counted'
      BY <1>1, <1>4 DEF VadDone, Counted, detector
    <2>2. QED
      BY <1>1, <1>4, <2>1, VadDoneDecoder, VadDonePassed DEF IInv
  <1>5. CASE DecodeReady
    <2>1. UNCHANGED <<vad, said, hasVad, buffer, heard, fed, speech, finished>>
      BY <1>5 DEF DecodeReady, detector, extractor
    <2>2. QED
      BY <1>1, <1>5, <2>1, DecodeReadyDecoder, DetectorUntouched DEF IInv
  <1>6. CASE FramesDone
    <2>1. UNCHANGED <<vad, said, hasVad, buffer, heard, fed, speech, finished>>
      BY <1>6 DEF FramesDone, detector, extractor
    <2>2. QED
      BY <1>1, <1>6, <2>1, FramesDoneDecoder, DetectorUntouched DEF IInv
  <1>7. CASE CallFlush \/ TakeFinalText
    <2>1. UNCHANGED <<vad, said, hasVad, buffer, heard, fed, speech, finished>>
      BY <1>7 DEF CallFlush, TakeFinalText, detector, extractor
    <2>2. QED
      BY <1>1, <1>7, <2>1, OtherCallsDecoder, DetectorUntouched DEF IInv
  <1>8. CASE Reset
    <2>1. Restart /\ speech' = <<>>
      BY <1>1, <1>8 DEF Reset, DecoderInv, Between
    <2>2. QED
      BY <1>1, <1>8, <2>1, OtherCallsDecoder, RestartDetector DEF IInv
  <1>9. CASE Flush
    BY <1>1, <1>9, FlushDecoder, FlushDetector DEF IInv
  <1>10. CASE UNCHANGED vars
    <2>1. UNCHANGED <<pc, auto, hasVad, vad, buffer, said, speech, wasSpeech, fed, finished, next,
                      cache, clock, failed, fresh, tokens, final, heard>>
      BY <1>10 DEF vars, detector, extractor, decoding
    <2>2. Grown /\ Typed' /\ Between'
      BY <1>1, <2>1, AllTyped DEF Grown, All, Typed, DecoderInv, Between
    <2>3. QED
      BY <1>1, <2>1, <2>2, GrownKeeps, DetectorUntouched DEF IInv, DecoderInv
  <1>11. QED
    BY <1>2, <1>3, <1>4, <1>5, <1>6, <1>7, <1>8, <1>9, <1>10 DEF Next

LEMMA IInvHolds == Spec => []IInv
  <1>1. Init => IInv
    BY InitIInv
  <1>2. IInv /\ [Next]_vars => IInv'
    BY NextIInv
  <1>3. QED
    BY <1>1, <1>2, PTL DEF Spec

-----------------------------------------------------------------------------
(* What the invariant says of the properties. *)

LEMMA TilesHeard ==
  ASSUME Typed, NEW toks \in Seq(TokenType), NEW n \in Nat, n <= Len(fed), TilesTo(toks, n)
  PROVE  Len(toks) = n /\ Heard(toks) = SubSeq(fed, 1, n)
  <1>1. /\ Heard(toks) \in Seq(Units) /\ Len(Heard(toks)) = n
        /\ \A i \in 1 .. n : Heard(toks)[i] = fed[i]
    BY HeardFacts DEF TilesTo
  <1>2. Len(fed) \in Nat /\ \A i \in 1 .. Len(fed) : fed[i] \in Units
    BY LenProperties, ElementOfSeq DEF Typed
  <1>3. /\ SubSeq(fed, 1, n) \in Seq(Units) /\ Len(SubSeq(fed, 1, n)) = n
        /\ \A i \in 1 .. n : SubSeq(fed, 1, n)[i] = fed[i]
    <2>1. 1 \in Int /\ n \in Int /\ \A i \in 1 .. n : fed[i] \in Units
      BY <1>2
    <2>2. /\ SubSeq(fed, 1, n) \in Seq(Units)
          /\ Len(SubSeq(fed, 1, n)) = IF 1 <= n THEN n - 1 + 1 ELSE 0
          /\ \A i \in 1 .. n - 1 + 1 : SubSeq(fed, 1, n)[i] = fed[1 + i - 1]
      BY <2>1, SubSeqProperties
    <2>3. QED
      BY <2>2
  <1>4. \A i \in 1 .. n : Heard(toks)[i] = SubSeq(fed, 1, n)[i]
    BY <1>1, <1>3
  <1>5. Heard(toks) = SubSeq(fed, 1, n)
    BY <1>1, <1>3, <1>4, SeqEqual
  <1>6. QED
    BY <1>5 DEF TilesTo

(***************************************************************************)
(* However the audio is cut into calls, and for any sizes of chunks, the   *)
(* tokens so far transcribe exactly the frames before next_frame_idx, each *)
(* once and in order (streaming_pipeline.rs:124-139).                      *)
(***************************************************************************)
THEOREM TokensTileTheFrames == Spec => []ChunksTile
  <1>1. IInv => ChunksTile
    <2> SUFFICES ASSUME IInv PROVE ChunksTile
      OBVIOUS
    <2>1. Typed /\ next <= Len(fed) /\ Tiled
      BY DEF IInv, DecoderInv, Between
    <2>2. TypeOK
      BY <2>1, TypedIsTypeOK
    <2>3. ASSUME ~failed, ~finished PROVE Heard(All) = SubSeq(fed, 1, next)
      <3>1. TilesTo(All, next)
        BY <2>1, <2>3 DEF Tiled
      <3>2. QED
        BY <2>1, <3>1, AllTyped, TilesHeard
    <2>4. QED
      BY <2>2, <2>3 DEF ChunksTile, All
  <1>2. QED
    BY <1>1, IInvHolds, PTL

(***************************************************************************)
(* The encoder's and the decoder's caches have seen the audio of the       *)
(* tokens and nothing else, and time stamps never run backwards, whatever  *)
(* is reset or fails between two chunks (streaming_pipeline.rs:182-194,    *)
(* 249-261).                                                               *)
(***************************************************************************)
THEOREM CachesBelongToUtterance == Spec => []StateOfUtterance
  <1>1. IInv => StateOfUtterance
    <2> SUFFICES ASSUME IInv PROVE StateOfUtterance
      OBVIOUS
    <2>1. Typed /\ Tiled /\ Stamped /\ Cached
      BY DEF IInv, DecoderInv
    <2>2. \A i \in 1 .. Len(All) - 1 : All[i].at <= All[i + 1].at
      BY <2>1 DEF Stamped, StampedBelow
    <2>3. ~failed /\ ~finished => \A i \in 1 .. Len(All) : All[i].at = EncodedAt(i)
      BY <2>1 DEF Tiled, TilesTo
    <2>4. ~failed => cache = Heard(All)
      BY <2>1 DEF Cached
    <2>5. QED
      BY <2>2, <2>3, <2>4 DEF StateOfUtterance, All
  <1>2. QED
    BY <1>1, IInvHolds, PTL

(***************************************************************************)
(* A flush never copies more trailing frames than the padded chunk holds,  *)
(* unless an inference failed before it (streaming_pipeline.rs:215-222).   *)
(***************************************************************************)
THEOREM TrailingFramesFit == Spec => []NoPanic
  <1>1. IInv => NoPanic
    BY DEF IInv, DecoderInv, Between, NoPanic
  <1>2. QED
    BY <1>1, IInvHolds, PTL

(***************************************************************************)
(* The detector is in speech exactly when its verdicts end in speech, and  *)
(* the extractor gets the windows that do and no other                     *)
(* (vad.rs:278-330, 343-350; streaming_pipeline.rs:99-107).                *)
(***************************************************************************)
THEOREM SpeechReachesTheExtractor == Spec => []DetectorPassesSpeech
  <1>1. IInv => DetectorPassesSpeech
    <2> SUFFICES ASSUME IInv, hasVad
                 PROVE  /\ vad.state = "speech" <=> EndsInSpeech(said)
                        /\ ~finished =>
                             UnitsOf(fed) \union UnitsOf(speech) =
                               UNION {WindowUnits(k) : k \in PassedWindows}
      BY DEF DetectorPassesSpeech, PassedWindows
    <2>1. Typed /\ Counted /\ Passed
      BY DEF IInv, DecoderInv
    <2>2. vad.state = "speech" <=> EndsInSpeech(said)
      <3>1. vad.state \in {"silence", "speech"}
        BY <2>1 DEF Typed
      <3>2. QED
        BY <2>1, <3>1 DEF Counted
    <2>3. ASSUME ~finished
          PROVE  UnitsOf(fed) \union UnitsOf(speech) = UNION {WindowUnits(k) : k \in PassedWindows}
      <3>1. \A x : In(x, fed) \/ In(x, speech) <=> \E k \in PassedWindows : x \in WindowUnits(k)
        BY <2>1, <2>3 DEF Passed
      <3>2. \A x : x \in UnitsOf(fed) <=> In(x, fed)
        BY DEF UnitsOf, In
      <3>3. \A x : x \in UnitsOf(speech) <=> In(x, speech)
        BY DEF UnitsOf, In
      <3>4. \A x : x \in UNION {WindowUnits(k) : k \in PassedWindows}
                     <=> \E k \in PassedWindows : x \in WindowUnits(k)
        OBVIOUS
      <3>5. \A x : x \in UnitsOf(fed) \union UnitsOf(speech)
                     <=> x \in UNION {WindowUnits(k) : k \in PassedWindows}
        BY <3>1, <3>2, <3>3, <3>4
      <3>6. QED
        BY <3>5
    <2>4. QED
      BY <2>2, <2>3
  <1>2. QED
    BY <1>1, IInvHolds, PTL

(* What a flush that succeeds returns or stores.                           *)
LEMMA FlushIsComplete ==
  ASSUME IInv, Next, pc = "flush", pc' = "idle", ~failed, ~failed', ~finished
  PROVE  FlushComplete
  <1> DEFINE text == IF auto THEN final' ELSE tokens'
             rest == Len(fed) - next
  <1>1. DecoderInv /\ Typed /\ Tiled /\ Stamped
    BY DEF IInv, DecoderInv
  <1>2. /\ next \in Nat /\ Len(fed) \in Nat /\ tokens \in Seq(TokenType)
        /\ ChunkShift \in Nat \ {0} /\ ChunkFrames \in Nat \ {0}
    BY <1>1, AllTyped, Sizes DEF Typed
  <1>3. All = tokens /\ Remaining = rest /\ rest \in Nat /\ rest < ChunkFrames
    BY <1>1, FlushRemaining
  <1>4. InStep /\ TilesTo(tokens, next)
    BY <1>1, <1>3 DEF Tiled
  <1>5. FlushNothing \/ FlushTrailing
    BY <1>1 DEF Next, AcceptAudio, VadWindow, VadDone, DecodeReady, FramesDone, CallFlush, Reset,
                TakeFinalText, Flush, FlushFails, FlushPanics, ChunkFailed
  <1> HIDE DEF rest
  <1>6. CASE FlushNothing
    <2>1. text = tokens /\ rest = 0
      BY <1>3, <1>6 DEF FlushNothing, HandOver
    <2>2. next = Len(fed) /\ next <= Len(fed)
      BY <1>2, <2>1 DEF rest
    <2>3. Len(tokens) = next /\ Heard(tokens) = SubSeq(fed, 1, next)
      BY <1>1, <1>2, <1>4, <2>2, TilesHeard
    <2>4. Len(fed) - Len(tokens) = 0
      BY <1>2, <2>2, <2>3
    <2>5. QED
      BY <2>1, <2>3, <2>4 DEF FlushComplete
  <1>7. CASE FlushTrailing
    <2> DEFINE n == Least(ChunkShift, Len(fed) - next)
    <2>1. text = tokens \o Emitted /\ rest \in 1 .. ChunkFrames
      BY <1>3, <1>7 DEF FlushTrailing, HandOver
    <2>2. next < Len(fed)
      BY <1>2, <2>1 DEF rest
    <2>3. StampedBelow(tokens, clock)
      BY <1>1, <1>3 DEF Stamped
    <2>4. text \in Seq(TokenType) /\ TilesTo(text, next + n)
      BY <1>1, <1>2, <1>4, <2>1, <2>2, <2>3, DecodedAfter
    <2>5. /\ n \in Nat /\ next + n \in Nat /\ next + n <= Len(fed)
          /\ Len(fed) - (next + n) \in {0} \union 1 .. LookAhead - 1
      <3>1. CASE Len(fed) - next <= ChunkShift
        <4>1. n = Len(fed) - next
          BY <1>2, <3>1 DEF Least
        <4>2. n \in Nat /\ next + n = Len(fed) /\ Len(fed) - (next + n) = 0
          BY <1>2, <2>2, <4>1
        <4>3. QED
          BY <1>2, <4>2
      <3>2. CASE ~(Len(fed) - next <= ChunkShift)
        <4>1. n = ChunkShift
          BY <1>2, <3>2 DEF Least
        <4>2. Len(fed) - next < ChunkFrames
          BY <1>3 DEF rest
        <4>3. Len(fed) - (next + ChunkShift) \in 1 .. LookAhead - 1
          BY <1>2, <3>2, <4>2 DEF LookAhead
        <4>4. QED
          BY <1>2, <3>2, <4>1, <4>3
      <3>3. QED
        BY <3>1, <3>2
    <2> HIDE DEF n, text
    <2>6. Len(text) = next + n /\ Heard(text) = SubSeq(fed, 1, next + n)
      BY <1>1, <2>4, <2>5, TilesHeard
    <2>7. Heard(text) = SubSeq(fed, 1, Len(text)) /\ Len(fed) - Len(text) \in {0} \union 1 .. LookAhead - 1
      BY <2>5, <2>6
    <2>8. QED
      BY <2>7 DEF FlushComplete, text
  <1>8. QED
    BY <1>5, <1>6, <1>7

(***************************************************************************)
(* A flush that succeeds returns, or stores, the text of the utterance     *)
(* from its first frame on and leaves out look-ahead of the last chunk     *)
(* only, and unless an inference failed before it the trailing frames fit  *)
(* the padded chunk (streaming_pipeline.rs:213-235, 111-115).              *)
(***************************************************************************)
THEOREM FlushReturnsUtterance == Spec => FlushCoversUtterance
  <1>1. IInv /\ [Next]_vars =>
          [pc = "flush" /\ pc' = "idle" /\ ~failed /\ ~failed' /\ ~finished => FlushComplete]_vars
    BY FlushIsComplete
  <1>2. IInv' => NoPanic'
    BY DEF IInv, DecoderInv, Between, NoPanic
  <1>3. IInv /\ IInv' /\ [Next]_vars =>
          [pc = "flush" =>
             /\ NoPanic'
             /\ pc' = "idle" /\ ~failed /\ ~failed' /\ ~finished => FlushComplete]_vars
    BY <1>1, <1>2
  <1>4. QED
    BY <1>3, IInvHolds, PTL DEF Spec, FlushCoversUtterance

-----------------------------------------------------------------------------
(* What a call does to the pipeline, as its owner sees it. *)

(***************************************************************************)
(* The invariant of the running call, in terms of the pipeline it found.   *)
(*                                                                         *)
(* Says       the detector passed on h of what the call handed it.         *)
(* Took       the extractor has taken that much of it, and the frames that *)
(*            are not left to decode have their tokens.                    *)
(* Still      nothing was decoded.                                         *)
(***************************************************************************)
Now == vad.state = "speech"

CallTyped ==
  /\ call.seen \in [speech : BOOLEAN, fed : Nat, buffer : Nat, text : Nat]
  /\ call.windows \in 0 .. Len(said) /\ call.audio \in 0 .. heard

Says(h) ==
  /\ h \in 0 .. Judged
  /\ Now /\ ~call.seen.speech => h > 0
  /\ call.seen.speech /\ ~Now => h < Judged
  /\ Judged = 0 => (Now <=> call.seen.speech)

Took(taken) ==
  LET rest == Len(fed) - next
      all == call.seen.buffer + taken
  IN  /\ Len(fed) = call.seen.fed + taken
      /\ rest <= all
      /\ Len(tokens) + Len(fresh) = call.seen.text + all - rest

Still ==
  /\ Len(fed) = call.seen.fed /\ Len(fed) - next = call.seen.buffer
  /\ Len(tokens) = call.seen.text

Advanced ==
  \E h \in 0 .. Judged : \E taken \in {0, h} :
    Says(h) /\ Took(taken) /\ (finished \/ taken = h)

CallInv ==
  /\ ~hasVad => ~Now
  /\ pc \in {"vad", "frames", "flush"} =>
       /\ CallTyped
       /\ call.failed = failed /\ call.finished = finished
       /\ pc = "vad" => (wasSpeech <=> call.seen.speech) /\ Still /\ Says(Len(speech))
       /\ pc = "frames" => /\ call.seen.speech <=> hasVad /\ wasSpeech
                          /\ Advanced /\ Len(tokens) = call.seen.text
       /\ pc = "flush" /\ auto => call.seen.speech /\ ~Now /\ Advanced
       /\ pc = "flush" /\ ~auto => Still /\ (Now <=> call.seen.speech)

(* How much a call has judged so far.                                      *)
LEMMA Judgement ==
  ASSUME CallTyped, Typed
  PROVE  /\ Judged \in Nat /\ Len(said) \in Nat /\ heard \in Nat
         /\ call.windows \in Nat /\ call.audio \in Nat
         /\ hasVad => Judged = Window * (Len(said) - call.windows)
         /\ ~hasVad => Judged = heard - call.audio
  <1>1. Len(said) \in Nat /\ heard \in Nat /\ Window \in Nat
    BY LenProperties, Sizes DEF Typed
  <1>2. call.windows \in Nat /\ call.audio \in Nat /\ call.windows <= Len(said) /\ call.audio <= heard
    BY <1>1 DEF CallTyped
  <1>3. Len(said) - call.windows \in Nat /\ heard - call.audio \in Nat
    BY <1>1, <1>2
  <1>4. Window * (Len(said) - call.windows) \in Nat
    BY <1>1, <1>3
  <1>5. QED
    BY <1>1, <1>2, <1>3, <1>4 DEF Judged

LEMMA Lengths ==
  ASSUME Typed
  PROVE  /\ Len(fed) \in Nat /\ Len(tokens) \in Nat /\ Len(fresh) \in Nat /\ next \in Nat
         /\ Len(speech) \in Nat /\ Len(buffer) \in Nat /\ Len(said) \in Nat /\ heard \in Nat
  BY LenProperties DEF Typed

LEMMA FeedLengths ==
  ASSUME Typed, NEW samples \in Seq(Units), Feed(samples)
  PROVE  Len(fed') = Len(fed) + Len(samples) \/ (finished /\ fed' = fed)
  BY ConcatProperties DEF Typed, Feed

(* A call begins.                                                          *)
LEMMA CallBegins ==
  ASSUME IInv, CallInv, Begins,
         call' = [seen |-> Seen, failed |-> failed, finished |-> finished,
                  windows |-> Len(said), audio |-> heard]
  PROVE  /\ call'.seen = Seen /\ call'.failed = failed /\ call'.finished = finished
         /\ call'.windows = Len(said) /\ call'.audio = heard
         /\ Seen.speech = Now /\ Seen.fed = Len(fed) /\ Seen.buffer = Len(fed) - next
         /\ Seen.text = Len(tokens)
         /\ Seen \in [speech : BOOLEAN, fed : Nat, buffer : Nat, text : Nat]
  <1>1. Typed /\ next <= Len(fed)
    BY DEF IInv, DecoderInv, Between
  <1>2. Len(fed) \in Nat /\ Len(tokens) \in Nat /\ next \in Nat
    BY <1>1, Lengths
  <1>3. Len(fed) - next \in Nat
    BY <1>1, <1>2
  <1>4. QED
    BY <1>2, <1>3 DEF Seen, Now

LEMMA AcceptAudioCall ==
  ASSUME IInv, CallInv, IInv', NEW n \in Batches, AcceptAudio(n), CallNext
  PROVE  CallInv'
  <1> DEFINE samples == [i \in 1 .. n |-> heard + i]
  <1>1. /\ pc = "idle" /\ heard + n <= MaxAudio /\ heard' = heard + n /\ n \in Nat
        /\ UNCHANGED <<hasVad, vad, said, speech, next, cache, clock, failed, fresh, tokens, final>>
    BY BatchesAssumption DEF AcceptAudio, decoding
  <1>2. /\ Typed /\ Typed' /\ next <= Len(fed) /\ fresh = <<>> /\ speech = <<>>
    BY <1>1 DEF IInv, DecoderInv, Between
  <1>3. /\ Len(fed) \in Nat /\ Len(tokens) \in Nat /\ next \in Nat /\ Len(said) \in Nat
        /\ heard \in Nat /\ Len(fed') \in Nat /\ Len(fresh) = 0 /\ Len(speech) = 0
    BY <1>2, Lengths, EmptySeq
  <1>4. Begins
    BY <1>1 DEF AcceptAudio, Begins
  <1>5. call' = [seen |-> Seen, failed |-> failed, finished |-> finished,
                 windows |-> Len(said), audio |-> heard]
    BY <1>4 DEF CallNext
  <1>6. /\ call'.seen = Seen /\ call'.failed = failed /\ call'.finished = finished
        /\ call'.windows = Len(said) /\ call'.audio = heard
        /\ Seen.speech = Now /\ Seen.fed = Len(fed) /\ Seen.buffer = Len(fed) - next
        /\ Seen.text = Len(tokens)
        /\ Seen \in [speech : BOOLEAN, fed : Nat, buffer : Nat, text : Nat]
    BY <1>4, <1>5, CallBegins
  <1>7. CallTyped'
    BY <1>1, <1>3, <1>6 DEF CallTyped
  <1>8. Now' = Now /\ (~hasVad => ~Now) /\ Now \in BOOLEAN
    BY <1>1 DEF Now, CallInv
  <1>9. CASE hasVad
    <2>1. pc' = "vad" /\ wasSpeech' = Now /\ UNCHANGED <<fed, finished>>
      BY <1>9 DEF AcceptAudio, extractor, Now
    <2>2. Judged' = 0
      <3>1. Judged' = Window * (Len(said) - Len(said))
        BY <1>1, <1>6, <1>9 DEF Judged
      <3>2. QED
        BY <1>3, <3>1, Sizes
    <2>3. Says(Len(speech))'
      BY <1>1, <1>3, <1>6, <1>8, <2>2 DEF Says
    <2>4. Still'
      BY <1>1, <1>6, <2>1 DEF Still
    <2>5. QED
      BY <1>1, <1>6, <1>7, <1>8, <1>9, <2>1, <2>3, <2>4 DEF CallInv
  <1>10. CASE ~hasVad
    <2>1. pc' = "frames" /\ Feed(samples) /\ finished' = finished
      BY <1>10 DEF AcceptAudio, Feed
    <2>2. samples \in Seq(Units) /\ Len(samples) = n
      <3>1. samples \in [1 .. n -> Units]
        BY <1>1, <1>3, Sizes DEF Units
      <3>2. samples \in Seq(Units)
        BY <1>1, <3>1, SeqDef
      <3>3. QED
        BY <1>1, <3>1, <3>2, LenProperties
    <2>3. Judged' = n
      <3>1. Judged' = (heard + n) - heard
        BY <1>1, <1>6, <1>10 DEF Judged
      <3>2. QED
        BY <1>1, <1>3, <3>1
    <2> HIDE DEF samples
    <2>4. PICK taken \in {0, n} : Len(fed') = Len(fed) + taken /\ (finished \/ taken = n)
      <3>1. Len(fed') = Len(fed) + n \/ (finished /\ Len(fed') = Len(fed) + 0)
        BY <1>1, <1>2, <1>3, <2>1, <2>2, FeedLengths
      <3>2. QED
        BY <3>1
    <2>5. Says(n)'
      BY <1>1, <1>6, <1>8, <1>10, <2>3 DEF Says
    <2>6. Took(taken)'
      <3>1. /\ Len(fed') = call'.seen.fed + taken
            /\ Len(fed') - next = call'.seen.buffer + taken
            /\ Len(tokens) + Len(fresh) = call'.seen.text
            /\ call'.seen.text \in Nat /\ taken \in Nat /\ call'.seen.buffer \in Nat
        BY <1>1, <1>2, <1>3, <1>6, <2>4
      <3>2. QED
        BY <1>1, <3>1 DEF Took
    <2>7. Advanced'
      <3>1. n \in 0 .. Judged' /\ taken \in {0, n} /\ (finished' \/ taken = n)
        BY <1>1, <2>1, <2>3, <2>4
      <3>2. QED
        BY <2>5, <2>6, <3>1 DEF Advanced
    <2>8. QED
      BY <1>1, <1>6, <1>7, <1>8, <1>10, <2>1, <2>7 DEF CallInv
  <1>11. QED
    BY <1>9, <1>10

LEMMA CallFlushCall ==
  ASSUME IInv, CallInv, CallFlush, CallNext
  PROVE  CallInv'
  <1>1. /\ pc = "idle" /\ pc' = "flush" /\ auto' = FALSE
        /\ UNCHANGED <<hasVad, vad, said, heard, fed, finished, next, failed, tokens>>
    BY DEF CallFlush, detector, extractor, decoding
  <1>2. Begins
    BY <1>1 DEF Begins
  <1>3. call' = [seen |-> Seen, failed |-> failed, finished |-> finished,
                 windows |-> Len(said), audio |-> heard]
    BY <1>2 DEF CallNext
  <1>4. /\ call'.seen = Seen /\ call'.failed = failed /\ call'.finished = finished
        /\ call'.windows = Len(said) /\ call'.audio = heard
        /\ Seen.speech = Now /\ Seen.fed = Len(fed) /\ Seen.buffer = Len(fed) - next
        /\ Seen.text = Len(tokens)
        /\ Seen \in [speech : BOOLEAN, fed : Nat, buffer : Nat, text : Nat]
    BY <1>2, <1>3, CallBegins
  <1>5. Len(said) \in Nat /\ heard \in Nat
    BY Lengths DEF IInv, DecoderInv
  <1>6. CallTyped'
    BY <1>1, <1>4, <1>5 DEF CallTyped
  <1>7. Now' = Now /\ (~hasVad => ~Now)
    BY <1>1 DEF Now, CallInv
  <1>8. Still'
    BY <1>1, <1>4 DEF Still
  <1>9. QED
    BY <1>1, <1>4, <1>6, <1>7, <1>8 DEF CallInv

(* One more window judged, passed on or not.                               *)
LEMMA WindowJudged ==
  ASSUME NEW j \in Nat, NEW s \in Nat, s <= j, NEW w \in Nat \ {0}
  PROVE  /\ s + w \in 0 .. (j + w) /\ s + w > 0 /\ j + w # 0
         /\ s \in 0 .. (j + w) /\ s < j + w
  OBVIOUS

(* The detector judges one more window.                                    *)
LEMMA VadWindowCall ==
  ASSUME IInv, CallInv, NEW verdict \in Verdicts, VadWindow(verdict), CallNext
  PROVE  CallInv'
  <1>1. /\ pc = "vad" /\ Len(buffer) >= Window /\ said' = Append(said, verdict)
        /\ speech' = IF vad'.state = "speech" THEN speech \o SubSeq(buffer, 1, Window) ELSE speech
        /\ UNCHANGED <<pc, auto, hasVad, wasSpeech, fed, finished, next, failed, fresh, tokens, heard>>
    BY DEF VadWindow, extractor, decoding
  <1>2. /\ Typed /\ hasVad
    BY <1>1 DEF IInv, DecoderInv, Between
  <1>3. call' = call
    BY <1>1 DEF CallNext, Begins, Returns
  <1>4. /\ CallTyped /\ call.failed = failed /\ call.finished = finished
        /\ (wasSpeech <=> call.seen.speech) /\ Still /\ Says(Len(speech))
    BY <1>1 DEF CallInv
  <1>5. /\ Judged \in Nat /\ Judged = Window * (Len(said) - call.windows)
        /\ Len(said) \in Nat /\ call.windows \in Nat
    BY <1>2, <1>4, Judgement
  <1>6. Len(said') = Len(said) + 1
    BY <1>1, <1>2, AppendProperties DEF Typed
  <1>7. Judged' = Judged + Window
    <2>1. Judged' = Window * (Len(said') - call.windows)
      BY <1>1, <1>2, <1>3 DEF Judged
    <2>2. \A w, k \in Int : w * (k + 1) = w * k + w
      OBVIOUS
    <2>3. /\ Len(said) - call.windows \in Int
          /\ Len(said') - call.windows = (Len(said) - call.windows) + 1
      BY <1>5, <1>6
    <2>4. QED
      BY <1>5, <2>1, <2>2, <2>3, Sizes
  <1>8. CallTyped'
    BY <1>1, <1>3, <1>4, <1>5, <1>6 DEF CallTyped
  <1>9. Says(Len(speech))'
    <2>1. Len(speech) \in Nat /\ Window \in Nat \ {0} /\ Len(buffer) \in Nat
      BY <1>2, Lengths, Sizes
    <2>2. Len(speech') = IF Now' THEN Len(speech) + Window ELSE Len(speech)
      <3>1. speech \in Seq(Units) /\ buffer \in Seq(Units)
        BY <1>2 DEF Typed
      <3>2. SubSeq(buffer, 1, Window) \in Seq(Units) /\ Len(SubSeq(buffer, 1, Window)) = Window
        BY <1>1, <2>1, <3>1, SubSeqProperties
      <3>3. Len(speech \o SubSeq(buffer, 1, Window)) = Len(speech) + Window
        BY <3>1, <3>2, ConcatProperties
      <3>4. QED
        BY <1>1, <3>3 DEF Now
    <2>3. Len(speech) <= Judged
      BY <1>4, <1>5, <2>1 DEF Says
    <2>4. CASE Now'
      <3>1. Len(speech') = Len(speech) + Window
        BY <2>2, <2>4
      <3>2. Len(speech') \in 0 .. Judged' /\ Len(speech') > 0 /\ Judged' # 0
        <4>1. /\ Len(speech) + Window \in 0 .. (Judged + Window) /\ Len(speech) + Window > 0
              /\ Judged + Window # 0
          BY <1>5, <2>1, <2>3, WindowJudged
        <4>2. QED
          BY <1>7, <3>1, <4>1
      <3>3. QED
        BY <2>4, <3>2 DEF Says
    <2>5. CASE ~Now'
      <3>1. Len(speech') = Len(speech)
        BY <2>2, <2>5
      <3>2. Len(speech') \in 0 .. Judged' /\ Len(speech') < Judged' /\ Judged' # 0
        <4>1. /\ Len(speech) \in 0 .. (Judged + Window) /\ Len(speech) < Judged + Window
              /\ Judged + Window # 0
          BY <1>5, <2>1, <2>3, WindowJudged
        <4>2. QED
          BY <1>7, <3>1, <4>1
      <3>3. QED
        BY <2>5, <3>2 DEF Says
    <2>6. QED
      BY <2>4, <2>5
  <1>10. Still'
    BY <1>1, <1>3, <1>4 DEF Still
  <1>11. QED
    BY <1>1, <1>2, <1>3, <1>4, <1>8, <1>9, <1>10 DEF CallInv

(* What passed reaches the extractor, unless that was told it is finished. *)
LEMMA VadDoneCall ==
  ASSUME IInv, CallInv, VadDone, CallNext
  PROVE  CallInv'
  <1>1. /\ pc = "vad" /\ pc' = "frames" /\ finished' = finished
        /\ UNCHANGED <<auto, hasVad, vad, said, wasSpeech, next, failed, fresh, tokens, heard>>
    BY DEF VadDone, Feed, extractor, detector, decoding
  <1>2. Typed /\ next <= Len(fed) /\ fresh = <<>> /\ hasVad
    BY <1>1 DEF IInv, DecoderInv, Between
  <1>3. call' = call
    BY <1>1 DEF CallNext, Begins, Returns
  <1>4. /\ CallTyped /\ call.failed = failed /\ call.finished = finished
        /\ (wasSpeech <=> call.seen.speech) /\ Still /\ Says(Len(speech))
    BY <1>1 DEF CallInv
  <1>5. /\ Len(fed) \in Nat /\ Len(tokens) \in Nat /\ Len(fresh) = 0 /\ next \in Nat
        /\ Len(speech) \in Nat
    BY <1>2, Lengths, EmptySeq
  <1>6. PICK h \in 0 .. Judged : h = Len(speech) /\ Says(h)
    BY <1>4 DEF Says
  <1>7. PICK taken \in {0, h} : Len(fed') = Len(fed) + taken /\ (finished \/ taken = h)
    <2>1. CASE speech = <<>>
      <3>1. fed' = fed /\ h = 0
        BY <1>6, <2>1, EmptySeq DEF VadDone, extractor
      <3>2. QED
        BY <1>5, <3>1
    <2>2. CASE speech # <<>>
      <3>1. Feed(speech) /\ speech \in Seq(Units)
        BY <1>2, <2>2 DEF VadDone, Typed
      <3>2. Len(fed') = Len(fed) + h \/ (finished /\ Len(fed') = Len(fed) + 0)
        BY <1>2, <1>5, <1>6, <3>1, FeedLengths
      <3>3. QED
        BY <3>2
    <2>3. QED
      BY <2>1, <2>2
  <1>8. Judged' = Judged /\ Now' = Now /\ CallTyped'
    BY <1>1, <1>3, <1>4 DEF Judged, Now, CallTyped
  <1>9. Says(h)'
    BY <1>3, <1>8, <1>6 DEF Says
  <1>10. Took(taken)'
    <2>1. /\ Len(fed') = call'.seen.fed + taken
          /\ Len(fed') - next = call'.seen.buffer + taken
          /\ Len(tokens) + Len(fresh) = call'.seen.text
          /\ call'.seen.text \in Nat /\ taken \in Nat /\ call'.seen.buffer \in Nat
      BY <1>2, <1>3, <1>4, <1>5, <1>7, <1>6 DEF Still, CallTyped
    <2>2. QED
      BY <1>1, <2>1 DEF Took
  <1>11. Advanced'
    BY <1>1, <1>7, <1>8, <1>9, <1>10 DEF Advanced
  <1>12. QED
    BY <1>1, <1>2, <1>3, <1>4, <1>8, <1>11 DEF CallInv, Still

(* A chunk is decoded, or fails and ends the call.                         *)
LEMMA DecodeReadyCall ==
  ASSUME IInv, CallInv, DecodeReady, CallNext
  PROVE  CallInv'
  <1>1. /\ pc = "frames" /\ Len(fed) >= next + ChunkFrames /\ next' = next + ChunkShift
        /\ UNCHANGED <<auto, hasVad, vad, said, wasSpeech, fed, finished, tokens, heard>>
    BY DEF DecodeReady, FramesReady, detector, extractor
  <1>2. Typed
    BY DEF IInv, DecoderInv
  <1>3. /\ Len(fed) \in Nat /\ Len(tokens) \in Nat /\ Len(fresh) \in Nat /\ next \in Nat
    BY <1>2, Lengths
  <1>4. Now' = Now /\ (~hasVad => ~Now)
    BY <1>1 DEF Now, CallInv
  <1>5. CASE pc' = "idle"
    BY <1>1, <1>4, <1>5 DEF CallInv
  <1>6. CASE ChunkDecoded /\ fresh' = fresh \o Emitted /\ UNCHANGED pc
    <2>1. call' = call /\ failed' = failed
      BY <1>1, <1>6 DEF CallNext, Begins, Returns, ChunkDecoded
    <2>2. /\ CallTyped /\ call.failed = failed /\ call.finished = finished
          /\ (call.seen.speech <=> hasVad /\ wasSpeech) /\ Advanced
          /\ Len(tokens) = call.seen.text
      BY <1>1 DEF CallInv
    <2>3. Judged' = Judged /\ CallTyped'
      BY <1>1, <2>1, <2>2 DEF Judged, CallTyped
    <2>4. Len(fresh') = Len(fresh) + ChunkShift
      <3>1. next < Len(fed) /\ Least(ChunkShift, Len(fed) - next) = ChunkShift
        BY <1>1, <1>3, Sizes DEF Least
      <3>2. Emitted \in Seq(TokenType) /\ Len(Emitted) = ChunkShift /\ fresh \in Seq(TokenType)
        BY <1>2, <3>1, EmittedFacts DEF Typed
      <3>3. QED
        BY <1>6, <3>2, ConcatProperties
    <2>5. PICK h \in 0 .. Judged : \E taken \in {0, h} :
            Says(h) /\ Took(taken) /\ (finished \/ taken = h)
      BY <2>2 DEF Advanced
    <2>6. PICK taken \in {0, h} : Says(h) /\ Took(taken) /\ (finished \/ taken = h)
      BY <2>5
    <2>7. Says(h)'
      BY <1>4, <2>1, <2>3, <2>6 DEF Says
    <2>8. Took(taken)'
      <3>1. /\ call.seen.text \in Nat /\ call.seen.buffer \in Nat /\ call.seen.fed \in Nat
            /\ taken \in Nat /\ ChunkShift \in Nat
        <4>1. Judged \in Nat
          BY <1>2, <2>2, Judgement
        <4>2. QED
          BY <2>2, <2>5, <2>6, <4>1, Sizes DEF CallTyped
      <3>2. /\ Len(fed) = call.seen.fed + taken
            /\ Len(fed) - next <= call.seen.buffer + taken
            /\ Len(tokens) + Len(fresh) = call.seen.text + (call.seen.buffer + taken) - (Len(fed) - next)
        BY <2>6 DEF Took
      <3>3. /\ next' = next + ChunkShift /\ next + ChunkShift \in Nat
            /\ Len(tokens) + Len(fresh') = Len(tokens) + Len(fresh) + ChunkShift
        BY <1>1, <1>3, <2>4, <3>1
      <3>5. /\ Len(fed) - next' <= call.seen.buffer + taken
            /\ Len(tokens) + Len(fresh')
                 = call.seen.text + (call.seen.buffer + taken) - (Len(fed) - next')
        <4> DEFINE all == call.seen.buffer + taken
                   done == Len(tokens) + Len(fresh)
        <4>1. all \in Nat /\ done \in Nat /\ Len(fed) - next <= all
              /\ done = call.seen.text + all - (Len(fed) - next)
          <5>1. all \in Nat /\ done \in Nat
            BY <1>3, <3>1
          <5>2. QED
            BY <3>2, <5>1
        <4>2. Len(tokens) + Len(fresh') = done + ChunkShift
          BY <3>3
        <4> HIDE DEF all, done
        <4>3. /\ Len(fed) - (next + ChunkShift) <= all
              /\ done + ChunkShift = call.seen.text + all - (Len(fed) - (next + ChunkShift))
          <5> DEFINE f == Len(fed)
                     text == call.seen.text
          <5>1. /\ f \in Nat /\ text \in Nat /\ next \in Nat /\ ChunkShift \in Nat
                /\ f - next <= all /\ done = text + all - (f - next)
            BY <1>3, <3>1, <4>1
          <5> DEFINE left == f - next
          <5> HIDE DEF f, text
          <5>2. f - (next + ChunkShift) = left - ChunkShift /\ left \in Int
            BY <5>1
          <5> HIDE DEF left
          <5>3. left <= all /\ done = text + (all - left)
            BY <5>1 DEF left
          <5>a. \A x, l \in Int : \A y \in Nat : l <= x => l - y <= x
            OBVIOUS
          <5>b. \A t, x, l, y \in Int : (t + (x - l)) + y = t + (x - (l - y))
            OBVIOUS
          <5>4. left - ChunkShift <= all /\ done + ChunkShift = text + (all - (left - ChunkShift))
            <6>1. left - ChunkShift <= all
              BY <4>1, <5>1, <5>2, <5>3, <5>a
            <6>2. (text + (all - left)) + ChunkShift = text + (all - (left - ChunkShift))
              BY <4>1, <5>1, <5>2, <5>b
            <6>3. QED
              BY <5>3, <6>1, <6>2
          <5>5. /\ f - (next + ChunkShift) <= all
                /\ done + ChunkShift = text + (all - (f - (next + ChunkShift)))
            BY <5>2, <5>4
          <5>6. QED
            BY <5>5 DEF f, text
        <4>4. QED
          BY <3>3, <4>2, <4>3 DEF all
      <3>4. QED
        BY <1>1, <2>1, <3>2, <3>3, <3>5 DEF Took
    <2>9. Advanced'
      BY <1>1, <2>3, <2>6, <2>7, <2>8 DEF Advanced
    <2>10. QED
      BY <1>1, <1>4, <1>6, <2>1, <2>2, <2>3, <2>9 DEF CallInv
  <1>7. QED
    BY <1>5, <1>6 DEF DecodeReady

(* The last chunk was decoded: the call returns or flushes the utterance.  *)
LEMMA FramesDoneCall ==
  ASSUME IInv, CallInv, FramesDone, CallNext
  PROVE  CallInv'
  <1>1. /\ pc = "frames" /\ tokens' = tokens \o fresh /\ fresh' = <<>>
        /\ UNCHANGED <<hasVad, vad, said, wasSpeech, fed, finished, next, failed, heard>>
    BY DEF FramesDone, detector, extractor, decoding
  <1>2. Typed
    BY DEF IInv, DecoderInv
  <1>3. Now' = Now /\ (~hasVad => ~Now)
    BY <1>1 DEF Now, CallInv
  <1>4. CASE pc' = "idle"
    BY <1>1, <1>3, <1>4 DEF CallInv
  <1>5. CASE hasVad /\ wasSpeech /\ vad.state = "silence" /\ pc' = "flush" /\ auto' = TRUE
    <2>1. call' = call
      BY <1>1, <1>5 DEF CallNext, Begins, Returns
    <2>2. /\ CallTyped /\ call.failed = failed /\ call.finished = finished
          /\ (call.seen.speech <=> hasVad /\ wasSpeech) /\ Advanced
          /\ Len(tokens) = call.seen.text
      BY <1>1 DEF CallInv
    <2>3. Judged' = Judged /\ CallTyped'
      BY <1>1, <2>1, <2>2 DEF Judged, CallTyped
    <2>4. Len(tokens') + Len(fresh') = Len(tokens) + Len(fresh)
      <3>1. Len(tokens') = Len(tokens) + Len(fresh) /\ Len(fresh') = 0
        BY <1>1, <1>2, ConcatProperties, EmptySeq DEF Typed
      <3>2. QED
        BY <1>2, <3>1, Lengths
    <2>5. PICK h \in 0 .. Judged : \E taken \in {0, h} :
            Says(h) /\ Took(taken) /\ (finished \/ taken = h)
      BY <2>2 DEF Advanced
    <2>6. PICK taken \in {0, h} : Says(h) /\ Took(taken) /\ (finished \/ taken = h)
      BY <2>5
    <2>7. Says(h)'
      BY <1>3, <2>1, <2>3, <2>6 DEF Says
    <2>8. Took(taken)'
      BY <1>1, <2>1, <2>4, <2>6 DEF Took
    <2>9. Advanced'
      BY <1>1, <2>3, <2>6, <2>7, <2>8 DEF Advanced
    <2>10. ~Now
      BY <1>5 DEF Now
    <2>11. QED
      BY <1>1, <1>3, <1>5, <2>1, <2>2, <2>3, <2>9, <2>10 DEF CallInv
  <1>6. QED
    BY <1>4, <1>5 DEF FramesDone

(* A call that returns is over, and the pipeline is in speech only if it   *)
(* has a detector.                                                         *)
LEMMA FlushCall ==
  ASSUME CallInv, Flush
  PROVE  CallInv'
  <1>1. pc' \in {"idle", "panicked"} /\ hasVad' = hasVad
    BY DEF Flush, FlushNothing, FlushTrailing, FlushFails, FlushPanics
  <1>2. vad' = vad \/ vad' = QuietVad
    BY DEF Flush, FlushNothing, FlushTrailing, FlushFails, FlushPanics, HandOver, Restart, detector
  <1>3. ~hasVad => ~Now'
    BY <1>2 DEF CallInv, Now, QuietVad
  <1>4. QED
    BY <1>1, <1>3 DEF CallInv

LEMMA BetweenCalls ==
  ASSUME CallInv, Reset \/ TakeFinalText
  PROVE  CallInv'
  <1>1. pc' = "idle" /\ hasVad' = hasVad /\ (vad' = vad \/ vad' = QuietVad)
    BY DEF Reset, TakeFinalText, Restart, detector
  <1>2. ~hasVad => ~Now'
    BY <1>1 DEF CallInv, Now, QuietVad
  <1>3. QED
    BY <1>1, <1>2 DEF CallInv

LEMMA InitCallInv == CallInit => CallInv
  BY DEF CallInit, Init, CallInv, Now, QuietVad

LEMMA NextCallInv == IInv /\ IInv' /\ CallInv /\ [CallNext]_callVars => CallInv'
  <1> SUFFICES ASSUME IInv, IInv', CallInv, [CallNext]_callVars PROVE CallInv'
    OBVIOUS
  <1>1. CASE UNCHANGED callVars
    <2>1. UNCHANGED <<pc, auto, hasVad, vad, said, speech, wasSpeech, fed, finished, next,
                      failed, fresh, tokens, heard, call>>
      BY <1>1 DEF callVars, vars, detector, extractor, decoding
    <2>2. Judged' = Judged /\ Now' = Now /\ CallTyped' = CallTyped /\ Still' = Still
      BY <2>1 DEF Judged, Now, CallTyped, Still
    <2>3. /\ Says(Len(speech))' <=> Says(Len(speech))
          /\ \A h : Says(h)' <=> Says(h)
          /\ \A taken : Took(taken)' <=> Took(taken)
      BY <2>1, <2>2 DEF Says, Took
    <2>4. Advanced' <=> Advanced
      BY <2>1, <2>2, <2>3 DEF Advanced
    <2>5. QED
      BY <2>1, <2>2, <2>3, <2>4 DEF CallInv
  <1>2. CASE CallNext
    <2>1. Next
      BY <1>2 DEF CallNext
    <2>2. CASE \E n \in Batches : AcceptAudio(n)
      BY <1>2, <2>2, AcceptAudioCall
    <2>3. CASE \E verdict \in Verdicts : VadWindow(verdict)
      BY <1>2, <2>3, VadWindowCall
    <2>4. CASE VadDone
      BY <1>2, <2>4, VadDoneCall
    <2>5. CASE DecodeReady
      BY <1>2, <2>5, DecodeReadyCall
    <2>6. CASE FramesDone
      BY <1>2, <2>6, FramesDoneCall
    <2>7. CASE CallFlush
      BY <1>2, <2>7, CallFlushCall
    <2>8. CASE Flush
      BY <2>8, FlushCall
    <2>9. CASE Reset \/ TakeFinalText
      BY <2>9, BetweenCalls
    <2>10. QED
      BY <2>1, <2>2, <2>3, <2>4, <2>5, <2>6, <2>7, <2>8, <2>9 DEF Next
  <1>3. QED
    BY <1>1, <1>2

(* What the contract says, field by field.                                 *)
Pipelines == [speech : BOOLEAN, fed : Nat, buffer : Nat, text : Nat]

LEMMA PipelineEqual ==
  ASSUME NEW q \in Pipelines, NEW r \in Pipelines,
         q.speech = r.speech, q.fed = r.fed, q.buffer = r.buffer, q.text = r.text
  PROVE  q = r
  BY DEF Pipelines

LEMMA ResetFields ==
  ASSUME NEW r \in Pipelines
  PROVE  LET q == AfterReset(r) IN
         q \in Pipelines /\ q.speech = FALSE /\ q.fed = 0 /\ q.buffer = 0 /\ q.text = 0
  BY DEF AfterReset, Pipelines

LEMMA AcceptFields ==
  ASSUME NEW r \in Pipelines, NEW now \in BOOLEAN, NEW taken \in Nat,
         NEW rest \in 0 .. (r.buffer + taken), ~(r.speech /\ ~now)
  PROVE  LET q == AfterAccept(r, now, taken, rest) IN
         /\ q \in Pipelines /\ q.speech = now /\ q.fed = r.fed + taken /\ q.buffer = rest
         /\ q.text = r.text + r.buffer + taken - rest
  <1>1. rest \in Nat /\ r.fed + taken \in Nat /\ r.text + r.buffer + taken - rest \in Nat
    BY DEF Pipelines
  <1>2. QED
    BY <1>1 DEF AfterAccept, Pipelines

LEMMA FlushFields ==
  ASSUME NEW r \in Pipelines, NEW ahead \in Nat, ahead <= r.buffer
  PROVE  LET q == AfterFlush(r, ahead) IN
         /\ q \in Pipelines /\ q.speech = r.speech /\ q.fed = r.fed /\ q.buffer = r.buffer
         /\ q.text = r.text + r.buffer - ahead
  <1>1. r.text + r.buffer - ahead \in Nat
    BY DEF Pipelines
  <1>2. QED
    BY <1>1 DEF AfterFlush, Pipelines

LEMMA SeenFields ==
  ASSUME IInv
  PROVE  /\ Seen \in Pipelines /\ Seen.speech = Now /\ Seen.fed = Len(fed)
         /\ Seen.buffer = Len(fed) - next /\ Seen.text = Len(tokens)
  <1>1. /\ Len(fed) \in Nat /\ Len(tokens) \in Nat /\ Len(fed) - next \in Nat
    BY Lengths DEF IInv, DecoderInv, Between
  <1>2. QED
    BY <1>1 DEF Seen, Pipelines, Now

LEMMA SeenPrimed ==
  ASSUME IInv'
  PROVE  /\ Seen' \in Pipelines /\ Seen'.speech = Now' /\ Seen'.fed = Len(fed')
         /\ Seen'.buffer = Len(fed') - next' /\ Seen'.text = Len(tokens')
  <1>1. Typed' /\ next' <= Len(fed')
    BY DEF IInv, DecoderInv, Between
  <1>2. /\ Len(fed') \in Nat /\ Len(tokens') \in Nat /\ Len(fed') - next' \in Nat
    BY <1>1, LenProperties DEF Typed
  <1>3. QED
    BY <1>2 DEF Seen, Pipelines, Now

(* A reset, by the caller or after the end of an utterance.                *)
LEMMA RestartResets ==
  ASSUME IInv', Restart, NEW r \in Pipelines
  PROVE  Seen' = AfterReset(r)
  <1>1. fed' = <<>> /\ next' = 0 /\ tokens' = <<>> /\ vad' = QuietVad
    BY DEF Restart
  <1>2. Len(fed') = 0 /\ Len(tokens') = 0 /\ Len(fed') - next' = 0 /\ Now' = FALSE
    BY <1>1, EmptySeq DEF QuietVad, Now
  <1> DEFINE q == Seen'
             a == AfterReset(r)
  <1>3. q \in Pipelines /\ q.speech = FALSE /\ q.fed = 0 /\ q.buffer = 0 /\ q.text = 0
    BY <1>2, SeenPrimed
  <1>4. a \in Pipelines /\ a.speech = FALSE /\ a.fed = 0 /\ a.buffer = 0 /\ a.text = 0
    BY ResetFields
  <1> HIDE DEF q, a
  <1>5. q = a
    BY <1>3, <1>4, PipelineEqual
  <1>6. QED
    BY <1>5 DEF q, a

(* What the detector said and the extractor took is as agreed.             *)
LEMMA AdvancedAsAgreed ==
  ASSUME IInv, CallInv, pc \in {"frames", "flush"}, call.finished => call.failed
  PROVE  \E h \in Detected(call.seen.speech, Judged) : \E taken \in Taken(h.speech, call.failed) :
           h.now = Now /\ taken \in Nat /\ Took(taken)
  <1>1. /\ CallTyped /\ Typed /\ call.failed = failed /\ call.finished = finished
        /\ failed \in BOOLEAN /\ call.seen.speech \in BOOLEAN /\ Now \in BOOLEAN
    BY DEF CallInv, CallTyped, IInv, DecoderInv, Typed, Now
  <1>2. Judged \in Nat
    BY <1>1, Judgement
  <1>3. Advanced
    <2>1. CASE pc = "frames" \/ (pc = "flush" /\ auto)
      BY <2>1 DEF CallInv, Advanced
    <2>2. CASE pc = "flush" /\ ~auto
      <3>1. Still /\ (Now <=> call.seen.speech) /\ fresh = <<>>
        BY <2>2 DEF CallInv, IInv, DecoderInv, Between
      <3>2. /\ Len(fed) \in Nat /\ Len(tokens) \in Nat /\ Len(fresh) = 0
            /\ call.seen.buffer \in Nat /\ call.seen.text \in Nat
        BY <1>1, <3>1, Lengths, EmptySeq DEF CallTyped
      <3>3. Says(0) /\ Took(0)
        BY <1>2, <3>1, <3>2 DEF Says, Took, Still
      <3>4. 0 \in 0 .. Judged
        BY <1>2
      <3>5. QED
        BY <3>3, <3>4 DEF Advanced
    <2>3. QED
      BY <2>1, <2>2
  <1>4. PICK h \in 0 .. Judged : \E taken \in {0, h} :
          Says(h) /\ Took(taken) /\ (finished \/ taken = h)
    BY <1>3 DEF Advanced
  <1>5. PICK taken \in {0, h} : Says(h) /\ Took(taken) /\ (finished \/ taken = h)
    BY <1>4
  <1> DEFINE d == [speech |-> h, now |-> Now]
  <1>6. d \in Detected(call.seen.speech, Judged)
    BY <1>1, <1>5 DEF Detected, Says
  <1>7. taken \in Taken(d.speech, call.failed) /\ taken \in Nat
    BY <1>1, <1>2, <1>5 DEF Taken
  <1>8. QED
    BY <1>5, <1>6, <1>7

(* Of all frames those not left have their tokens.                         *)
LEMMA AllTranscribed ==
  ASSUME NEW all \in Nat, NEW left \in 0 .. all, NEW text \in Nat, NEW tokensNow \in Nat,
         NEW freshNow, freshNow = 0, tokensNow + freshNow = text + (all - left)
  PROVE  tokensNow - text \in 0 .. (all - left)
  OBVIOUS

(* Calls that return: with an error, from accept_audio, from flush.        *)
LEMMA FailedCall ==
  ASSUME IInv, IInv', CallInv, call.finished => call.failed,
         pc' = "idle", DecodeReady \/ FlushFails
  PROVE  FailedAsAgreed
  <1> DEFINE r == call.seen
             left == Len(fed') - next'
             more == Len(tokens') - call.seen.text
  <1>1. /\ pc \in {"frames", "flush"} /\ tokens' = tokens /\ fed' = fed /\ vad' = vad
        /\ next' \in {next, next + ChunkShift}
    BY DEF DecodeReady, FlushFails, detector, extractor
  <1>2. PICK h \in Detected(r.speech, Judged) : \E taken \in Taken(h.speech, call.failed) :
          h.now = Now /\ taken \in Nat /\ Took(taken)
    BY <1>1, AdvancedAsAgreed
  <1>3. PICK taken \in Taken(h.speech, call.failed) : h.now = Now /\ taken \in Nat /\ Took(taken)
    BY <1>2
  <1>4. /\ r \in [speech : BOOLEAN, fed : Nat, buffer : Nat, text : Nat]
        /\ r.fed \in Nat /\ r.buffer \in Nat /\ r.text \in Nat
    BY <1>1 DEF CallInv, CallTyped
  <1>5. /\ Len(fed) \in Nat /\ Len(tokens) \in Nat /\ Len(fresh) \in Nat /\ next \in Nat
        /\ next' \in Nat /\ next' <= Len(fed') /\ ChunkShift \in Nat
    BY Lengths, Sizes DEF IInv, DecoderInv, Between, Typed
  <1>6. left \in 0 .. (r.buffer + taken)
    <2>1. Len(fed) - next <= r.buffer + taken
      BY <1>3 DEF Took
    <2>2. left = Len(fed) - next'
      BY <1>1
    <2>3. next <= next' /\ next' <= Len(fed)
      BY <1>1, <1>5
    <2>4. Len(fed) - next' \in Nat /\ Len(fed) - next' <= Len(fed) - next
      BY <1>5, <2>3
    <2>5. left \in Nat /\ left <= Len(fed) - next
      BY <2>2, <2>4
    <2>6. r.buffer + taken \in Nat /\ Len(fed) - next \in Nat
      BY <1>3, <1>4, <1>5, <2>3
    <2> HIDE DEF left, r
    <2>7. left <= r.buffer + taken
      BY <2>1, <2>5, <2>6
    <2>8. QED
      BY <2>5, <2>6, <2>7
  <1>7. more \in 0 .. (r.buffer + taken - left)
    <2>1. CASE pc = "frames"
      <3>1. more = 0
        <4>1. Len(tokens) = call.seen.text
          BY <2>1 DEF CallInv
        <4>2. QED
          BY <1>1, <1>4, <4>1
      <3>2. QED
        BY <1>3, <1>4, <1>6, <3>1
    <2>2. CASE pc = "flush"
      <3>1. Len(fresh) = 0 /\ next' = next
        BY <2>2, EmptySeq DEF IInv, DecoderInv, Between, DecodeReady, FlushFails
      <3>2. Len(tokens) + Len(fresh) = r.text + (r.buffer + taken) - (Len(fed) - next)
        BY <1>3 DEF Took
      <3>3. left = Len(fed) - next /\ more = Len(tokens) - r.text
        BY <1>1, <3>1
      <3>4. r.text \in Nat /\ r.buffer + taken \in Nat /\ left \in 0 .. (r.buffer + taken)
        BY <1>3, <1>4, <1>6
      <3> DEFINE all == r.buffer + taken
      <3>5. all \in Nat /\ left \in 0 .. all
        BY <3>4
      <3>6. Len(tokens) + Len(fresh) = r.text + (all - left)
        BY <3>2, <3>3
      <3>7. more \in 0 .. (all - left)
        <4> HIDE DEF r, left, more, all
        <4>1. Len(tokens) - r.text \in 0 .. (all - left)
          BY <1>5, <3>1, <3>4, <3>5, <3>6, AllTranscribed
        <4>2. QED
          BY <3>3, <4>1
      <3>8. all - left = r.buffer + taken - left
        <4>1. r.buffer \in Int /\ taken \in Int /\ left \in Int
          BY <1>3, <1>4, <3>5
        <4> HIDE DEF r, left
        <4>2. QED
          BY <4>1
      <3> HIDE DEF left, more, all
      <3>9. QED
        BY <3>7, <3>8
    <2>3. QED
      BY <1>1, <2>1, <2>2
  <1>8. r \in Pipelines /\ left \in Nat /\ more \in Nat /\ h.now \in BOOLEAN
    BY <1>3, <1>4, <1>6, <1>7 DEF Pipelines, Now
  <1>9. /\ Seen' \in Pipelines /\ Seen'.speech = Now /\ Seen'.fed = r.fed + taken
        /\ Seen'.buffer = left /\ Seen'.text = r.text + more
    <2>1. Len(fed') = r.fed + taken
      BY <1>1, <1>3 DEF Took
    <2>2. Len(tokens') = r.text + more
      BY <1>1, <1>4, <1>5
    <2>3. /\ Seen' \in Pipelines /\ Seen'.speech = Now' /\ Seen'.fed = Len(fed')
          /\ Seen'.buffer = Len(fed') - next' /\ Seen'.text = Len(tokens')
      BY SeenPrimed
    <2>4. QED
      BY <1>1, <2>1, <2>2, <2>3 DEF Now
  <1> HIDE DEF left, more
  <1>10. Seen' = AfterFailure(r, h.now, taken, left, more)
    <2> DEFINE q == Seen'
               a == AfterFailure(r, h.now, taken, left, more)
    <2>1. /\ a \in Pipelines /\ a.speech = h.now /\ a.fed = r.fed + taken
          /\ a.buffer = left /\ a.text = r.text + more
      <3>1. /\ r \in Pipelines /\ h.now \in BOOLEAN /\ taken \in Nat
            /\ left \in Nat /\ more \in Nat
        BY <1>3, <1>8
      <3> DEFINE now == h.now
      <3>2. a = AfterFailure(r, now, taken, left, more) /\ now \in BOOLEAN
        BY <3>1
      <3> HIDE DEF r, a, now
      <3>3. /\ a \in Pipelines /\ a.speech = now /\ a.fed = r.fed + taken
            /\ a.buffer = left /\ a.text = r.text + more
        <4>1. r.fed + taken \in Nat /\ r.text + more \in Nat
          BY <3>1 DEF Pipelines
        <4>2. QED
          BY <3>1, <3>2, <4>1 DEF AfterFailure, Pipelines
      <3>4. QED
        BY <3>3 DEF now
    <2>2. q \in Pipelines /\ q.speech = a.speech /\ q.fed = a.fed /\ q.buffer = a.buffer
          /\ q.text = a.text
      BY <1>3, <1>9, <2>1
    <2> HIDE DEF q, a
    <2>3. q = a
      BY <2>1, <2>2, PipelineEqual
    <2>4. QED
      BY <2>3 DEF q, a
  <1>11. QED
    BY <1>2, <1>3, <1>6, <1>7, <1>10 DEF FailedAsAgreed

LEMMA AcceptedCall ==
  ASSUME IInv, IInv', CallInv, call.finished => call.failed,
         pc' = "idle", FramesDone \/ (auto /\ (FlushNothing \/ FlushTrailing))
  PROVE  AcceptedAsAgreed
  <1> DEFINE r == call.seen
  <1>1. pc \in {"frames", "flush"} /\ (pc = "flush" => auto)
    BY DEF FramesDone, FlushNothing, FlushTrailing
  <1>2. PICK h \in Detected(r.speech, Judged) : \E taken \in Taken(h.speech, call.failed) :
          h.now = Now /\ taken \in Nat /\ Took(taken)
    BY <1>1, AdvancedAsAgreed
  <1>3. PICK taken \in Taken(h.speech, call.failed) : h.now = Now /\ taken \in Nat /\ Took(taken)
    BY <1>2
  <1>4. /\ r \in [speech : BOOLEAN, fed : Nat, buffer : Nat, text : Nat]
        /\ r.fed \in Nat /\ r.buffer \in Nat /\ r.text \in Nat /\ r.speech \in BOOLEAN
    BY <1>1 DEF CallInv, CallTyped
  <1>5. PICK left \in 0 .. (r.buffer + taken) : Seen' = AfterAccept(r, h.now, taken, left)
    <2>1. CASE FramesDone
      <3> DEFINE left == Len(fed) - next
      <3>1. /\ pc = "frames" /\ tokens' = tokens \o fresh
            /\ UNCHANGED <<fed, next, vad>>
            /\ ~(hasVad /\ wasSpeech /\ vad.state = "silence")
        BY <2>1 DEF FramesDone, detector, extractor, decoding
      <3>2. ~(r.speech /\ ~h.now)
        <4>1. (r.speech <=> hasVad /\ wasSpeech) /\ Typed
          BY <3>1 DEF CallInv, IInv, DecoderInv
        <4>2. vad.state \in {"silence", "speech"}
          BY <4>1 DEF Typed
        <4>3. QED
          BY <1>3, <3>1, <4>1, <4>2 DEF Now
      <3>3. /\ Len(fed) \in Nat /\ Len(tokens) \in Nat /\ Len(fresh) \in Nat /\ next \in Nat
            /\ next <= Len(fed) /\ Len(tokens') = Len(tokens) + Len(fresh)
        BY <3>1, Lengths, ConcatProperties DEF IInv, DecoderInv, Between, Typed
      <3>4. left \in 0 .. (r.buffer + taken)
        <4>1. left <= r.buffer + taken
          BY <1>3 DEF Took
        <4>2. QED
          BY <1>3, <1>4, <3>3, <4>1
      <3>5. Len(tokens') = r.text + r.buffer + taken - left
        <4>1. Len(tokens) + Len(fresh) = r.text + (r.buffer + taken) - left
          BY <1>3 DEF Took
        <4>2. left \in Nat
          BY <3>3
        <4> HIDE DEF left
        <4>3. r.text + (r.buffer + taken) - left = r.text + r.buffer + taken - left
          BY <1>3, <1>4, <4>2
        <4>4. QED
          BY <3>3, <4>1, <4>3
      <3>6. /\ Seen' \in Pipelines /\ Seen'.speech = h.now /\ Seen'.fed = r.fed + taken
            /\ Seen'.buffer = left /\ Seen'.text = r.text + r.buffer + taken - left
        <4>1. Len(fed') = r.fed + taken
          BY <1>3, <3>1 DEF Took
        <4>2. /\ Seen' \in Pipelines /\ Seen'.speech = Now' /\ Seen'.fed = Len(fed')
              /\ Seen'.buffer = Len(fed') - next' /\ Seen'.text = Len(tokens')
          BY SeenPrimed
        <4>3. QED
          BY <1>3, <3>1, <3>5, <4>1, <4>2 DEF Now
      <3>7. r \in Pipelines /\ h.now \in BOOLEAN
        BY <1>3, <1>4 DEF Pipelines, Now
      <3> HIDE DEF left
      <3>8. Seen' = AfterAccept(r, h.now, taken, left)
        <4> DEFINE q == Seen'
                   a == AfterAccept(r, h.now, taken, left)
        <4>1. /\ a \in Pipelines /\ a.speech = h.now /\ a.fed = r.fed + taken
              /\ a.buffer = left /\ a.text = r.text + r.buffer + taken - left
          BY <1>3, <3>2, <3>4, <3>7, AcceptFields
        <4>2. q \in Pipelines /\ q.speech = a.speech /\ q.fed = a.fed /\ q.buffer = a.buffer
              /\ q.text = a.text
          BY <3>6, <4>1
        <4> HIDE DEF q, a
        <4>3. q = a
          BY <4>1, <4>2, PipelineEqual
        <4>4. QED
          BY <4>3 DEF q, a
      <3>9. QED
        BY <3>4, <3>8
    <2>2. CASE auto /\ (FlushNothing \/ FlushTrailing)
      <3>1. Restart /\ pc = "flush"
        BY <2>2 DEF FlushNothing, FlushTrailing, HandOver
      <3>2. r \in Pipelines
        BY <1>4 DEF Pipelines
      <3>3. r.speech /\ ~h.now
        BY <1>3, <2>2, <3>1 DEF CallInv
      <3>4. Seen' = AfterAccept(r, h.now, taken, 0)
        BY <3>1, <3>2, <3>3, RestartResets DEF AfterAccept
      <3>5. 0 \in 0 .. (r.buffer + taken)
        BY <1>3, <1>4
      <3>6. QED
        BY <3>4, <3>5
    <2>3. QED
      BY <2>1, <2>2
  <1>6. QED
    BY <1>2, <1>3, <1>5 DEF AcceptedAsAgreed

LEMMA FlushedCall ==
  ASSUME IInv, IInv', CallInv, ~auto, FlushNothing \/ FlushTrailing
  PROVE  FlushedAsAgreed
  <1> DEFINE r == call.seen
  <1>1. /\ pc = "flush" /\ UNCHANGED <<fed, next, vad>>
        /\ \/ Len(fed) - next <= 0 /\ tokens' = tokens
           \/ Len(fed) - next \in 1 .. ChunkFrames /\ tokens' = tokens \o Emitted
    BY DEF FlushNothing, FlushTrailing, HandOver, detector, Remaining, FramesReady
  <1>2. /\ r \in [speech : BOOLEAN, fed : Nat, buffer : Nat, text : Nat]
        /\ r.fed \in Nat /\ r.buffer \in Nat /\ r.text \in Nat
        /\ Still /\ (Now <=> r.speech) /\ r.speech \in BOOLEAN /\ Now \in BOOLEAN
    BY <1>1 DEF CallInv, CallTyped, Now
  <1>3. /\ Typed /\ Len(fed) \in Nat /\ Len(tokens) \in Nat /\ next \in Nat /\ next <= Len(fed)
        /\ ChunkShift \in Nat /\ ChunkFrames \in Nat /\ ChunkShift <= ChunkFrames
    BY Lengths, Sizes DEF IInv, DecoderInv, Between
  <1>4. PICK ahead \in 0 .. LookAhead :
          ahead <= r.buffer /\ Len(tokens') = r.text + r.buffer - ahead
    <2>1. CASE Len(fed) - next <= 0 /\ tokens' = tokens
      <3>1. r.buffer = 0 /\ Len(tokens') = r.text /\ 0 \in 0 .. LookAhead
        BY <1>2, <1>3, <2>1 DEF Still, LookAhead
      <3>2. r.text + r.buffer - 0 = r.text
        BY <1>2, <3>1
      <3>3. QED
        BY <1>2, <3>1, <3>2
    <2>2. CASE Len(fed) - next \in 1 .. ChunkFrames /\ tokens' = tokens \o Emitted
      <3> DEFINE n == Least(ChunkShift, Len(fed) - next)
                 ahead == r.buffer - n
      <3>1. Emitted \in Seq(TokenType) /\ Len(Emitted) = n /\ n \in Nat /\ n <= Len(fed) - next
        BY <1>3, <2>2, EmittedFacts
      <3>2. Len(tokens') = Len(tokens) + n
        <4>1. tokens \in Seq(TokenType)
          BY <1>3 DEF Typed
        <4>2. Len(tokens \o Emitted) = Len(tokens) + Len(Emitted)
          BY <3>1, <4>1, ConcatProperties
        <4>3. QED
          BY <2>2, <3>1, <4>2
      <3>3. n = ChunkShift \/ n = Len(fed) - next
        BY <1>3 DEF Least
      <3> HIDE DEF n
      <3>4. ahead \in 0 .. LookAhead /\ ahead <= r.buffer
        <4>1. Len(fed) - next = r.buffer
          BY <1>2 DEF Still
        <4>2. r.buffer \in 1 .. ChunkFrames /\ n <= r.buffer /\ (n = ChunkShift \/ n = r.buffer)
          BY <2>2, <3>1, <3>3, <4>1
        <4>3. LookAhead \in Nat /\ LookAhead = ChunkFrames - ChunkShift
          BY <1>3 DEF LookAhead
        <4> HIDE DEF r
        <4>4. r.buffer - n \in 0 .. LookAhead /\ r.buffer - n <= r.buffer
          BY <1>3, <3>1, <4>2, <4>3
        <4>5. QED
          BY <4>4
      <3>5. Len(tokens') = r.text + r.buffer - ahead
        BY <1>2, <1>3, <3>1, <3>2 DEF Still
      <3>6. QED
        BY <3>4, <3>5
    <2>3. QED
      BY <1>1, <2>1, <2>2
  <1>5. r \in Pipelines /\ ahead \in Nat /\ ahead <= r.buffer
    BY <1>2, <1>3, <1>4 DEF Pipelines, LookAhead
  <1>6. /\ Seen' \in Pipelines /\ Seen'.speech = r.speech /\ Seen'.fed = r.fed
        /\ Seen'.buffer = r.buffer /\ Seen'.text = r.text + r.buffer - ahead
    BY <1>1, <1>2, <1>4, SeenPrimed DEF Now, Still
  <1>7. Seen' = AfterFlush(r, ahead)
    BY <1>5, <1>6, FlushFields, PipelineEqual
  <1>8. QED
    BY <1>4, <1>7 DEF FlushedAsAgreed

(* What a step does, by the call it ends.                                  *)
LEMMA CallKeepsContract ==
  ASSUME IInv, IInv', CallInv, CallNext
  PROVE  /\ Returns /\ (call.finished => call.failed) =>
              IF ReturnsError THEN FailedAsAgreed
              ELSE IF FlushedByCaller THEN FlushedAsAgreed
              ELSE AcceptedAsAgreed
         /\ Reset => Seen' = AfterReset(Seen)
  <1>1. ASSUME Returns, call.finished => call.failed, ReturnsError
        PROVE  FailedAsAgreed
    BY <1>1, FailedCall DEF Returns, ReturnsError
  <1>2. ASSUME Returns, call.finished => call.failed, ~ReturnsError
        PROVE  IF FlushedByCaller THEN FlushedAsAgreed ELSE AcceptedAsAgreed
    <2>1. pc # "idle" /\ pc' = "idle"
      BY <1>2 DEF Returns
    <2>2. FramesDone \/ FlushNothing \/ FlushTrailing
      BY <1>2, <2>1 DEF CallNext, Next, AcceptAudio, VadWindow, VadDone, CallFlush, Reset,
                        TakeFinalText, Flush, FlushPanics, ReturnsError
    <2>3. CASE FlushedByCaller
      BY <2>2, <2>3, FlushedCall DEF FlushedByCaller, FramesDone
    <2>4. CASE ~FlushedByCaller
      <3>1. FramesDone \/ (auto /\ (FlushNothing \/ FlushTrailing))
        BY <2>2, <2>4 DEF FlushedByCaller, FlushNothing, FlushTrailing
      <3>2. AcceptedAsAgreed
        BY <1>2, <2>1, <3>1, AcceptedCall
      <3>3. QED
        BY <2>4, <3>2
    <2>5. QED
      BY <2>3, <2>4
  <1>3. ASSUME Reset PROVE Seen' = AfterReset(Seen)
    BY <1>3, SeenFields, RestartResets DEF Reset
  <1>4. QED
    BY <1>1, <1>2, <1>3

(***************************************************************************)
(* Every call does to the pipeline what WsV1Session takes a call to do:    *)
(* for any sizes of windows, chunks and batches, whatever the detector     *)
(* says, whichever inference fails (ws.rs:25-83, streaming_pipeline.rs:    *)
(* 95-140, 206-261).                                                       *)
(***************************************************************************)
THEOREM PipelineKeepsContract == CallSpec => CallsKeepContract
  <1>1. CallInit => IInv /\ CallInv
    BY InitIInv, InitCallInv DEF CallInit
  <1>2. IInv /\ CallInv /\ [CallNext]_callVars => IInv' /\ CallInv'
    <2>1. [CallNext]_callVars => [Next]_vars
      BY DEF CallNext, callVars
    <2>2. QED
      BY <2>1, NextIInv, NextCallInv
  <1>3. IInv /\ IInv' /\ CallInv /\ [CallNext]_callVars =>
          [/\ Returns /\ (call.finished => call.failed) =>
                IF ReturnsError THEN FailedAsAgreed
                ELSE IF FlushedByCaller THEN FlushedAsAgreed
                ELSE AcceptedAsAgreed
           /\ Reset => Seen' = AfterReset(Seen)]_callVars
    BY CallKeepsContract
  <1>4. QED
    BY <1>1, <1>2, <1>3, PTL DEF CallSpec, CallsKeepContract

=============================================================================
