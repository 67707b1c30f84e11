----------------------- MODULE StreamingPipelineProps -----------------------
(***************************************************************************)
(* What must hold of the streaming pipeline and its voice detector.        *)
(***************************************************************************)
EXTENDS StreamingPipeline

Units == 1..MaxAudio
TokenType == [unit : Units, at : Nat]

TypeOK ==
  /\ pc \in {"idle", "vad", "frames", "flush", "panicked"}
  /\ {auto, hasVad, wasSpeech, finished, failed} \subseteq BOOLEAN
  /\ vad \in [state : {"silence", "speech"}, highs : Nat, lows : Nat]
  /\ vad.highs < MinSpeech /\ vad.lows < MinSilence
  /\ \A s \in {buffer, speech, fed, cache} : s \in Seq(Units)
  /\ said \in Seq(Verdicts)
  /\ {next, clock, heard} \subseteq Nat
  /\ {fresh, tokens} \subseteq Seq(TokenType)
  /\ final = Nothing \/ final \in Seq(TokenType)

(***************************************************************************)
(* What the detector lets through, said without its counters: a stretch of *)
(* verdicts ends in speech when it has a run of MinSpeech loud windows and *)
(* no run of MinSilence quiet ones after it.                               *)
(***************************************************************************)
RunOf(verdict, s, i, n) == i >= n /\ \A k \in (i - n + 1)..i : s[k] = verdict

EndsInSpeech(s) ==
  \E i \in 1..Len(s) :
    /\ RunOf("speech", s, i, MinSpeech)
    /\ \A j \in (i + MinSilence)..Len(s) : ~RunOf("silence", s, j, MinSilence)

UnitsOf(s) == {s[i] : i \in 1..Len(s)}

WindowUnits(k) ==
  LET start == heard - Len(buffer) - Window * (Len(said) - k + 1)
  IN  (start + 1)..(start + Window)

(***************************************************************************)
(* The detector's state is what its verdicts say, whatever runs were       *)
(* broken or split over batches, and the extractor gets every window that  *)
(* ends in speech and no other: the grace windows before a silence is      *)
(* confirmed, never the window that confirms it, nothing of before the     *)
(* last reset (vad.rs:278-330, 343-350; streaming_pipeline.rs:99-107).     *)
(***************************************************************************)
DetectorPassesSpeech ==
  hasVad =>
    /\ vad.state = "speech" <=> EndsInSpeech(said)
    /\ ~finished /\ pc # "panicked" =>
         UnitsOf(fed) \union UnitsOf(speech) =
           UNION {WindowUnits(k) :
                    k \in {w \in 1..Len(said) : EndsInSpeech(SubSeq(said, 1, w))}}

(***************************************************************************)
(* The chunks tile the frames: as long as no inference fails, the tokens   *)
(* so far transcribe exactly the frames before next_frame_idx, each once   *)
(* and in order, however the audio was cut into calls                      *)
(* (streaming_pipeline.rs:124-139).                                        *)
(***************************************************************************)
ChunksTile ==
  /\ TypeOK
  /\ ~failed /\ ~finished => Heard(tokens \o fresh) = SubSeq(fed, 1, next)

(***************************************************************************)
(* All that a chunk leaves behind belongs to the utterance it is part of.  *)
(* Time stamps never run backwards, not even after a failed chunk or a     *)
(* second flush, and without a failure they are the place of the frame     *)
(* among the encoded frames of the utterance, chunk by chunk; the caches   *)
(* (encoder states, decoder context) have seen exactly the audio of the    *)
(* tokens, nothing of an earlier utterance (streaming_pipeline.rs:182-194, *)
(* 249-261, streaming_encoder.rs:169-194).                                 *)
(***************************************************************************)
StateOfUtterance ==
  LET all == tokens \o fresh IN
  /\ \A i \in 1..Len(all) - 1 : all[i].at <= all[i + 1].at
  /\ ~failed /\ ~finished => \A i \in 1..Len(all) : all[i].at = EncodedAt(i)
  /\ ~failed => cache = Heard(all)

(***************************************************************************)
(* A flush leaves no frame out but look-ahead of the last chunk: the text  *)
(* it returns, or stores when the detector ended the utterance, is that of *)
(* the whole utterance from its first frame on.  Nor does it copy past the *)
(* end of the padded chunk as long as no inference fails: every call       *)
(* leaves fewer frames than a chunk behind                                 *)
(* (streaming_pipeline.rs:213-235, 111-115).                               *)
(***************************************************************************)
LookAhead == ChunkFrames - ChunkShift

FlushComplete ==
  LET text == IF auto THEN final' ELSE tokens' IN
  /\ Heard(text) = SubSeq(fed, 1, Len(text))
  /\ Len(fed) - Len(text) \in {0} \union 1..LookAhead - 1

NoPanic == pc = "panicked" => failed

FlushCoversUtterance ==
  [][pc = "flush" =>
       /\ NoPanic'
       /\ pc' = "idle" /\ ~failed /\ ~failed' /\ ~finished => FlushComplete]_vars
=============================================================================
