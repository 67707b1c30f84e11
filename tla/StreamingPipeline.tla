-------------------------- MODULE StreamingPipeline --------------------------
(***************************************************************************)
(* The end-to-end streaming pipeline (src/src/streaming_pipeline.rs) with  *)
(* its voice detector (src/src/vad.rs) and streaming encoder, driven by    *)
(* any sequence of calls the WebSocket, gRPC, C and command-line callers   *)
(* can make.                                                               *)
(*                                                                         *)
(* Audio is counted in frame shifts: the i-th unit a caller hands over is  *)
(* the number i and makes one feature frame.  A decoded token stands for   *)
(* what the decoder emits for one frame, [unit, at]: the audio it          *)
(* transcribes and its time stamp, a count of FRAME_SHIFT_S that goes up   *)
(* by one per encoded frame, of which there may be fewer than frames.      *)
(* What the detector says of a window, and whether an inference fails, is  *)
(* nondeterministic.                                                       *)
(***************************************************************************)
EXTENDS Integers, Sequences

CONSTANTS
  Window,       (* WINDOW_SIZE, the units of one detector window           *)
  ChunkFrames,  (* frames the encoder takes                                *)
  ChunkShift,   (* frames between chunks; the rest is look-ahead           *)
  EncodedFrames,(* encoder_out.shape()[1], what a chunk is encoded to      *)
  MinSpeech,    (* min_speech_frames                                       *)
  MinSilence,   (* min_silence_frames                                      *)
  Batches,      (* sizes of a call's samples                               *)
  MaxAudio,     (* bound of the model: audio of all calls                  *)
  MaxDecoded,   (* bound of the model: the caller flushes a stream as long
                   as it has decoded less                                  *)
  Nothing       (* no final text                                           *)

ASSUME SizesAssumption ==
  /\ {Window, ChunkShift, MinSpeech, MinSilence} \subseteq Nat \ {0}
  /\ ChunkFrames \in Nat /\ ChunkShift <= ChunkFrames
  /\ EncodedFrames \in 1 .. ChunkShift
ASSUME BatchesAssumption == Batches \subseteq Nat /\ {MaxAudio, MaxDecoded} \subseteq Nat

VARIABLES
  pc,           (* where the running call is                               *)
  auto,         (* flush was called by accept_audio, not by the caller     *)
  hasVad,       (* the pipeline was made with a detector                   *)
  vad,          (* StreamingVad: state and the two run counters            *)
  buffer,       (* StreamingVad.buffer                                     *)
  speech,       (* speech_samples of the running accept_audio              *)
  wasSpeech,    (* was_speech of the running accept_audio                  *)
  fed,          (* what the feature extractor was given, one frame each    *)
  finished,     (* input_finished was called on it                         *)
  next,         (* next_frame_idx                                          *)
  fresh,        (* new_tokens of process_ready_frames                      *)
  tokens,       (* all_tokens                                              *)
  cache,        (* what the encoder states and decoder_context have seen   *)
  clock,        (* global_time_offset                                      *)
  final,        (* last_final_text                                         *)
  heard,        (* history: units handed over                              *)
  said,         (* history: the detector's verdicts since its last reset   *)
  failed        (* history: an inference failed since the last reset       *)

detector == <<vad, buffer, said>>
decoding == <<next, cache, clock, failed>>
extractor == <<fed, finished>>
vars == <<pc, auto, hasVad, detector, speech, wasSpeech, extractor, decoding,
          fresh, tokens, final, heard>>

Verdicts == {"speech", "between", "silence"}
QuietVad == [state |-> "silence", highs |-> 0, lows |-> 0]

Least(a, b) == IF a <= b THEN a ELSE b

Init ==
  /\ pc = "idle" /\ auto = FALSE
  /\ hasVad \in BOOLEAN
  /\ vad = QuietVad /\ buffer = <<>> /\ said = <<>>
  /\ speech = <<>> /\ wasSpeech = FALSE
  /\ fed = <<>> /\ finished = FALSE
  /\ next = 0 /\ cache = <<>> /\ clock = 0 /\ failed = FALSE
  /\ fresh = <<>> /\ tokens = <<>> /\ final = Nothing
  /\ heard = 0

-----------------------------------------------------------------------------
(* Feature extraction.                                                     *)

(* OnlineFeature::accept_waveform.  Whether the extractor still takes audio
   after input_finished is its own matter.                                 *)
Feed(samples) ==
  /\ \/ fed' = fed \o samples
     \/ finished /\ fed' = fed
  /\ UNCHANGED finished

FramesReady == Len(fed)

-----------------------------------------------------------------------------
(* The detector.                                                           *)

(* One window is judged: MinSpeech loud windows in a row begin speech...    *)
InSilence(verdict) ==
  IF verdict # "speech" THEN [vad EXCEPT !.highs = 0]
  ELSE IF vad.highs + 1 < MinSpeech THEN [vad EXCEPT !.highs = @ + 1]
  ELSE [state |-> "speech", highs |-> 0, lows |-> 0]

(* Mutant: the count of quiet windows survives a louder one.               *)
InSpeechNoReset(verdict) ==
  IF verdict # "silence" THEN vad
  ELSE IF vad.lows + 1 < MinSilence THEN [vad EXCEPT !.lows = @ + 1]
  ELSE QuietVad

(* ...and MinSilence quiet ones in a row end it.                           *)
InSpeech(verdict) ==
  IF verdict # "silence" THEN [vad EXCEPT !.lows = 0]
  ELSE IF vad.lows + 1 < MinSilence THEN [vad EXCEPT !.lows = @ + 1]
  ELSE QuietVad

(* The turn of StreamingVad::process's loop; a failed inference counts as
   probability 0.  A window passes when the detector is in speech after it. *)
VadWindow(verdict) ==
  /\ pc = "vad" /\ Len(buffer) >= Window
  /\ vad' = IF vad.state = "silence" THEN InSilence(verdict)
                                     ELSE InSpeech(verdict)
  /\ said' = Append(said, verdict)
  /\ speech' = IF vad'.state = "speech"
               THEN speech \o SubSeq(buffer, 1, Window)
               ELSE speech
  /\ buffer' = SubSeq(buffer, Window + 1, Len(buffer))
  /\ UNCHANGED <<pc, auto, hasVad, wasSpeech, extractor, decoding, fresh,
                 tokens, final, heard>>

(* The end of process: accept_audio feeds what passed.                     *)
VadDone ==
  /\ pc = "vad" /\ Len(buffer) < Window
  /\ IF speech # <<>> THEN Feed(speech) ELSE UNCHANGED extractor
  /\ pc' = "frames" /\ speech' = <<>>
  /\ UNCHANGED <<auto, hasVad, detector, wasSpeech, decoding, fresh, tokens,
                 final, heard>>

-----------------------------------------------------------------------------
(* Decoding.                                                               *)

(* What one encoder chunk at next_frame_idx emits: a token for each of the
   ChunkShift frames it advances over (of the last chunk, those there are);
   the frames after them are look-ahead.  It is emitted at the encoded
   frame that the encoder made of it.                                      *)
EncodedAt(i) == ((i - 1) * EncodedFrames) \div ChunkShift

Emitted ==
  [i \in 1..Least(ChunkShift, FramesReady - next) |->
     [unit |-> fed[next + i], at |-> clock + EncodedAt(i)]]

Heard(toks) == [i \in 1..Len(toks) |-> toks[i].unit]

(* encode_chunk and decode_chunk both succeed.                             *)
ChunkDecoded ==
  /\ cache' = cache \o Heard(Emitted)
  /\ clock' = clock + EncodedFrames
  /\ UNCHANGED failed

(* One of them fails: the encoder before it stores its states, or the
   decoder after, in which case the encoder has moved on.                  *)
ChunkFailed ==
  /\ cache' \in {cache, cache \o Heard(Emitted)}
  /\ failed' = TRUE
  /\ UNCHANGED clock

(* Mutant: the next chunk starts behind this one's look-ahead.             *)
DecodeReadyWholeChunk ==
  /\ pc = "frames" /\ FramesReady >= next + ChunkFrames
  /\ next' = next + ChunkFrames
  /\ ChunkDecoded
  /\ fresh' = fresh \o Emitted
  /\ UNCHANGED <<pc, auto, hasVad, detector, speech, wasSpeech, extractor,
                 tokens, final, heard>>

(* A turn of process_ready_frames: next_frame_idx moves first.             *)
DecodeReady ==
  /\ pc = "frames" /\ FramesReady >= next + ChunkFrames
  /\ next' = next + ChunkShift
  /\ \/ /\ ChunkDecoded
        /\ fresh' = fresh \o Emitted
        /\ UNCHANGED pc
     \/ /\ ChunkFailed
        /\ fresh' = <<>> /\ pc' = "idle"
  /\ UNCHANGED <<auto, hasVad, detector, speech, wasSpeech, extractor, tokens,
                 final, heard>>

(* Mutant: "if" for "while", one chunk is decoded per call at most.         *)
FramesDoneEarly ==
  /\ pc = "frames"
  /\ FramesReady < next + ChunkFrames \/ fresh # <<>>
  /\ tokens' = tokens \o fresh /\ fresh' = <<>>
  /\ IF hasVad /\ wasSpeech /\ vad.state = "silence"
     THEN pc' = "flush" /\ auto' = TRUE
     ELSE pc' = "idle" /\ UNCHANGED auto
  /\ UNCHANGED <<hasVad, detector, speech, wasSpeech, extractor, decoding,
                 final, heard>>

(* Mutant: the batch need not have begun in speech.                        *)
FramesDoneAnySilence ==
  /\ pc = "frames" /\ FramesReady < next + ChunkFrames
  /\ tokens' = tokens \o fresh /\ fresh' = <<>>
  /\ IF hasVad /\ vad.state = "silence"
     THEN pc' = "flush" /\ auto' = TRUE
     ELSE pc' = "idle" /\ UNCHANGED auto
  /\ UNCHANGED <<hasVad, detector, speech, wasSpeech, extractor, decoding,
                 final, heard>>

(* The end of process_ready_frames; accept_audio returns the new tokens, or
   flushes first when the batch began in speech and ended in silence.      *)
FramesDone ==
  /\ pc = "frames" /\ FramesReady < next + ChunkFrames
  /\ tokens' = tokens \o fresh /\ fresh' = <<>>
  /\ IF hasVad /\ wasSpeech /\ vad.state = "silence"
     THEN pc' = "flush" /\ auto' = TRUE
     ELSE pc' = "idle" /\ UNCHANGED auto
  /\ UNCHANGED <<hasVad, detector, speech, wasSpeech, extractor, decoding,
                 final, heard>>

-----------------------------------------------------------------------------
(* The calls.                                                              *)

(* accept_audio                                                            *)
AcceptAudio(n) ==
  LET samples == [i \in 1..n |-> heard + i] IN
  /\ pc = "idle" /\ heard + n <= MaxAudio
  /\ heard' = heard + n
  /\ auto' = FALSE
  /\ IF hasVad
     THEN /\ pc' = "vad"
          /\ wasSpeech' = (vad.state = "speech")
          /\ buffer' = buffer \o samples
          /\ UNCHANGED extractor
     ELSE /\ pc' = "frames"
          /\ Feed(samples)
          /\ UNCHANGED <<wasSpeech, buffer>>
  /\ UNCHANGED <<hasVad, vad, said, speech, decoding, fresh, tokens, final>>

(* Mutant: the encoder keeps the states of the last utterance.             *)
RestartKeepsCache ==
  /\ clock' = 0 /\ next' = 0 /\ tokens' = <<>> /\ UNCHANGED cache
  /\ fed' = <<>> /\ finished' = FALSE
  /\ vad' = QuietVad /\ buffer' = <<>> /\ said' = <<>>
  /\ failed' = FALSE

(* reset: everything but the final text that waits to be taken.            *)
Restart ==
  /\ cache' = <<>> /\ clock' = 0 /\ next' = 0 /\ tokens' = <<>>
  /\ fed' = <<>> /\ finished' = FALSE
  /\ vad' = QuietVad /\ buffer' = <<>> /\ said' = <<>>
  /\ failed' = FALSE

Reset ==
  /\ pc = "idle"
  /\ Restart
  /\ UNCHANGED <<pc, auto, hasVad, speech, wasSpeech, fresh, final, heard>>

(* flush and flush_with_tokens, called by the caller.                      *)
CallFlush ==
  /\ pc = "idle" /\ Len(cache) < MaxDecoded
  /\ pc' = "flush" /\ auto' = FALSE
  /\ UNCHANGED <<hasVad, detector, speech, wasSpeech, extractor, decoding,
                 fresh, tokens, final, heard>>

(* Mutant: frames seen as look-ahead count as decoded.                     *)
RemainingPastLookAhead == FramesReady - (next + ChunkFrames - ChunkShift)

Remaining == FramesReady - next

(* What accept_audio does with the text of its flush; the caller of flush
   gets it returned.                                                       *)
HandOver(text) ==
  IF auto
  THEN final' = text /\ Restart
  ELSE /\ tokens' = text /\ finished' = TRUE
       /\ UNCHANGED <<final, fed, next, detector>>

(* No frame is left: the text is what was decoded.                         *)
FlushNothing ==
  /\ pc = "flush" /\ Remaining <= 0
  /\ pc' = "idle"
  /\ HandOver(tokens)
  /\ IF auto THEN TRUE ELSE UNCHANGED <<cache, clock, failed>>
  /\ UNCHANGED <<auto, hasVad, speech, wasSpeech, fresh, heard>>

(* The trailing frames are padded to one chunk and decoded; next_frame_idx
   stays.                                                                  *)
FlushTrailing ==
  /\ pc = "flush" /\ Remaining \in 1..ChunkFrames
  /\ pc' = "idle"
  /\ HandOver(tokens \o Emitted)
  /\ IF auto THEN TRUE ELSE ChunkDecoded
  /\ UNCHANGED <<auto, hasVad, speech, wasSpeech, fresh, heard>>

(* An inference of the flush fails; accept_audio returns before its reset. *)
FlushFails ==
  /\ pc = "flush" /\ Remaining \in 1..ChunkFrames
  /\ pc' = "idle"
  /\ ChunkFailed
  /\ finished' = TRUE
  /\ UNCHANGED <<auto, hasVad, detector, speech, wasSpeech, fed, next, fresh,
                 tokens, final, heard>>

(* More frames are left than a chunk holds: copying them into the padded
   chunk is out of bounds.                                                 *)
FlushPanics ==
  /\ pc = "flush" /\ Remaining > ChunkFrames
  /\ pc' = "panicked"
  /\ finished' = TRUE
  /\ UNCHANGED <<auto, hasVad, detector, speech, wasSpeech, fed,
                 decoding, fresh, tokens, final, heard>>

(* take_final_text                                                         *)
TakeFinalText ==
  /\ pc = "idle" /\ final # Nothing
  /\ final' = Nothing
  /\ UNCHANGED <<pc, auto, hasVad, detector, speech, wasSpeech, extractor,
                 decoding, fresh, tokens, heard>>

Flush == FlushNothing \/ FlushTrailing \/ FlushFails \/ FlushPanics

Next ==
  \/ \E n \in Batches : AcceptAudio(n)
  \/ \E verdict \in Verdicts : VadWindow(verdict)
  \/ VadDone \/ DecodeReady \/ FramesDone
  \/ CallFlush \/ Flush \/ Reset \/ TakeFinalText

Spec == Init /\ [][Next]_vars
=============================================================================
