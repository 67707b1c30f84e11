---------------------------- MODULE GreedyDecoder ----------------------------
(***************************************************************************)
(* Offline decoding: GreedyDecoder::decode_sample                          *)
(* (src/src/inference/decode.rs) as Engine::transcribe_batch               *)
(* (src/src/inference/engine.rs) runs it on each sample of a batch;        *)
(* transcribe_samples is the batch of one.  An encoded frame stands for    *)
(* the features that OfflineEncoder makes it of; what decoder and joiner   *)
(* predict is nondeterministic.                                            *)
(***************************************************************************)
EXTENDS OfflineEncoder, Sequences

CONSTANTS
  NMels,        (* features of a frame                                     *)
  ContextSize,
  MaxTokensPerStep,
  Vocabulary,   (* token ids                                               *)
  Blank,
  BatchSizes, FrameCounts       (* bounds: samples of a batch, frames of a *)
                                (* sample                                  *)

ASSUME DecoderAssumption ==
  /\ NMels \in Nat \ {0} /\ ContextSize \in Nat \ {0}
  /\ MaxTokensPerStep \in Nat /\ Blank \notin Vocabulary
  /\ BatchSizes \subseteq Nat \ {0} /\ FrameCounts \subseteq Nat \ {0}

VARIABLES
  frames,       (* how many frames each sample of the batch has            *)
  data,         (* the batch's tensor, flat                                *)
  frame,        (* the encoded frame the loop is at                        *)
  emitted,      (* tokens_this_step                                        *)
  context,
  tokens,       (* of the sample being decoded: id, start and end in       *)
                (* FRAME_SHIFT_S, and (history) the features decoded       *)
  results       (* of the samples before it                                *)

decodeVars == <<frames, data, frame, emitted, context, tokens, results>>

decoding == <<frame, emitted, context, tokens>>

DecodeInit ==
  /\ frames = <<>>
  /\ data = <<>>
  /\ frame = 1
  /\ emitted = 0
  /\ context = <<>>
  /\ tokens = <<>>
  /\ results = <<>>

-----------------------------------------------------------------------------
(* The tensor [batch, max_frames, n_mels] of a batch with ns frames each.  *)

Largest(ns) ==
  CHOOSE n \in {ns[b] : b \in DOMAIN ns} : \A b \in DOMAIN ns : ns[b] <= n
(* A feature is named by its sample, frame and index.                      *)
Features(ns) ==
  {c \in (1 .. Len(ns)) \X (1 .. Largest(ns)) \X (1 .. NMels) : c[2] <= ns[c[1]]}
Zero == <<0, 0, 0>>

(* Mutant: samples are laid out at their own lengths.                      *)
CellOwnStride(ns, c) == (c[1] - 1) * ns[c[1]] * NMels + (c[2] - 1) * NMels + c[3]
Cell(ns, c) == (c[1] - 1) * Largest(ns) * NMels + (c[2] - 1) * NMels + c[3]

Layout(ns) ==
  [i \in 1 .. Len(ns) * Largest(ns) * NMels |->
     IF \E c \in Features(ns) : Cell(ns, c) = i
     THEN CHOOSE c \in Features(ns) : Cell(ns, c) = i
     ELSE Zero]

(* encoded[[sample_idx, t, ..]]: the features of its frames, where the     *)
(* tensor's shape puts them in the flat data.                              *)
Encoded(b, f) ==
  [g \in 1 .. Subsampling |->
     LET row == (b - 1) * Largest(frames) + (f - 1) * Subsampling + g - 1 IN
     [m \in 1 .. NMels |-> data[row * NMels + m]]]

-----------------------------------------------------------------------------
Sample == Len(results) + 1
Decoding == Sample <= Len(frames)
Encodeds == EncodedFrames(frames[Sample])
InFrame == Decoding /\ frame <= Encodeds
BlankContext == [i \in 1 .. ContextSize |-> Blank]

StartBatch(ns) ==
  /\ frames = <<>>
  /\ frames' = ns
  /\ data' = Layout(ns)
  /\ results' = <<>>
  /\ frame' = 1 /\ emitted' = 0 /\ tokens' = <<>> /\ context' = BlankContext

Shifted(id) ==
  [i \in 1 .. ContextSize |-> IF i = ContextSize THEN id ELSE context[i + 1]]

(* The joiner predicts a token: the same frame is tried again.             *)
Emit(id) ==
  /\ InFrame /\ emitted < MaxTokensPerStep
  /\ context' = Shifted(id)
  /\ tokens' = Append(tokens, [id |-> id, start |-> frame - 1, end |-> frame,
                               heard |-> Encoded(Sample, frame)])
  /\ emitted' = emitted + 1
  /\ UNCHANGED <<frames, data, frame, results>>

(* It predicts a blank, or the frame has had its tokens.                   *)
NextFrame ==
  /\ InFrame
  /\ frame' = frame + 1
  /\ emitted' = 0
  /\ UNCHANGED <<frames, data, context, tokens, results>>

(* A token ends where the next begins, the last one with the last encoded  *)
(* frame, and none after the sample itself (end.min(duration_s)).          *)
Ends(maxT, duration) ==
  [j \in DOMAIN tokens |->
     [tokens[j] EXCEPT !.end =
        Least(IF j < Len(tokens) THEN tokens[j + 1].start ELSE maxT, duration)]]

FinishSample ==
  /\ Decoding /\ frame > Encodeds
  /\ \E duration \in Lasting(frames[Sample]) :
       results' = Append(results, Ends(Encodeds, duration))
  /\ frame' = 1 /\ emitted' = 0 /\ tokens' = <<>> /\ context' = BlankContext
  /\ UNCHANGED <<frames, data>>

(* The results are returned, or a model call failed and the batch with it. *)
BatchOver ==
  /\ frames # <<>>
  /\ Decoding => InFrame /\ emitted < MaxTokensPerStep
  /\ frames' = <<>> /\ data' = <<>> /\ results' = <<>>
  /\ frame' = 1 /\ emitted' = 0 /\ tokens' = <<>> /\ context' = <<>>

DecodeNext ==
  \/ \E n \in BatchSizes : \E ns \in [1 .. n -> FrameCounts] : StartBatch(ns)
  \/ \E id \in Vocabulary : Emit(id)
  \/ NextFrame \/ FinishSample \/ BatchOver
=============================================================================
