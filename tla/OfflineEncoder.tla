---------------------------- MODULE OfflineEncoder ----------------------------
(***************************************************************************)
(* Time in offline transcription: the features of a sample                 *)
(* (src/src/inference/features.rs), the encoder over them                  *)
(* (src/src/encoder.rs), whose network is external, and the times that     *)
(* GreedyDecoder makes of its frames (src/src/inference/decode.rs).        *)
(***************************************************************************)
EXTENDS Integers

CONSTANTS
  FrameSamples, (* samples in FRAME_SHIFT_S (10 ms)                        *)
  Subsampling   (* frames that the network makes one encoded frame of      *)

ASSUME EncoderAssumption == FrameSamples \in Nat \ {0} /\ Subsampling \in Nat \ {0}

Least(a, b) == IF a < b THEN a ELSE b

(* How long, in whole frame shifts, a sample with n frames may be: frames  *)
(* are windows of 25 ms at every 10 ms; a sample shorter than one window   *)
(* is given a frame of zeroes.                                             *)
Lasting(n) == IF n = 1 THEN 0 .. 3 ELSE {n + 1, n + 2}

(* enc_lengths of a sample with n frames.                                  *)
EncodedFrames(n) == n \div Subsampling

(* The encoded frame, from 0, that a place in the sample falls into.       *)
FrameAt(place) == place \div (FrameSamples * Subsampling)

(* t as f64 * FRAME_SHIFT_S, in samples: an encoded frame counts as 10 ms. *)
TimeOf(t) == t * FrameSamples
=============================================================================
