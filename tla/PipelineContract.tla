--------------------------- MODULE PipelineContract ---------------------------
(***************************************************************************)
(* What one call of a streaming pipeline (src/src/streaming_pipeline.rs)   *)
(* does to it, in the terms of a session that owns it and cannot look      *)
(* inside: WsV1Session takes its pipeline for this, PipelineCalls says     *)
(* that StreamingPipeline is one.                                          *)
(*                                                                         *)
(* A session sees a pipeline as a record r with at least                   *)
(*   speech   the detector is in speech                                    *)
(*   fed      how much speech the feature extractor has                    *)
(*   buffer   how much of it was not decoded yet                           *)
(*   text     how much the tokens transcribe                               *)
(***************************************************************************)
EXTENDS Integers

(* What the detector can say of n units: how many it passes on and whether *)
(* speech goes on after them.  It passes on the unit that starts speech    *)
(* and not the one that ends it.  A pipeline without a detector passes on  *)
(* everything and is never in speech.                                      *)
Detected(was, n) ==
  {h \in [speech : 0..n, now : BOOLEAN] :
     /\ h.now /\ ~was => h.speech > 0
     /\ was /\ ~h.now => h.speech < n
     /\ n = 0 => h.now = was}

(* What the extractor takes of it: all, unless a flush that failed has told
   it that the input is finished.                                          *)
Taken(speech, failed) == IF failed THEN {0, speech} ELSE {speech}

AfterReset(r) ==
  [r EXCEPT !.speech = FALSE, !.fed = 0, !.buffer = 0, !.text = 0]

(* accept_audio: the speech is decoded as far as full chunks go, rest is    *)
(* left; the end of speech flushes and resets the pipeline.                *)
AfterAccept(r, now, taken, rest) ==
  IF r.speech /\ ~now THEN AfterReset(r)
  ELSE [r EXCEPT !.speech = now, !.fed = @ + taken, !.buffer = rest,
                 !.text = @ + r.buffer + taken - rest]

(* flush: the trailing frames are decoded, those ahead of the last chunk as *)
(* its look-ahead, and stay where they are.                                *)
AfterFlush(r, ahead) == [r EXCEPT !.text = @ + r.buffer - ahead]

(* A call that fails: frames it had begun with are not taken up again.     *)
(* Their tokens are lost, but for those in all_tokens before the flush of  *)
(* an ended utterance failed; the detector's state is kept.                *)
AfterFailure(r, now, taken, rest, more) ==
  [r EXCEPT !.speech = now, !.fed = @ + taken, !.buffer = rest, !.text = @ + more]
=============================================================================
