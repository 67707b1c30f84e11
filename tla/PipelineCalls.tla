---------------------------- MODULE PipelineCalls ----------------------------
(***************************************************************************)
(* StreamingPipeline with a history of the running call, to compare what a *)
(* call did when it returns with what PipelineContract says of it.         *)
(***************************************************************************)
EXTENDS StreamingPipelineProps, PipelineContract

VARIABLE call   (* history: the pipeline when the running call began        *)

callVars == <<vars, call>>

(* The pipeline as a session sees it.                                      *)
Seen ==
  [speech |-> vad.state = "speech", fed |-> Len(fed),
   buffer |-> Len(fed) - next, text |-> Len(tokens)]

Begins == pc = "idle" /\ pc' # "idle"
Returns == pc # "idle" /\ pc' = "idle"

CallInit == Init /\ call = Nothing

CallNext ==
  /\ Next
  /\ call' = IF Begins
             THEN [seen |-> Seen, failed |-> failed, finished |-> finished,
                   windows |-> Len(said), audio |-> heard]
             ELSE IF Returns THEN Nothing ELSE call

CallSpec == CallInit /\ [][CallNext]_callVars

(* How much audio the call judged: whole windows, or all without a detector.*)
Judged ==
  IF hasVad THEN Window * (Len(said) - call.windows) ELSE heard - call.audio

ReturnsError == DecodeReady \/ FlushFails
FlushedByCaller == pc = "flush" /\ ~auto

(* The call does what the contract says of one that fails...               *)
FailedAsAgreed ==
  LET r == call.seen IN
  \E h \in Detected(r.speech, Judged) : \E taken \in Taken(h.speech, call.failed) :
    \E rest \in 0..(r.buffer + taken) : \E more \in 0..(r.buffer + taken - rest) :
      Seen' = AfterFailure(r, h.now, taken, rest, more)

(* ...of a flush that succeeds...                                          *)
FlushedAsAgreed ==
  \E ahead \in 0..LookAhead :
    ahead <= call.seen.buffer /\ Seen' = AfterFlush(call.seen, ahead)

(* ...or of an accept_audio that does.                                     *)
AcceptedAsAgreed ==
  LET r == call.seen IN
  \E h \in Detected(r.speech, Judged) : \E taken \in Taken(h.speech, call.failed) :
    \E rest \in 0..(r.buffer + taken) :
      Seen' = AfterAccept(r, h.now, taken, rest)

(***************************************************************************)
(* Whatever its owner calls, with batches of any size, runs of any length, *)
(* an end of speech in the midst of a batch, a chunk or a flush that fails *)
(* or an utterance that goes on after it: when the call returns the        *)
(* pipeline has changed in one of the ways a session allows for            *)
(* (ws.rs:25-83, streaming_pipeline.rs:95-140, 206-261).  The calls of a   *)
(* session that flushed with success are the exception: it makes none.     *)
(***************************************************************************)
CallsKeepContract ==
  [][/\ Returns /\ (call.finished => call.failed) =>
          IF ReturnsError THEN FailedAsAgreed
          ELSE IF FlushedByCaller THEN FlushedAsAgreed
          ELSE AcceptedAsAgreed
     /\ Reset => Seen' = AfterReset(Seen)]_callVars
=============================================================================
