----------------------------- MODULE WsV1Session -----------------------------
(***************************************************************************)
(* The WebSocket handler of /v1/transcribe/stream (src/src/server/ws.rs,   *)
(* handle_v1_stream) with its two pipelines: "streaming" owns its encoder  *)
(* and runs on a blocking thread, "chunked" buffers what the voice         *)
(* detector passes on and borrows a session triplet per utterance.         *)
(* Connections share the admission semaphore and the session pool.         *)
(*                                                                         *)
(* Audio is counted in units, text by the units it transcribes.  What the  *)
(* voice detector says of a unit is nondeterministic.  What a call of the  *)
(* streaming pipeline may do is PipelineContract, which PipelineCalls says *)
(* of StreamingPipeline; its look-ahead counts as transcribed here.        *)
(***************************************************************************)
EXTENDS PipelineContract, FiniteSets

CONSTANTS
  Conns,        (* WebSocket connections                                   *)
  Requests,     (* other users of the pool (HTTP, gRPC)                    *)
  Items,        (* session triplets                                        *)
  Shelf, Gone,
  MaxConns,     (* max_ws_connections                                      *)
  MaxPending,   (* max_ws_audio_buffer_seconds                             *)
  MaxSpeech,    (* MAX_SPEECH_BUFFER_SECONDS of the chunked pipeline       *)
  Chunks,       (* sizes of a valid binary message                         *)
  MaxAudio      (* bound of the model: audio one connection sends          *)

ASSUME LimitsAssumption ==
  {MaxConns, MaxPending, MaxSpeech, MaxAudio} \subseteq Nat /\ MaxConns > 0
ASSUME ChunksAssumption == Chunks \subseteq Nat
ASSUME ConnsAssumption == IsFiniteSet(Conns)
ASSUME UsersAssumption ==
  /\ Conns \intersect Requests = {}
  /\ {Shelf, Gone} \intersect (Conns \union Requests) = {} /\ Shelf # Gone

VARIABLES
  conn,         (* what each connection's task and pipeline hold           *)
  permits,      (* free permits of ws_semaphore                            *)
  owner,        (* who has each triplet                                    *)
  asking,       (* requests the server has accepted that have none yet     *)
  shutdown      (* the CancellationToken                                   *)

vars == <<conn, permits, owner, asking, shutdown>>
shared == <<permits, owner, asking, shutdown>>
others == <<asking, shutdown>>

Lender == INSTANCE SessionLender
            WITH Clients <- Conns \union Requests, inService <- TRUE

(***************************************************************************)
(* phase   where the task is                                               *)
(* op      what the pipeline works for: "accept" a message or "flush"      *)
(* kind    the pipeline's variant                                          *)
(* gone    the streaming pipeline was not put back after a panic           *)
(* speech  the detector's state                                            *)
(* pending pending_samples                                                 *)
(* buffer  speech waiting for transcription; flight: speech at work        *)
(* text    speech that all_tokens transcribe                               *)
(* fed     history: speech passed on since the pipeline was reset, or the  *)
(*         peer last said Clear                                            *)
(* lost    history: the part of fed that a failed transcription had taken  *)
(* kept    history: speech of before that Clear that the chunked pipeline  *)
(*         goes on with all the same                                       *)
(* failed  history: an operation of the pipeline failed                    *)
(* ready   history: Ready was sent                                         *)
(* answers history: how many Final or flush_error messages were sent       *)
(* sent    bound of the model: audio received so far                       *)
(***************************************************************************)
Fresh ==
  [phase |-> "admit", op |-> "accept", kind |-> "chunked", gone |-> FALSE,
   speech |-> FALSE, pending |-> 0, buffer |-> 0, flight |-> 0, text |-> 0,
   fed |-> 0, lost |-> 0, kept |-> 0, failed |-> FALSE, ready |-> FALSE,
   answers |-> 0, sent |-> 0]

(* Where the task holds its permit: _permit lives to the end of it.        *)
Ended == {"denied", "done", "crashed", "killed"}
Served == {"build", "greet", "top", "recv", "refusing", "replying", "partial",
           "blocking", "checkout", "inferring", "flush", "finishing"}
Phases == {"admit"} \union Served \union Ended

Init ==
  /\ conn = [c \in Conns |-> Fresh]
  /\ permits = MaxConns
  /\ owner = [i \in Items |-> Shelf]
  /\ asking = {}
  /\ shutdown = FALSE

At(c, p) == conn[c].phase = p

(* The task goes on in phase p, its record otherwise as f says.            *)
Become(c, p, r) == conn' = [conn EXCEPT ![c] = [r EXCEPT !.phase = p]]
Goto(c, p) == Become(c, p, conn[c])

(* What is left of a connection when its task's locals are dropped.        *)
Dropped(r) == [Fresh EXCEPT !.ready = r.ready, !.gone = r.gone, !.answers = r.answers]

(* The task ends, and its permit goes.                                     *)
End(c, p, r) ==
  /\ Become(c, p, Dropped(r))
  /\ permits' = permits + 1

-----------------------------------------------------------------------------
(* Admission and the pipeline *)

(* Mutant: the permit is dropped as soon as it was acquired.               *)
AdmitDropsPermit(c) ==
  /\ At(c, "admit")
  /\ permits > 0
  /\ Goto(c, "build")
  /\ UNCHANGED shared

Admit(c) ==
  /\ At(c, "admit")
  /\ permits > 0
  /\ permits' = permits - 1
  /\ Goto(c, "build")
  /\ UNCHANGED <<owner, others>>

(* Five seconds without a permit: the peer is told and the task returns.   *)
AdmitTimeout(c) ==
  /\ At(c, "admit")
  /\ permits = 0
  /\ Goto(c, "denied")
  /\ UNCHANGED shared

(* The model's type selects the pipeline; loading it may fail.             *)
Build(c) ==
  /\ At(c, "build")
  /\ \/ /\ \E k \in {"streaming", "chunked"} :
             Become(c, "greet", [conn[c] EXCEPT !.kind = k])
        /\ UNCHANGED shared
     \/ End(c, "denied", conn[c]) /\ UNCHANGED <<owner, others>>

SendReady(c) ==
  /\ At(c, "greet")
  /\ \/ Become(c, "top", [conn[c] EXCEPT !.ready = TRUE]) /\ UNCHANGED shared
     \/ End(c, "denied", conn[c]) /\ UNCHANGED <<owner, others>>

-----------------------------------------------------------------------------
(* The loop *)

(* Mutant: the loop does not look at the cancellation token.               *)
LoopTopNoCheck(c) == At(c, "top") /\ Goto(c, "recv") /\ UNCHANGED shared

LoopTop(c) ==
  /\ At(c, "top")
  /\ Goto(c, IF shutdown THEN "flush" ELSE "recv")
  /\ UNCHANGED shared

(* The peer closes, disappears or sends too long a message, or the idle    *)
(* timeout fires.                                                          *)
RecvEnd(c) == At(c, "recv") /\ Goto(c, "flush") /\ UNCHANGED shared

(* Non-finite samples and an unsupported rate are answered with an error;  *)
(* other messages are ignored.                                             *)
RecvOther(c) ==
  /\ At(c, "recv")
  /\ \E p \in {"replying", "top"} : Goto(c, p)
  /\ UNCHANGED shared

(* An error reply is out, or was not deliverable; the loop goes on.  A     *)
(* Partial that is not deliverable ends it.                                *)
ReplyDone(c) ==
  /\ \/ At(c, "replying") /\ Goto(c, "top")
     \/ At(c, "partial") /\ \E p \in {"top", "flush"} : Goto(c, p)
  /\ UNCHANGED shared

(* pending_samples counts all audio since the last Clear, processed or not.*)
RecvTooMuch(c, n) ==
  /\ At(c, "recv")
  /\ conn[c].pending + n > MaxPending
  /\ Become(c, "refusing", [conn[c] EXCEPT !.pending = @ + n])
  /\ UNCHANGED shared

SendRefusal(c) == At(c, "refusing") /\ Goto(c, "flush") /\ UNCHANGED shared

(* A binary message within the limit, as the handler counts it.            *)
RecvAudio(c, n) ==
  /\ At(c, "recv")
  /\ conn[c].pending + n <= MaxPending
  /\ conn[c].sent + n <= MaxAudio
  /\ UNCHANGED <<owner, others>>

Counted(c, n) == [conn[c] EXCEPT !.pending = @ + n, !.sent = @ + n]

-----------------------------------------------------------------------------
(* The streaming pipeline: taken out, run on a blocking thread, put back *)

(* The operation starts; expect panics the task if a panic took the        *)
(* pipeline away before.                                                   *)
TakePipeline(c, op, r, n) ==
  \/ /\ ~r.gone
     /\ Become(c, "blocking", [r EXCEPT !.op = op, !.flight = n])
     /\ UNCHANGED permits
  \/ r.gone /\ End(c, "crashed", r)

StreamAudio(c, n) ==
  /\ conn[c].kind = "streaming"
  /\ RecvAudio(c, n)
  /\ TakePipeline(c, "accept", Counted(c, n), n)

(* accept_audio; the text of an utterance that ended goes to                *)
(* last_final_text, which nobody reads.  A Partial answers new tokens.     *)
StreamAccepted(c) ==
  LET r == [conn[c] EXCEPT !.flight = 0] IN
  /\ At(c, "blocking")
  /\ conn[c].op = "accept"
  /\ \E h \in Detected(r.speech, conn[c].flight) : \E taken \in Taken(h.speech, r.failed) :
       \E rest \in 0..(r.buffer + taken), p \in {"partial", "top"} :
         Become(c, p, AfterAccept(r, h.now, taken, rest))
  /\ UNCHANGED shared

StreamFlushed(c) ==
  /\ At(c, "blocking")
  /\ conn[c].op = "flush"
  /\ Become(c, "finishing", [AfterFlush(conn[c], 0) EXCEPT !.buffer = 0])
  /\ UNCHANGED shared

AfterError(c) == IF conn[c].op = "flush" THEN "finishing" ELSE "replying"

(* An operation fails.                                                     *)
StreamFailed(c) ==
  LET r == [conn[c] EXCEPT !.failed = TRUE, !.flight = 0] IN
  /\ At(c, "blocking")
  /\ \E h \in Detected(r.speech, conn[c].flight) :
       \E taken \in Taken(h.speech, conn[c].failed) :
         \E rest \in 0..(r.buffer + taken) : \E more \in 0..(r.buffer + taken - rest) :
           Become(c, AfterError(c), AfterFailure(r, h.now, taken, rest, more))
  /\ UNCHANGED shared

(* It panics: the JoinError is answered, the pipeline is gone.             *)
StreamPanicked(c) ==
  /\ At(c, "blocking")
  /\ Become(c, AfterError(c),
            [conn[c] EXCEPT !.failed = TRUE, !.gone = TRUE, !.flight = 0, !.buffer = 0])
  /\ UNCHANGED shared

-----------------------------------------------------------------------------
(* The chunked pipeline: an utterance at a time, with a triplet *)

(* transcribe_buffer takes the buffer before it waits for a triplet.       *)
TakeBuffer(c, op, r) ==
  Become(c, "checkout", [r EXCEPT !.op = op, !.flight = r.buffer, !.buffer = 0])

(* A chunked pipeline always has a detector.                               *)
Heard(was, n) == {h \in Detected(was, n) : h.now \/ h.speech = 0 \/ h.speech < n}

(* The end of speech that was heard before the message, or a full speech
   buffer, starts a transcription.                                         *)
ChunkedAudio(c, n) ==
  /\ conn[c].kind = "chunked"
  /\ RecvAudio(c, n)
  /\ \E h \in Heard(conn[c].speech, n) :
       LET r == [Counted(c, n) EXCEPT !.speech = h.now, !.buffer = @ + h.speech,
                                      !.fed = @ + h.speech]
       IN IF /\ (conn[c].speech /\ ~h.now) \/ r.buffer > MaxSpeech
             /\ r.buffer > 0
          THEN TakeBuffer(c, "accept", r)
          ELSE Become(c, "top", r)
  /\ UNCHANGED permits

(* pool.checkout() waits without a deadline, into_owned keeps the triplet. *)
CheckedOut(c) ==
  /\ At(c, "checkout")
  /\ \E i \in Items : Lender!Lend(i, c)
  /\ Goto(c, "inferring")
  /\ UNCHANGED <<permits, others>>

GiveBack(c) == \E i \in Items : Lender!GiveBack(i, c)

(* The guard goes at the end of the blocking closure, before the reply.    *)
Transcribed(c) ==
  /\ At(c, "inferring")
  /\ GiveBack(c)
  /\ \E p \in IF conn[c].op = "flush" THEN {"finishing"} ELSE {"partial", "top"} :
       Become(c, p, [conn[c] EXCEPT !.text = @ + conn[c].flight, !.flight = 0])
  /\ UNCHANGED <<permits, others>>

Wasted(r) == [r EXCEPT !.failed = TRUE, !.lost = @ + r.flight, !.flight = 0]

(* Mutant: the error path forgets the triplet.                             *)
TranscribeFailedLeaks(c) ==
  /\ At(c, "inferring")
  /\ Become(c, AfterError(c), Wasted(conn[c]))
  /\ UNCHANGED shared

(* Inference fails or panics: the utterance is lost, the triplet is not.   *)
TranscribeFailed(c) ==
  /\ At(c, "inferring")
  /\ GiveBack(c)
  /\ Become(c, AfterError(c), Wasted(conn[c]))
  /\ UNCHANGED <<permits, others>>

-----------------------------------------------------------------------------
(* Clear, and the end of the connection *)

(* The chunked pipeline has no reset: what it has it keeps.                *)
ClearedChunked(r) ==
  [r EXCEPT !.kept = r.text + r.buffer, !.fed = 0, !.lost = 0]

(* Clear resets the streaming pipeline.                                    *)
RecvClear(c) ==
  LET r == [conn[c] EXCEPT !.pending = 0]
  IN /\ At(c, "recv")
     /\ \/ r.kind = "chunked" /\ Become(c, "top", ClearedChunked(r)) /\ UNCHANGED shared
        \/ /\ r.kind = "streaming" /\ ~r.gone
           /\ Become(c, "top", AfterReset(r))
           /\ UNCHANGED shared
        \/ r.kind = "streaming" /\ r.gone /\ End(c, "crashed", r)
           /\ UNCHANGED <<owner, others>>

(* Stop flushes and leaves the loop.                                       *)
RecvStop(c) == At(c, "recv") /\ Goto(c, "flush") /\ UNCHANGED shared

(* Mutant: the flush keeps back what the detector has not closed.          *)
FlushOpenSpeech(c) ==
  /\ At(c, "flush")
  /\ \/ conn[c].kind = "streaming" /\ TakePipeline(c, "flush", conn[c], 0)
     \/ conn[c].kind = "chunked" /\ Goto(c, "finishing") /\ UNCHANGED permits
  /\ UNCHANGED <<owner, others>>

(* flush_and_send_final, on Stop or after the loop, never both.            *)
Flush(c) ==
  /\ At(c, "flush")
  /\ \/ conn[c].kind = "streaming" /\ TakePipeline(c, "flush", conn[c], 0)
     \/ /\ conn[c].kind = "chunked"
        /\ \/ conn[c].buffer > 0 /\ TakeBuffer(c, "flush", conn[c])
           \/ conn[c].buffer = 0 /\ Goto(c, "finishing")
        /\ UNCHANGED permits
  /\ UNCHANGED <<owner, others>>

(* Mutant: Stop does not set the flag that stands for "flushed".           *)
SendVerdictAndFlush(c) ==
  /\ At(c, "finishing")
  /\ Become(c, "flush", [conn[c] EXCEPT !.answers = @ + 1])
  /\ UNCHANGED shared

(* The Final, or the flush_error, goes out and the task returns.           *)
SendVerdict(c) ==
  /\ At(c, "finishing")
  /\ End(c, "done", [conn[c] EXCEPT !.answers = @ + 1])
  /\ UNCHANGED <<owner, others>>

-----------------------------------------------------------------------------
(* The rest of the server *)

(* The listener accepts a request; none once the token is cancelled.       *)
Accept(r) ==
  /\ ~shutdown
  /\ r \notin asking /\ Lender!HasNone(r)
  /\ asking' = asking \union {r}
  /\ UNCHANGED <<conn, permits, owner, shutdown>>

(* It gets a triplet, after the cancellation as before...                  *)
Borrow(r) ==
  /\ r \in asking
  /\ \E i \in Items : Lender!Lend(i, r)
  /\ asking' = asking \ {r}
  /\ UNCHANGED <<conn, permits, shutdown>>

(* ...or ends without: refused, after 30 seconds, or its client is gone.   *)
GiveUp(r) ==
  /\ r \in asking
  /\ asking' = asking \ {r}
  /\ UNCHANGED <<conn, permits, owner, shutdown>>

Return(r) ==
  /\ GiveBack(r)
  /\ UNCHANGED <<conn, permits, others>>

Shutdown ==
  /\ ~shutdown
  /\ shutdown' = TRUE
  /\ UNCHANGED <<conn, permits, owner, asking>>

(* run_server waits for the HTTP requests in flight, not for connections   *)
(* that were upgraded: their tasks are dropped with the runtime.           *)
Exit ==
  /\ shutdown
  /\ asking = {} /\ \A i \in Items : owner[i] \notin Requests
  /\ \E c \in Conns : conn[c].phase \notin Ended
  /\ conn' = [c \in Conns |->
                IF conn[c].phase \in Ended THEN conn[c]
                ELSE [Dropped(conn[c]) EXCEPT !.phase = "killed"]]
  /\ owner' = [i \in Items |-> Shelf]
  /\ permits' = MaxConns
  /\ UNCHANGED others

-----------------------------------------------------------------------------
Answer(c) == StreamAccepted(c) \/ StreamFlushed(c) \/ StreamFailed(c) \/ StreamPanicked(c)
Infer(c) == Transcribed(c) \/ TranscribeFailed(c)

ConnNext(c) ==
  \/ Admit(c) \/ AdmitTimeout(c) \/ Build(c) \/ SendReady(c)
  \/ LoopTop(c) \/ RecvEnd(c) \/ RecvOther(c) \/ ReplyDone(c)
  \/ \E n \in Chunks : RecvTooMuch(c, n) \/ StreamAudio(c, n) \/ ChunkedAudio(c, n)
  \/ SendRefusal(c)
  \/ StreamAccepted(c) \/ StreamFlushed(c) \/ StreamFailed(c) \/ StreamPanicked(c)
  \/ CheckedOut(c) \/ Transcribed(c) \/ TranscribeFailed(c)
  \/ RecvClear(c) \/ RecvStop(c) \/ Flush(c) \/ SendVerdict(c)

Next ==
  \/ \E c \in Conns : ConnNext(c)
  \/ \E r \in Requests : Accept(r) \/ Borrow(r) \/ GiveUp(r) \/ Return(r)
  \/ Shutdown \/ Exit

(***************************************************************************)
(* The runtime runs a task that can run, inference terminates, the two     *)
(* timeouts (admission, idle) fire, and a peer reads what it is sent or    *)
(* its connection breaks.  Nothing is assumed of what peers send, nor that *)
(* the process exits.                                                      *)
(***************************************************************************)
Fairness ==
  /\ \A c \in Conns :
       /\ WF_vars(Admit(c) \/ AdmitTimeout(c)) /\ WF_vars(Build(c))
       /\ WF_vars(SendReady(c)) /\ WF_vars(LoopTop(c)) /\ WF_vars(RecvEnd(c))
       /\ WF_vars(ReplyDone(c)) /\ WF_vars(SendRefusal(c)) /\ WF_vars(Answer(c))
       /\ WF_vars(CheckedOut(c)) /\ WF_vars(Infer(c)) /\ WF_vars(Flush(c))
       /\ WF_vars(SendVerdict(c))
  /\ \A r \in Requests : WF_vars(Return(r))

Spec == Init /\ [][Next]_vars
FairSpec == Spec /\ Fairness

=============================================================================
