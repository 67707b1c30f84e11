------------------------------- MODULE Requests -------------------------------
(***************************************************************************)
(* The request handlers over one engine: POST /v1/transcribe, its batch    *)
(* and SSE variants (src/src/server/http.rs) and the gRPC service          *)
(* (src/src/server/grpc.rs), with the blocking tasks they start, clients   *)
(* that leave or stop reading, and the shutdown.                           *)
(*                                                                         *)
(* Text is left out: an upload is a number of chunks, an SSE event its     *)
(* type and the number of segments made with it.  What an inference comes  *)
(* to is nondeterministic.                                                 *)
(***************************************************************************)
EXTENDS Integers, Sequences, FiniteSets

CONSTANTS
  Calls,        (* the requests of a behaviour                             *)
  Triplets,     (* the size of the session pool                            *)
  Room,         (* the capacity of an SSE response's channel               *)
  Permits,      (* max_streaming_connections of the gRPC service           *)
  MaxChunks     (* bound of the model: chunks of an SSE upload             *)

ASSUME SizesAssumption == {Triplets, Room, Permits} \subseteq Nat \ {0}
ASSUME MaxChunksAssumption == MaxChunks \in Nat

VARIABLES
  kind,         (* what a call asks for                                    *)
  pc,           (* where its handler or its response is                    *)
  worker,       (* its blocking task                                       *)
  free,         (* the triplets in the pool                                *)
  held,         (* the calls whose guard is alive                          *)
  chunks,       (* chunks of the upload the SSE task has not processed     *)
  made,         (* segments the SSE task has made                          *)
  chan,         (* the channel between the SSE task and the response       *)
  open,         (* the calls whose sender is alive                         *)
  got,          (* events the reader has                                   *)
  stalled,      (* readers that have stopped reading for good              *)
  permits,      (* stream_semaphore                                        *)
  pipelines,    (* gRPC streams that loaded a StreamingPipeline            *)
  cancelled,    (* the shutdown token                                      *)
  exited        (* main has returned                                       *)

pool == <<free, held>>
sse == <<chunks, made, chan, open, got, stalled>>
grpc == <<permits, pipelines>>
main == <<cancelled, exited>>
requestVars == <<kind, pc, worker, pool, sse, grpc, main>>

Kinds == {"once", "batch", "sse", "unary", "stream"}
Http == {"once", "batch", "sse"}

RequestsInit ==
  /\ kind = [c \in Calls |-> "once"]
  /\ pc = [c \in Calls |-> "idle"]
  /\ worker = [c \in Calls |-> "none"]
  /\ free = Triplets /\ held = {}
  /\ chunks = [c \in Calls |-> 0] /\ made = [c \in Calls |-> 0]
  /\ chan = [c \in Calls |-> <<>>] /\ open = {}
  /\ got = [c \in Calls |-> <<>>] /\ stalled = {}
  /\ permits = Permits /\ pipelines = {}
  /\ cancelled = FALSE /\ exited = FALSE

At(c, here) == pc[c] = here
Enter(c, there) == pc' = [pc EXCEPT ![c] = there]
Work(c, there) == worker' = [worker EXCEPT ![c] = there]

(* CheckoutGuard::drop, PoolGuard::drop                                    *)
GiveBack(c) == held' = held \ {c} /\ free' = free + 1

(* The checkouts of both, when there is a triplet.                         *)
Take(c) == free > 0 /\ free' = free - 1 /\ held' = held \union {c}

-----------------------------------------------------------------------------
(* The HTTP handlers.                                                      *)

(* The upload is read; a bad one is refused.                               *)
HttpCall(c) ==
  /\ At(c, "idle") /\ ~cancelled
  /\ \E k \in Http, n \in 0..MaxChunks :
       /\ k # "sse" => n = 0
       /\ kind' = [kind EXCEPT ![c] = k] /\ chunks' = [chunks EXCEPT ![c] = n]
  /\ \/ Enter(c, "checkout") \/ Enter(c, "refused")
  /\ UNCHANGED <<worker, pool, made, chan, open, got, stalled, grpc, main>>

(* checkout_triplet; the guard moves into a blocking task.  Of an SSE
   request the handler ends here and its response is read from the channel. *)
Checkout(c) ==
  /\ At(c, "checkout") /\ Take(c)
  /\ Work(c, "run")
  /\ IF kind[c] = "sse" THEN Enter(c, "body") /\ open' = open \union {c}
                        ELSE Enter(c, "await") /\ UNCHANGED open
  /\ UNCHANGED <<kind, chunks, made, chan, got, stalled, grpc, main>>

(* 30 s without a triplet: "Server busy, try again later".                 *)
CheckoutTimeout(c) ==
  /\ At(c, "checkout") /\ free = 0
  /\ Enter(c, "refused")
  /\ UNCHANGED <<kind, worker, pool, sse, grpc, main>>

(* The blocking task of transcribe or transcribe_batch: an inference that
   fails or panics is caught, and the guard dropped with the closure.      *)
OnceWorks(c) ==
  /\ kind[c] \in {"once", "batch"} /\ worker[c] = "run"
  /\ \/ Work(c, "done") \/ Work(c, "error")
  /\ GiveBack(c)
  /\ UNCHANGED <<kind, pc, sse, grpc, main>>

(* A failed batch is answered 200, with one empty result.                  *)
OnceAnswers(c) ==
  /\ At(c, "await") /\ worker[c] \in {"done", "error"}
  /\ Enter(c, IF worker[c] = "done" \/ kind[c] = "batch" THEN "ok" ELSE "failed")
  /\ UNCHANGED <<kind, worker, pool, sse, grpc, main>>

(* The client disconnects: axum drops the handler or the response, never
   the blocking task, and with a response its channel's receiver.          *)
Disconnect(c) ==
  /\ pc[c] \in {"checkout", "await", "body", "admitted", "messages"}
  /\ Enter(c, "gone")
  /\ permits' = IF At(c, "admitted") THEN permits + 1 ELSE permits
  /\ pipelines' = pipelines \ {c} /\ chan' = [chan EXCEPT ![c] = <<>>]
  /\ got' = [got EXCEPT ![c] = <<>>] /\ stalled' = stalled \ {c}
  /\ UNCHANGED <<kind, worker, pool, chunks, made, open, main>>

-----------------------------------------------------------------------------
(* The SSE task and the reader of its events.                              *)

Events(c) == got[c] \o chan[c]

(* tx.try_send: no room, or no receiver any more.                          *)
SendFails(c) == Len(chan[c]) = Room \/ ~At(c, "body")

Send(c, type) ==
  chan' = IF SendFails(c) THEN chan
          ELSE [chan EXCEPT ![c] = Append(@, [type |-> type, n |-> made'[c]])]

SseRuns(c) == kind[c] = "sse" /\ worker[c] = "run"

(* Mutant: a segment that finds no room is skipped.                        *)
SseChunkSkips(c) ==
  /\ SseRuns(c) /\ chunks[c] > 0 /\ ~cancelled
  /\ chunks' = [chunks EXCEPT ![c] = @ - 1]
  /\ \/ UNCHANGED <<made, chan, worker>>
     \/ /\ made' = [made EXCEPT ![c] = @ + 1]
        /\ Send(c, "partial")
        /\ UNCHANGED worker
  /\ UNCHANGED <<kind, pc, pool, open, got, stalled, grpc, main>>

(* Mutant: blocking_send, which waits for room.                            *)
SseChunkWaits(c) ==
  /\ SseRuns(c) /\ chunks[c] > 0 /\ ~cancelled
  /\ ~(SendFails(c) /\ At(c, "body"))
  /\ chunks' = [chunks EXCEPT ![c] = @ - 1]
  /\ \/ UNCHANGED <<made, chan, worker>>
     \/ /\ made' = [made EXCEPT ![c] = @ + 1]
        /\ Send(c, "partial")
        /\ IF SendFails(c) THEN Work(c, "over") ELSE UNCHANGED worker
  /\ UNCHANGED <<kind, pc, pool, open, got, stalled, grpc, main>>

(* process_chunk: not yet a window of audio, or a segment that is sent; the
   task gives up when it cannot be.                                        *)
SseChunk(c) ==
  /\ SseRuns(c) /\ chunks[c] > 0 /\ ~cancelled
  /\ chunks' = [chunks EXCEPT ![c] = @ - 1]
  /\ \/ UNCHANGED <<made, chan, worker>>
     \/ /\ made' = [made EXCEPT ![c] = @ + 1]
        /\ Send(c, "partial")
        /\ IF SendFails(c) THEN Work(c, "over") ELSE UNCHANGED worker
  /\ UNCHANGED <<kind, pc, pool, open, got, stalled, grpc, main>>

(* flush_state after the last chunk: a final segment, or none.             *)
SseFlush(c) ==
  /\ SseRuns(c) /\ chunks[c] = 0 /\ ~cancelled
  /\ Work(c, "over") /\ UNCHANGED made
  /\ \/ Send(c, "final") \/ UNCHANGED chan
  /\ UNCHANGED <<kind, pc, pool, chunks, open, got, stalled, grpc,
                 main>>

(* Resampling or inference fails, or panics; the event of an error that
   finds no room is lost.                                                  *)
SseFails(c) ==
  /\ SseRuns(c)
  /\ Work(c, "over") /\ UNCHANGED made
  /\ \/ Send(c, "error") \/ UNCHANGED chan
  /\ UNCHANGED <<kind, pc, pool, chunks, open, got, stalled, grpc,
                 main>>

(* The token is seen between two chunks.                                   *)
SseCancelled(c) ==
  /\ SseRuns(c) /\ cancelled
  /\ Work(c, "over")
  /\ UNCHANGED <<kind, pc, pool, sse, grpc, main>>

(* The closure ends: its guard is dropped...                               *)
SseReturns(c) ==
  /\ worker[c] = "over"
  /\ Work(c, "returned") /\ GiveBack(c)
  /\ UNCHANGED <<kind, pc, sse, grpc, main>>

(* Mutant: the sender is dropped after an answer only.                     *)
SseHangsUpOnAnswer(c) ==
  /\ worker[c] = "returned" /\ Events(c) # <<>>
  /\ Work(c, "done") /\ open' = open \ {c}
  /\ UNCHANGED <<kind, pc, pool, chunks, made, chan, got, stalled, grpc,
                 main>>

(* ...and then what it captured, the sender among it.                      *)
SseHangsUp(c) ==
  /\ worker[c] = "returned"
  /\ Work(c, "done") /\ open' = open \ {c}
  /\ UNCHANGED <<kind, pc, pool, chunks, made, chan, got, stalled, grpc,
                 main>>

Read(c) ==
  /\ At(c, "body") /\ c \notin stalled /\ chan[c] # <<>>
  /\ got' = [got EXCEPT ![c] = Append(@, Head(chan[c]))]
  /\ chan' = [chan EXCEPT ![c] = Tail(@)]
  /\ UNCHANGED <<kind, pc, worker, pool, chunks, made, open, stalled, grpc,
                 main>>

ReadEnd(c) ==
  /\ At(c, "body") /\ c \notin stalled /\ chan[c] = <<>> /\ c \notin open
  /\ Enter(c, "ended")
  /\ UNCHANGED <<kind, worker, pool, sse, grpc, main>>

Stall(c) ==
  /\ At(c, "body") /\ c \notin stalled
  /\ stalled' = stalled \union {c}
  /\ UNCHANGED <<kind, pc, worker, pool, chunks, made, chan, open, got, grpc,
                 main>>

-----------------------------------------------------------------------------
(* The gRPC service.                                                       *)

(* transcribe: too much audio, or no triplet at once, is refused; the
   inference runs in the handler, which nothing can interrupt.             *)
UnaryCall(c) ==
  /\ At(c, "idle") /\ ~cancelled
  /\ kind' = [kind EXCEPT ![c] = "unary"]
  /\ \/ Enter(c, "infer") /\ Take(c)
     \/ Enter(c, "refused") /\ free = 0 /\ UNCHANGED pool
     \/ Enter(c, "refused") /\ UNCHANGED pool
  /\ UNCHANGED <<worker, sse, grpc, main>>

(* It succeeds, fails, or unwinds through the handler.                     *)
UnaryDone(c) ==
  /\ At(c, "infer") /\ GiveBack(c)
  /\ \/ Enter(c, "ok") \/ Enter(c, "failed") \/ Enter(c, "gone")
  /\ UNCHANGED <<kind, worker, sse, grpc, main>>

(* stream_transcribe: a permit, within 5 s.  Refused is who brings no key
   (check_auth, which comes first), or waits that long for nothing.        *)
StreamAdmit(c) ==
  /\ At(c, "idle") /\ ~cancelled
  /\ kind' = [kind EXCEPT ![c] = "stream"]
  /\ \/ permits > 0 /\ permits' = permits - 1 /\ Enter(c, "admitted")
     \/ UNCHANGED permits /\ Enter(c, "refused")
  /\ UNCHANGED <<worker, pool, sse, pipelines, main>>

(* The handler returns the response, a stream nothing has polled yet, and
   drops _permit.                                                          *)
StreamReturned(c) ==
  /\ At(c, "admitted")
  /\ permits' = permits + 1 /\ Enter(c, "messages")
  /\ UNCHANGED <<kind, worker, pool, sse, pipelines, main>>

(* Config: a pipeline is loaded, in place of the one before.               *)
StreamConfig(c) ==
  /\ At(c, "messages")
  /\ \/ pipelines' = pipelines \union {c} /\ UNCHANGED pc
     \/ pipelines' = pipelines \ {c} /\ Enter(c, "failed")
  /\ UNCHANGED <<kind, worker, pool, sse, permits, main>>

(* AudioChunk and Finalize end the stream when nothing is configured or the
   inference fails, as does a broken or finished request; a success changes
   the pipeline only (module StreamingPipeline).                           *)
StreamEnds(c) ==
  /\ At(c, "messages")
  /\ \/ Enter(c, "failed") \/ Enter(c, "ok")
  /\ pipelines' = pipelines \ {c}
  /\ UNCHANGED <<kind, worker, pool, sse, permits, main>>

-----------------------------------------------------------------------------
Shutdown ==
  /\ ~cancelled /\ cancelled' = TRUE
  /\ UNCHANGED <<kind, pc, worker, pool, sse, grpc, exited>>

Over == {"refused", "ok", "failed", "ended", "gone"}

(* The HTTP server, and then the gRPC server, have no call open: main
   returns, and the runtime waits for the blocking tasks.                  *)
Exited ==
  /\ cancelled /\ \A c \in Calls : pc[c] \in Over \union {"idle"}
  /\ \A c \in Calls : worker[c] \in {"none", "done", "error"}
  /\ exited' = TRUE
  /\ UNCHANGED <<kind, pc, worker, pool, sse, grpc, cancelled>>

Handler(c) ==
  \/ Checkout(c) \/ CheckoutTimeout(c) \/ OnceAnswers(c)
  \/ UnaryDone(c) \/ StreamReturned(c)

Worker(c) ==
  \/ OnceWorks(c) \/ SseChunk(c) \/ SseFlush(c) \/ SseCancelled(c)
  \/ SseReturns(c) \/ SseHangsUp(c)

Reader(c) == Read(c) \/ ReadEnd(c)

Client(c) ==
  \/ HttpCall(c) \/ UnaryCall(c) \/ StreamAdmit(c)
  \/ Disconnect(c) \/ Stall(c) \/ StreamConfig(c) \/ StreamEnds(c)

RequestsNext ==
  \/ \E c \in Calls : Handler(c) \/ Worker(c) \/ SseFails(c) \/ Reader(c) \/ Client(c)
  \/ Shutdown \/ Exited

(* Tasks that can run do run, main among them, and a reader reads on until
   it stalls; what clients do otherwise is theirs, and no inference has to
   fail.                                                                   *)
RequestsFairness ==
  /\ WF_requestVars(Exited)
  /\ \A c \in Calls : WF_requestVars(Handler(c)) /\ WF_requestVars(Worker(c)) /\ WF_requestVars(Reader(c))

RequestsSpec == RequestsInit /\ [][RequestsNext]_requestVars
RequestsFairSpec == RequestsSpec /\ RequestsFairness
=============================================================================
