# TLA+ models of phonex

Specifications, model-checking configurations and machine-checked proofs for
the phonex speech-to-text server and library (`src/`). Every definition is
translated from the Rust source; `PROJECT.json` ("map") names the lines behind
each one. Paths such as `ws.rs:466` below are relative to `src/src/server/` or
`src/src/`.

## 1. The system

phonex loads an ONNX transducer model and serves transcription over HTTP, SSE,
two WebSocket endpoints, gRPC and a C interface. Its parts:

| Part | State | Operations | Hard because | What makes it correct |
|---|---|---|---|---|
| Session pool `inference/pool.rs` | bounded channel of session triplets; guards that own one | `checkout`, `try_checkout`, `into_owned`, `into_inner`, `checkin`, drops, `close` | ownership moves between guards; drops in panics and dropped futures; closing while items are out; a reload retires a pool in use | a triplet has one owner, comes back, and never blocks whoever returns it |
| `/stream` `ws.rs:341` with `inference/engine.rs`, `inference/streaming.rs` | growing audio buffer per connection | receive, transcribe a window, Clear, Stop, flush | pool may be empty, inference may fail or panic in any window, peers leave or stop reading | windows tile the audio; a triplet is held for one operation |
| `/v1/transcribe/stream` `ws.rs:86` | admission permit, pipeline in an `Option`, `pending_samples` | accept, flush, Clear, Stop, idle timeout | a blocking task owns the pipeline meanwhile; five ways to end | permits conserved; one closing answer; a failure costs its own utterance only |
| Chunked pipeline `chunked_streaming.rs` | utterance buffer, detector | `accept_audio`, `flush`, `transcribe_buffer` | takes the buffer before it waits for a triplet without a deadline | every utterance transcribed once |
| Streaming pipeline `streaming_pipeline.rs`, `streaming_encoder.rs`, `streaming_decoder.rs` | frame index, encoder caches, decoder context, tokens, clock | `accept_audio`, `flush`, `reset`, `take_final_text` | calls of any size; failures between chunks; a flush and reset inside `accept_audio` | chunks tile the frames; caches and times belong to the utterance |
| Voice detection `vad.rs` | hysteresis state, partial window | `process`, `reset`, `split` | runs of verdicts cross batch boundaries | speech passes, silence does not |
| Model hot-swap `http.rs:642` | engine, directory, configuration behind three locks | `reload`, readers | writes in turns, dropped handlers, requests on the old engine | one model; the old engine is freed |
| HTTP and gRPC requests `http.rs`, `grpc.rs` | blocking tasks, SSE channel, gRPC permit | transcribe, batch, SSE stream, unary, bidirectional stream | clients leave or stop reading while a task holds a triplet | triplets come back; events in order; calls end |
| Model store `model.rs`, `model_config.rs` | files on disk | look, download, verify, extract, load, write `model.json` | crash between two writes; downloads that break off | nothing unverified is unpacked; what was served is kept |
| Start and shutdown `bin/server.rs` | cancellation token | start, cancel, wait, exit | upgraded connections are not waited for | connections end |
| Router and rate limiter `mod.rs`, `rate_limit.rs` | a token bucket per address, each behind its lock | authenticate, `check`, refill | the clock is sampled before the lock is taken; the order of layers is the reverse of the text | never more than the limit, nobody refused below it, wrong keys cost nothing |
| Metrics `metrics.rs` | counter and histogram, each behind its lock | guard made and dropped, scrape | handlers end by return, panic or a dropped future; a page is read under two locks in turn | each request counted once in both |
| C interface `ffi.rs` | live sets of pointers, boxes on the heap | new, free, transcribe, stream calls | threads of a host; a free of what was freed; the allocator reuses addresses | a handle is dropped once, valid until then |
| Segmenter `vad.rs:178`, `engine.rs:290` | the scan's start of speech and count of silence | `segment`, transcription of the pieces | counters at the first and last window, padding that overlaps | segments as defined; every loud window heard, in its piece |
| Offline decoder `decode.rs`, `engine.rs:214` | flat tensor of a batch, decoder context | `transcribe_batch`, `decode_sample` | samples of unequal length, times by encoded frame, context across samples | a batch is what its samples are singly |
| Configuration file, tokenizers, audio and features, ONNX sessions, diarization, command line, Python | | | | not modelled, see section 8 |

Interactions: every transcription borrows a triplet from the pool of the engine
it read from `AppState` (HTTP, WebSocket) or was given at the start (gRPC);
streaming pipelines own their sessions and bypass the pool; a reload replaces
the engine, so old and new pools live side by side until the last reference to
the old one goes; the cancellation token reaches WebSocket loops and the SSE
task, nothing else. Every HTTP request passes the router's layers before its
handler. The segmenter and the offline decoder run inside a transcription, under
a triplet the transcription has for itself.

## 2. Modules

| Module | Models | Correspondence |
|---|---|---|
| `SessionLender` | what the pool promises | `owner` of each item, an item is lent to who has none, loans end |
| `SessionPool` | `inference/pool.rs`, `checkout_triplet` | `queue` and `channel` are the async channel, `client`/`item` a task's future, guard or raw reservation; one action per method and drop |
| `LegacyStream` | `handle_socket`, `process_chunk`, `flush_state` | `phase` is the await point of a connection's task, `buffer` the audio in units, `asking` the HTTP requests accepted that wait for a triplet |
| `WsV1Session` | `handle_v1_stream` with both pipelines | `conn[c]` holds the locals of the task and its pipeline, `permits` the semaphore, `asking` as above |
| `ModelReload` | `reload`, the locks of `AppState` and their readers | `engine`, `dir`, `info` are the locked values, `holders` the `Arc`s of an engine, `readers` the read guards on it; `Legacy` are `/stream` connections, which clone the engine for all their audio |
| `StreamingPipeline` | the pipeline, its encoder and decoder state, `StreamingVad` | a unit of audio is one frame, a token is `[unit, at]` with `at` in encoded frames, of which a chunk yields `EncodedFrames`; `pc` walks through one call |
| `PipelineContract` | what one call may do to a streaming pipeline, as its owner sees it | speech heard, fed, left to decode, transcribed, before and after `accept_audio`, `flush`, `reset` and a call that fails |
| `PipelineCalls` | `StreamingPipeline`, with a history of the running call | `call` is the pipeline when the call began; compared with the contract when it returns |
| `ModelStore` | `ensure_model`, `from_model_dir`, the start of `main` | `archive`, `file`, `config` are what the files hold; creating and writing are separate steps |
| `Requests` | `transcribe`, `transcribe_batch`, `transcribe_stream`, the gRPC service | `pc` is the handler or its response, `worker` the blocking task, `chan`/`open` the SSE channel, `main` the cancellation token and the exit of the process |
| `RateLimiter` | `TokenBucket`, `check` | `bucket` per address, in units that one tick refills; each operator is what happens under the lock |
| `Metrics` | `Registry` | `total` and `hist` are the locked maps; each operator is one critical section |
| `HttpGate` | the router: `auth_middleware`, `rate_limit_middleware`, `MetricsGuard`, `/metrics` | extends the two above; `pc` is the layer a request is in, `now` the clock sample of `check`, `meter` and `lag` are history |
| `FfiHandles` | `ffi.rs` and `Engine::transcribe_file` | `live` are the two sets, `obj` the heap, `call` the step of each thread, `host` what the host knows of a handle |
| `OfflineEncoder` | `MelSpectrogram::compute`, the offline encoder, token times | how many frames and encoded frames a sample has, and what time an encoded frame is given |
| `VadSegmenter` | `VadSegmenter::segment`, `transcribe_samples_with_vad` | one step per window, then one per piece; extends `OfflineEncoder` |
| `GreedyDecoder` | `transcribe_batch`, `decode_sample` | `data` is the flat tensor, one step per prediction; extends `OfflineEncoder` |
| `Library` | `FfiHandles`, `VadSegmenter` and `GreedyDecoder`, as a host uses them without a server | they share no state, so each is explored while the others rest |

`*Props` state the properties and are what TLC runs (of the streaming pipeline,
`PipelineCalls`, which extends them); `*Proofs` hold the proofs. `TypeOK` is stated in
every `*Props` module. In most it is a conjunct of the first invariant or of the one its
proof starts from, so that the passing runs check it; not so in `SessionPoolProps` and
`ModelStoreProps`, where `TypeCorrect` proves it.
`LegacyStream` and `WsV1Session` take the pool through
`SessionLender` (`INSTANCE ... WITH inService <- TRUE`: the server never closes
its pool), and `SessionPool` implements `SessionLender` under the refinement
`owner` of `SessionPoolProps`: `ImplementsLender`, which the run `session_pool`
checks and `PoolLends` proves, is the safety of it, `LoansEnd`, which the run
checks, the liveness. So the connection modules do not carry the channel and the
guards a second time.

`WsV1Session` in turn does not carry frames, windows and caches. It changes its
streaming pipeline by the operators of `PipelineContract`, one call of the code at a
time, and `CallsKeepContract` says that every call of the detailed
`StreamingPipeline` does what they say: the run `streaming_pipeline` checks it,
`PipelineKeepsContract` proves it. Three places where the two meet: a flush leaves out
up to `LookAhead` frames that the encoder saw only ahead of the last chunk
(`AfterFlush(r, ahead)`), and the session, which speaks of audio and not of frames,
counts them as transcribed (`ahead` 0), as `FlushCoversUtterance` says of a flush that
misses nothing else; a pipeline that its
owner flushed with success promises nothing until it is reset, and the session makes no
such call; a panic is a step of the session's own (`StreamPanicked`), since the
pipeline is gone with it.

The names in `Requests` are prefixed so that `HandlerProofs` can extend it together
with `ModelReload`: both are handlers over the same pool and prove their theorems in
one module.

Operators named `...Off...`, `...Keeps...`, `...Skips...` and so on under a
comment "Mutant:" are not part of any specification. Each is a definition with
one plausible bug; with it in place of the definition that follows, TLC finds
the property named in `PROJECT.json` ("mutants") violated.

## 3. Runs

| Run | States | Bounds | Shows |
|---|---|---|---|
| `session_pool` | 1 683 | 2 triplets, 3 tasks | ownership, room for every return, final close, answered timeouts, refinement of the lender, ended loans and freed pools |
| `legacy_stream` | 43 310 | 2 connections, 1 request, 1 triplet; window 3, overlap 1, messages of 0, 1 or 2 units, 5 units | windows tile; guards per operation; Final last; triplets come back; shutdown ends connections |
| `ws_v1` | 131 559 | 2 connections, 1 permit, 1 request, 1 triplet; messages of 1 or 2 units, limits of 2 pending and 1 of speech, 3 units of audio | permits, single answer, what a Final covers, triplet per utterance, shutdown |
| `model_reload` | 80 040 | 2 reloads of 2 models (one streaming), 1 transcription, 1 v1 connection, 1 probe | serial reloads consistent; new requests on the new engine; no lock waits for ever; old engines freed |
| `streaming_pipeline` | 310 986 | window 2, chunk 4 of which 2 look-ahead and that yields 1 encoded frame, 2 loud and 2 quiet windows, batches 3 and 5, 12 units | detector, tiling, times, caches, bounds of the padded chunk, complete flush, calls that keep the contract `ws_v1` models the pipeline with |
| `model_store` | 8 689 | 3 files, 2 of them checked on loading, 3 faults | checksum gate, clean starts succeed, served models kept |
| `requests` | 137 453 | 2 calls of any kind, 1 triplet, 1 permit, channel of 1, 2 chunks | SSE order, triplets come back, calls end and the process exits |
| `http_gate` | 2 248 746 | 2 requests at a time, 1 address, burst 2, a token every 2 ticks, clock to 4, 2 bounds, 2 keys | the limit is kept, refusals are due, requests counted once |
| `library` | 794 720 | 3 threads, 2 addresses, 3 allocations, pools of 1 and 2; 11 windows of 2 samples, an encoded frame of 2; batches of up to 2 samples of 1, 3 or 4 frames | handles sound, segments match the reference, speech heard in its piece, batches, turned away only when busy |
| `ws_v1_backpressure`, `model_reload_torn`, `requests_grpc_bound` | | as above; `model_reload_torn` with a `/stream` connection too | the disagreements of section 6 |

Why these bounds are enough to be interesting. One triplet for several users
makes every checkout contend, two let an item be mistaken for the other. Three
tasks are a holder, a waiter and one that barges in with `try_checkout`. Two
units of window beyond the overlap and messages of different sizes let windows
be exact, late (pool empty) and longer than the threshold. Audio of 12 units
holds two utterances with a confirmed silence between, a batch that is no
multiple of the detector's window, a look-ahead tail, and a flush after a
failed chunk. Three faults are a broken download, a crash while recovering from
it and one more. In `model_reload` `Legacy` is
empty: a `/stream` connection takes the same two actions as the transcription and, like
the v1 connection that is there, is under no obligation to end, so that it would add states and no case; the
proofs have any number of them. A channel of one
segment is full after one unread event, as the real one after 256.

Two requests at a time let a clock sample be used after a younger one; a burst
of two and a clock of twice a token's time let a bucket be emptied, refilled in
part, found with a fraction of a token, and refilled up to its cap. The address
is one because the servers never give the router the peer's address: without
forwarded headers all clients share the bucket of 0.0.0.0. A wrong key is the
other of the two. Three threads are two users of a handle and one that allocates
at the address one of them has freed; three allocations on two addresses force
the reuse. With `MinSpeech` 2 and `MinSilence` 3, eleven windows hold two stretches
of speech, the pause between them, one too short to keep at the end, and silence
before the first; a padding of five samples makes two pieces overlap and reach
past both ends of the recording. The padding is no multiple of the
encoded frame, so the frame a word is timed by may begin before its window. The batches have a
sample too short for one encoded frame, one with frames left over and one without, two
tokens per frame and a context as long as that.

Abstractions that the bounds rest on: audio is counted, transcripts are the
audio they cover; the detector's verdict, the outcome of an inference (success,
error, panic) and what clients send are nondeterministic. In `ws_v1` a message
may hold a whole utterance (two units, of which one was heard and the other is silence), and
with one permit the second user of the pool is a
`Request`. `max_ws_connections = 0`, which means no limit, is excluded by an
assumption. In `streaming_pipeline` `MaxDecoded` bounds how often the caller flushes without
a reset (each flush decodes the trailing frames again). Whether the feature extractor takes audio
after `input_finished` is left open. In `model_store` one process at a time
uses the directory. In `http_gate` and `library` the clock and the number of
allocations are bounded by constants of the modules; the proofs of section 5 hold
for any bound. A host may not free a handle that another thread is using, nor
free twice after the address went to a new handle of the same kind: a set of addresses could
notice neither. Both are assumptions of the model about hosts. `docs/FFI.md:180` forbids more,
to make and free engines concurrently, which the model lets threads do.
The encoders' networks are external: that an offline one makes an encoded frame of every
`Subsampling` frames, and a streaming one `EncodedFrames` of a chunk, are constants, and
a word is decoded at the encoded frame in which its window begins.

`CHECK_DEADLOCK FALSE` stands where the system may stop: a pool that is closed
and freed, connections that are all over, a pipeline call that panicked, a host that a
panic at the C boundary aborted. The
other runs check deadlock.

## 4. Fairness

* Tasks: weak fairness of each step a task can take on its own. The tokio
  runtime polls a task that was woken; inference terminates or panics; timers
  fire.
* `WriteEngine` in `ModelReload`: strong fairness, since tokio's `RwLock` is
  fair (its queue is first in, first out), so a writer gets its turn between
  readers.
* Peers of WebSockets read what they are sent or their connection breaks. A send has no
  timeout of its own, so this is an assumption about peers: in `LegacyStream` it is a
  conjunct by itself (`PeersRead`); without it a triplet may be kept (section 6). In `Requests` this is not
  assumed: an SSE reader may stall for ever, and `TripletsComeBack` still holds.
* `Exited` in `Requests`: weak fairness. Once cancelled, `main` exits when both
  servers have no call left. `CallsEnd` says so, except for a call that nothing
  in the code ends: a stalled SSE reader, an open gRPC stream. The WebSocket
  modules do not assume the exit.
* Transcriptions end (`RequestEnd` of `Requests` in `ModelReload`): inference terminates. A
  connection of either WebSocket kind need not: `OldEngineRecycled` lets it keep its engine
  for as long as it likes.
* Requests that were accepted before the cancellation may still take triplets (`Borrow`) or
  give up (`GiveUp`) and have to return what they took; none is accepted after it.
* Nothing obliges a client to send, to stop or to leave, an operator to shut
  down, or a failure to happen.
* `StreamingPipeline`, `PipelineCalls`, `ModelStore`, `HttpGate` and `Library` state
  safety only and assume no fairness.

## 5. What is proved

Every safety invariant and action property of the passing runs is a theorem of
its specification, and so is the safety refinement of the lender. The theorems hold for every value of the
constants that the named assumptions allow: they are bounds on sizes
(naturals, positive where the code divides or chunks by them), finiteness where
something is counted, and that model values that stand for different things
differ. All of it holds with the faults, panics, dropped futures and crashes of
the models.

| Module | Theorems | Assumptions |
|---|---|---|
| `SessionPoolProofs` | `TypeCorrect`, `OwnershipIsExclusive`, `RoomForEveryReturn`, `NothingLostByGuards`, `ClosedStaysClosed`, `PoolLends` | `ItemsAssumption`, `NoItemAssumption`, `OwnersAssumption` |
| `LegacyStreamProofs` | `TripletsPerOperation`, `WindowsAlwaysTile`, `FinalStaysLast` | `WindowAssumption`, `ChunksAssumption`, `UsersAssumption` |
| `WsV1SessionProofs` | `PermitsConserved`, `AnsweredOnce`, `FinalIsComplete`, `TripletsPerUtterance` | `LimitsAssumption`, `ChunksAssumption`, `ConnsAssumption`, `UsersAssumption` |
| `HandlerProofs` | `SerialReloadsAreConsistent`, `NewRequestsGetNewEngine`, `SseStaysInOrder` | `ModelsAssumption`, `EnginesAssumption`, `TasksAssumption`, `SizesAssumption`, `MaxChunksAssumption` |
| `StreamingPipelineProofs` | `TokensTileTheFrames`, `CachesBelongToUtterance`, `TrailingFramesFit`, `SpeechReachesTheExtractor`, `FlushReturnsUtterance`, `PipelineKeepsContract` | `SizesAssumption`, `BatchesAssumption` |
| `ModelStoreProofs` | `OnlyVerifiedFiles`, `ServedModelStays`, `CleanStartsSucceed` | `FilesAssumption`, `MaxFaultsAssumption` |
| `HttpGateProofs` | `LimitHolds`, `RefusalsAreDue`, `RequestsCountedOnce` | `BurstAssumption`, `CostAssumption`, `UnspecifiedAssumption`, `MaxTimeAssumption`, `RequestsAssumption`, `BoundsAssumption` |
| `LibraryProofs` | `HandlesAreSound`, `TurnedAwayOnlyWhenBusy`, `SegmentsAreTheStretches`, `SpeechIsHeardInPiece`, `BatchIsDecodedSingly` | `ThreadsAssumption`, `PoolSizesAssumption`, `EncoderAssumption`, `WindowAssumption`, `VadAssumption`, `MaxWindowsAssumption`, `DecoderAssumption` |

The arguments, and why each invariant is what it is:

**Session pool.** `IInv` is `TypeOK` with the four parts of `ExclusiveOwnership`:
each part alone is not inductive (an item appended to the channel is only known
to be new there because its holder was its only place). Every step is one of four
families (`Take`, `GiveBack`, `Free`, `FreeChannel`) or leaves the items alone; one
lemma per family. There is room for a return because the channel's content is an
injection into the triplets other than the one held. For `ClosedIsFinal` the
invariant is `ClosedInv`: a refusal implies a closed, drained channel. `PoolLends`
maps each family to a step of `SessionLender`, or to a stutter where an item moves
between guards of one client.

**Legacy stream.** `TripletPerOperation` and `WindowsTile` are inductive as they
stand (a triplet is taken in the step into a guarded phase and returned in the step
out of one; audio that arrives adds to buffer and debt alike). What a loan does is
one lemma about the lender, and the steps of a connection use that alone.

**WebSocket v1.** `IInv` says of each connection's record what it was sent
(`Answered`) and where its speech is: in the text, in the buffer or, in a chunked
pipeline, at work or lost with a failed transcription, what it kept through a Clear
apart (`Balanced`). Permits are counted: `Admitted` has
`MaxConns - permits` members. `OneAnswer` alone is not inductive, for it does not
say that a connection in its loop was told Ready and has no answer yet; nor is
`FinalComplete`, which speaks of the end only.

**Hot-swap.** `Used` (nobody changes the model of an engine in reach), `OneWriter`
(what an undisturbed reload has written so far), `Reading` and `Loaded` (what a
stream saw between its awaits) give `SerialReloadsConsistent`. `Recorded`, the
history of installed engines, gives `NewRequestsUseNewEngine`.

**Streaming pipeline.** `Tiled` relates tokens, clock and `next_frame_idx`,
`Cached` and `Stamped` the caches and times with the tokens, and `Between` bounds
the frames that a call which succeeds leaves: without that bound the flush could
find more than fits the padded chunk. For the detector `Counted` equates each
counter with a run of verdicts and `Passed` the extractor's input with the windows
inside of speech, although windows, batches and verdicts do not line up.

**The pipeline's contract.** `CallInv` relates the pipeline in the midst of a call
with what it was when the call began: what the detector passed on so far is one of
its possible answers for the windows judged (`Says`); while the windows are judged the
decoder is as it was (`Still`); after that the extractor has that much more, unless it
was told that the input is finished, and every frame no longer left to decode has its
token (`Took`, `Advanced`). Each way to return then gives the witnesses of its
contract. That `next_frame_idx` is never past the extractor's frames, without which
"left to decode" would be no amount, comes from the invariants above.

**Requests.** `OrderInv` has four parts. `Lending`: the triplets out of the pool are
those of the calls whose task or handler works with one. `Admitting`: the gRPC permits in
use are those of the calls admitted. `Placed`: a call has a task only after it was let
begin, and the segments sent and those left make up the upload. `Streamed`: what the
client read followed by the channel is in order, and while the SSE task runs and its
response is open these are all of its segments, since the task ends in the step in
which it drops one. `SseInOrder` alone is not inductive: it does not say that the next
event a task sends has the next number.

**Model store.** `GateInv` adds "during the extraction a pinned archive is the
release it was verified to be" and "a download that is under way has left no more than a part", `ServedInv` "once a model was served, a process is
only at steps that read", and `CleanDisk` is a table of what a start without
faults finds on disk at each of its steps.

**Router.** A bucket is compared with a meter that every request let through fills
and time empties. What a bucket would hold if it were refilled now and had no cap
is its `Level`; the invariant has the meter between `Capacity - Level` and, unless
it is empty, `Capacity + lag - Level`. `RateBound` alone says nothing of how full
a bucket is. `lag`, the age of the oldest sample, enters because a first request
with an old sample gives its bucket the time since then once more. For the metrics
`CountInv` equates each count with requests entered minus those on their way
between the two locks.

**C interface.** For each object, by the stage of its handle (`Unknown`, `Given`,
`Freed`): which calls may be inside it, whether its memory is allocated, whether its
address is in the live set. That allocated objects have different addresses, that
what is live is allocated, and that no remove meets a reused address make the
stages inductive; an engine's idle triplets and running calls are counted
(`Balanced`).

**Segmenter.** While the scan runs, the open stretch is the only one that began and
met no pause, `silence` is the length of the quiet run at its end, and the segments
are the stretches that met one (`Scanning`). The lemmas say what one more verdict
changes of pauses, beginnings and ends; a verdict never changes an earlier one's. When
the scan is over the open stretch is closed and the segments are `Expected`, padded;
every loud window of a stretch then lies in its piece, padding and clamping included, and its
word's time follows from what `\div` does to its place there (`FrameTimes`,
`WordsOf`).

**Offline decoder.** A cell's index determines sample, frame and feature (`Digits`,
used twice), so the layout is injective and `Encoded` reads back the features of the
sample's own frame (`FeatureFound`). The longest sample exists by descent
(`LargestExists`). `SampleInv` says that tokens are ordered, come from frames up to
the current one and that the context is their end.

Model-checked only:

* liveness under fairness and `ENABLED`, which the provers do not reach:
  `TimedCheckoutAnswered`, `LoansEnd`, `TripletReturned`, `ShutdownEnds`,
  `ReloadEnds`, `OldEngineRecycled`, `TripletsComeBack`, `CallsEnd`;
* what recursive definitions compute for every input: the models are written
  without recursion where something is proved of them.

## 6. Where code and documents disagree

| Run | Code | Text |
|---|---|---|
| `ws_v1_backpressure` | `ws.rs:204`: `pending_samples` never shrinks, so 30 s of audio in total end a connection | `docs/SECURITY.md:36` "Audio buffer backpressure limit: 30 seconds" |
| `model_reload_torn` | `http.rs:711`: three locks written in turns, reloads not serialised | `CHANGELOG.md:84` "replaces the loaded model" |
| `requests_grpc_bound` | `grpc.rs:147`: the permit is dropped before the stream is polled | `grpc.rs:140` "Concurrency is limited by `stream_semaphore` instead." |

Further disagreements, which the models carry as the code has them. No run states
them; the properties named stop where they begin:

* Clear does nothing to a chunked pipeline (`ws.rs:68`), whose Final still has the audio
  from before, where `protocol.rs:51` says "Clear accumulated audio and reset session."
  `FinalComplete` asks for the speech since the Clear and allows more.
* An utterance that begins and ends within one message is no transition (`vad.rs:336`) and
  waits for the end of the next one, where `chunked_streaming.rs:3` says "triggers offline
  transcription on each speech→silence transition". `FinalComplete` says it is not lost.
* A chunked flush takes the buffer before it infers and loses it on an error
  (`chunked_streaming.rs:87`), where `CHANGELOG.md:55` says "Streaming flush preserves the
  audio buffer on error instead of silently dropping buffered audio." So does a chunked
  transcription in the midst of a connection. `FinalComplete` states what a failure
  costs: its own utterance and no other.
* The guard is in scope across the send of a Partial (`ws.rs:408`), so a peer that does not
  read keeps a triplet, where `CHANGELOG.md:57` says "instead of holding sessions
  indefinitely". `TripletReturned` assumes peers that read.
* Stop with every triplet out drops the buffered audio and sends no Final (`ws.rs:465`),
  where `protocol.rs:49` says "Request server to stop and finalize."
* A v1 connection reads configuration, directory and engine in three awaits (`ws.rs:112`), and
  a reload in between mixes two models, where `CHANGELOG.md:84` says "New requests immediately use
  the new model; in-flight requests finish on the old engine". `SerialReloadsConsistent`
  speaks of streams during whose reads nobody wrote.

Other behaviour without a run of its own:

* An archive cut short is kept (`model.rs:168`) and, where a checksum is known,
  fails every later start.
* Without `admin_api_key` the admin endpoints accept the regular key (`mod.rs:262`, as
  `mod.rs:48` says), where `CHANGELOG.md:59` says "they no longer fall back to the regular
  API key"; `Allowed` in `HttpGate` is the code's rule.
* A failed batch is answered 200 with one empty result (`http.rs:464`); an SSE
  response whose reader is slow ends without final or error (`http.rs:555`).
* A second flush decodes the trailing frames again, and a flush after a failed
  call may panic (`streaming_pipeline.rs:213`, `222`).
* The gRPC service keeps the model of the start (`bin/server.rs:216`).
* Clients without a forwarded address share one bucket, since no server gives the
  router the peer's address (`rate_limit.rs:134`), while `mod.rs:40` says "Per-IP".
  `evict_stale` has no caller, so buckets are kept for good. Authentication, added
  last, is the outermost layer, not the request id as `mod.rs:226` says.
* An engine made with `pool_size` 0 answers every transcription "pool empty".
* Padded pieces overlap, so speech near a pause may be transcribed in two pieces
  (`vad.rs:225`): `SpeechHeardInPiece` is about which windows have words, not about repeats.
* A token's time is its encoded frame times 10 ms (`decode.rs:112`, `streaming_pipeline.rs:194`),
  whatever the encoder's subsampling. The models time tokens so, and `SpeechHeardInPiece`,
  `BatchIsSingly` and `StateOfUtterance` say what follows: with an encoder that makes one
  frame of four a word two seconds into its piece is timed at half a second. There is no run
  that calls it a violation, since how an encoder subsamples is its network's matter and
  not the repository's.

Seen beside the models: `run_server` in `main.rs`
uses `RuntimeLimits::default()`, so limits and keys of a configuration file are
not applied.

## 7. Hazards

`PROJECT.json` lists the places that are hard to test, each with the properties
that would catch it going wrong or a note why none does. The recurring ones: a
triplet, permit or pipeline taken out across an await, a blocking task or a
panic; buffers taken before the operation that may fail; several resets that
must all happen; clock samples, counters and addresses that are used later than
they were read; values written or read under several locks; a disk state that
outlives the crash that left it.

## 8. Not modelled, and why

* Signal processing (resampling, filter banks), ONNX inference, tokenizers:
  numeric or pure look-ups. Inference is an outcome.
* Diarization: a wrapper of an external crate around the same pieces as the
  segmenter's.
* Request id, CORS headers, metrics text, words of a multipart body or a stream's
  transcript: the wording of answers. Strings that a C host gives back with
  `phonex_string_free` have no state in the library.
* `evict_stale` and `interval_ms`: called by tests only.
* Configuration file, argument parsing, TLS, command line, Python binding: no
  state of their own.

## 9. Plan

The components that keep state and take part in a concurrent protocol are
modelled, their safety properties are proved, and the two abstractions that modules
use for one another (`SessionLender`, `PipelineContract`) are shown to be kept by what
they stand for. What a change of the code should bring with it here:

1. A change of `SessionPool`, the pipelines or the handlers: the module, its run, then
   its proofs. The two contracts tell whether the modules above have to follow.
2. A fix of a disagreement of section 6: its run turns from a violation into a property
   of the passing run of that component, with a theorem; one without a run gives up the
   exemption that names it.
3. Liveness stays with TLC; the parts of section 8 would need a numeric model.
