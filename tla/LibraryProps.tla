---------------------------- MODULE LibraryProps ----------------------------
(***************************************************************************)
(* What must hold of the C interface, of the segmenter and of the offline  *)
(* decoder (src/src/ffi.rs, vad.rs, inference/decode.rs and engine.rs).    *)
(***************************************************************************)
EXTENDS Library, FiniteSetsExt

TypeOK ==
  /\ \A o \in Objects :
       /\ obj[o].kind \in Kinds
       /\ obj[o].state \in {"unborn", "allocated", "dropped"}
       /\ obj[o].idle \in 0 .. obj[o].size
  /\ live \in [Kinds -> SUBSET Addresses]
  /\ host \in [Objects -> {"unknown", "given", "freed"}]
  /\ broken \in BOOLEAN /\ aborted \in BOOLEAN
  /\ inSpeech \in BOOLEAN
  /\ silence \in 0 .. MinSilence - 1
  /\ frame \in Nat /\ emitted \in 0 .. MaxTokensPerStep

(***************************************************************************)
(* The life of handles.  A handle that the host was given and has not      *)
(* freed is valid: its memory is allocated and its pointer in the live set *)
(* of its kind, so that the free to come will find it; neither frees of    *)
(* other handles nor a second free of an earlier handle with the same      *)
(* address, of the other kind, takes it away, and no call is inside memory *)
(* that was given back.  "Second free must be a no-op (global set prevents *)
(* double-free)" (ffi.rs:442): an object is dropped once, also by two      *)
(* frees of its handle at a time.  An engine is dropped with all its       *)
(* triplets in the pool (ffi.rs:86, 148-170, 213, 384-397, engine.rs:183). *)
(***************************************************************************)
HandlesStayValid ==
  /\ \A o \in Objects :
       host[o] = "given" => obj[o].state = "allocated" /\ obj[o].at \in live[obj[o].kind]
  /\ \A t \in Threads : call[t].step \in {"read", "checkout", "infer", "stream"} =>
       obj[call[t].on].state = "allocated"
DroppedOnce ==
  /\ ~broken
  /\ \A o \in Objects :
       drops[o] <= 1 /\ (host[o] = "freed" /\ Inside(o) = {} => drops[o] = 1)
With(o) == {t \in Inside(o) : Calling(t, "infer")}
TripletsAccounted ==
  \A o \in Objects :
    /\ obj[o].idle + Cardinality(With(o)) = obj[o].size
    /\ obj[o].state = "dropped" => With(o) = {}

HandlesSound == TypeOK /\ HandlesStayValid /\ DroppedOnce /\ TripletsAccounted

(***************************************************************************)
(* "phonex_transcribe_file is thread-safe if the engine was created with   *)
(* pool_size > 1" (FFI.md:181): a call finds the pool empty only while as  *)
(* many other calls as the pool has triplets transcribe with one of the    *)
(* same engine: calls that failed before keep none, and calls that read    *)
(* their file do not count.                                                *)
(***************************************************************************)
TurnedAway(t) == Calling(t, "checkout") /\ call'[t] = Nobody

EmptyOnlyWhenBusy ==
  [][\A t \in Threads : TurnedAway(t) =>
       Cardinality(With(call[t].on)) >= obj[call[t].on].size]_vars

(***************************************************************************)
(* The segmenter's loop against a definition by the verdicts alone.  A     *)
(* pause is MinSilence quiet windows in a row; speech begins at a loud     *)
(* window with nothing but a pause or quiet before it, and lasts to the    *)
(* end of the next pause, or to the last window; a stretch of fewer        *)
(* windows than MinSpeech is dropped (vad.rs:178-236).                     *)
(***************************************************************************)
Pause(k) == k >= MinSilence /\ \A j \in k - MinSilence + 1 .. k : ~loud[j]
Begins(k) ==
  /\ loud[k]
  /\ \E q \in 0 .. k - 1 : (q = 0 \/ Pause(q)) /\ \A j \in q + 1 .. k - 1 : ~loud[j]
EndOf(k) ==
  LET pauses == {q \in k .. Len(loud) : Pause(q)} IN
  IF pauses = {} THEN Len(loud) ELSE Min(pauses)
Expected ==
  {<<k - 1, EndOf(k)>> : k \in {j \in 1 .. Len(loud) : Begins(j)}}

SegmentsMatchReference ==
  phase = "transcribe" =>
    {segments[j] : j \in DOMAIN segments} =
    {Padded(<<WindowSamples * s[1], WindowSamples * s[2]>>) :
       s \in {e \in Expected : e[2] - e[1] >= MinSpeech}}

(***************************************************************************)
(* No speech is lost, and none is moved by the cutting: after a file was   *)
(* transcribed, every loud window, but those of a stretch that is too      *)
(* short, has its word, and only loud windows have, although pieces are    *)
(* transcribed from their own start, overlap by their padding and are      *)
(* clamped to the file.  A word's time in the file is the start of its     *)
(* piece and the encoded frames since then, at 10 ms each (decode.rs:112): *)
(* at its own place when the encoder makes one frame of one, and else as   *)
(* much too early as it subsamples, but never before the piece             *)
(* (engine.rs:296-307).                                                    *)
(***************************************************************************)
TooShort(k) ==
  \E e \in Expected : e[1] < k /\ k <= e[2] /\ e[2] - e[1] < MinSpeech

TimedInPiece(w, s) ==
  LET place == (w.window - 1) * WindowSamples - s[1]
      timed == w.time - s[1] IN
  /\ 0 <= timed
  /\ timed * Subsampling <= place /\ place < (timed + FrameSamples) * Subsampling

SpeechHeardInPiece ==
  phase = "done" /\ Len(words) = Len(segments) /\ Len(loud) = NumWindows /\ segments # <<>> =>
    /\ \A j \in DOMAIN words : \A w \in words[j] :
         loud[w.window] /\ TimedInPiece(w, segments[j])
    /\ \A k \in DOMAIN loud : loud[k] /\ ~TooShort(k) =>
         \E j \in DOMAIN words : \E w \in words[j] : w.window = k

(***************************************************************************)
(* A batch is what its samples are one by one.  Each has its own result,   *)
(* whose tokens were decoded from its own features, in order, without a    *)
(* frame of padding or of a neighbour, and whose times run from token to   *)
(* token to the sample's last encoded frame, only a sample without a whole *)
(* window being cut to its duration, and no token ends before it starts;   *)
(* and what decoder and joiner see as the text so far are the last tokens  *)
(* of this sample, blanks before the first, and none of the sample before  *)
(* (engine.rs:214-276, decode.rs:74-132).                                  *)
(***************************************************************************)
OwnFrames(b, ts) ==
  \A j \in DOMAIN ts :
    /\ ts[j].start < EncodedFrames(frames[b])
    /\ ts[j].heard = [g \in 1 .. Subsampling |->
                        [m \in 1 .. NMels |-> <<b, ts[j].start * Subsampling + g, m>>]]
EndsWell(b, end) ==
  end = EncodedFrames(frames[b]) \/ (frames[b] = 1 /\ end \in 0 .. EncodedFrames(1))
Tiled(b, ts) ==
  /\ \A j \in 1 .. Len(ts) - 1 : ts[j].start <= ts[j + 1].start /\ ts[j].end = ts[j + 1].start
  /\ ts # <<>> => ts[Len(ts)].start <= ts[Len(ts)].end /\ EndsWell(b, ts[Len(ts)].end)
ContextIsSuffix ==
  \A i \in 1 .. ContextSize :
    LET j == Len(tokens) - ContextSize + i IN
    context[i] = IF j < 1 THEN Blank ELSE tokens[j].id

BatchIsSingly ==
  /\ \A b \in DOMAIN results : OwnFrames(b, results[b]) /\ Tiled(b, results[b])
  /\ Decoding => OwnFrames(Sample, tokens) /\ ContextIsSuffix
=============================================================================
