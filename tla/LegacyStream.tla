----------------------------- MODULE LegacyStream -----------------------------
(***************************************************************************)
(* The /stream WebSocket handler (src/src/server/ws.rs, handle_socket)     *)
(* with the growing-buffer engine behind it (inference/engine.rs,          *)
(* inference/streaming.rs), several connections sharing one session pool   *)
(* with other requests.  The pool is taken at the level of SessionLender,  *)
(* which SessionPool implements; the server never closes it.               *)
(*                                                                         *)
(* Audio is counted, not represented: a chunk is a number of units, the    *)
(* transcript of a buffer covers exactly what the buffer holds.            *)
(***************************************************************************)
EXTENDS Integers, FiniteSets

CONSTANTS
  Conns,      (* WebSocket connections                                     *)
  Requests,   (* other users of the pool (HTTP, gRPC)                      *)
  Items,      (* session triplets                                          *)
  Shelf, Gone,
  Window,     (* units that trigger a partial transcription (5 s)          *)
  Overlap,    (* units kept after each window (2 s)                        *)
  Chunks,     (* sizes of a valid binary message, empty ones included      *)
  MaxAudio    (* bound of the model: audio since the last Clear            *)

ASSUME WindowAssumption == Overlap \in Nat /\ Window \in Nat /\ Overlap < Window
ASSUME ChunksAssumption == Chunks \subseteq Nat /\ MaxAudio \in Nat
ASSUME UsersAssumption ==
  /\ Conns \intersect Requests = {}
  /\ {Shelf, Gone} \intersect (Conns \union Requests) = {} /\ Shelf # Gone

VARIABLES
  phase,      (* where each connection's task is                           *)
  buffer,     (* StreamingState::audio_buffer, in units                    *)
  owner,      (* who has each triplet                                      *)
  asking,     (* requests the server has accepted that have none yet       *)
  shutdown,   (* the CancellationToken                                     *)
  received,   (* history: audio accepted since the last Clear              *)
  covered,    (* history: the prefix of it that transcripts cover          *)
  final       (* history: a Final was handed to the socket                 *)

vars == <<phase, buffer, owner, asking, shutdown, received, covered, final>>
audio == <<buffer, received, covered>>
others == <<asking, shutdown>>

Lender == INSTANCE SessionLender
            WITH Clients <- Conns \union Requests, inService <- TRUE

Phases == {"connecting", "top", "recv", "replying", "inferring", "sending",
           "flush", "flushing", "finishing", "done"}

(* The phases in which a PoolGuard is in scope.                            *)
Guarded == {"inferring", "sending", "flushing"}

Holds(c) == \E i \in Items : owner[i] = c
PoolEmpty == \A i \in Items : owner[i] # Shelf

Goto(c, p) == phase' = [phase EXCEPT ![c] = p]

Init ==
  /\ phase = [c \in Conns |-> "connecting"]
  /\ buffer = [c \in Conns |-> 0]
  /\ owner = [i \in Items |-> Shelf]
  /\ asking = {}
  /\ shutdown = FALSE
  /\ received = [c \in Conns |-> 0]
  /\ covered = [c \in Conns |-> 0]
  /\ final = [c \in Conns |-> FALSE]

-----------------------------------------------------------------------------
(* The pool, as a connection uses it *)

TryCheckout(c) == \E i \in Items : Lender!Lend(i, c)

DropGuard(c) == \E i \in Items : Lender!GiveBack(i, c)

-----------------------------------------------------------------------------
(* Connecting, and the top of the loop *)

(* The ready message goes out, or the peer is gone already.                *)
SendReady(c) ==
  /\ phase[c] = "connecting"
  /\ Goto(c, "top") \/ Goto(c, "done")
  /\ UNCHANGED <<audio, owner, others, final>>

(* Mutant: the loop does not look at the cancellation token.               *)
LoopTopNoCheck(c) ==
  /\ phase[c] = "top"
  /\ Goto(c, "recv")
  /\ UNCHANGED <<audio, owner, others, final>>

(* Shutdown is noticed only here, not while the task awaits a message.     *)
LoopTop(c) ==
  /\ phase[c] = "top"
  /\ Goto(c, IF shutdown THEN "flush" ELSE "recv")
  /\ UNCHANGED <<audio, owner, others, final>>

(* The peer closes, disappears or sends too long a message, or the idle    *)
(* timeout fires.                                                          *)
RecvEnd(c) ==
  /\ phase[c] = "recv"
  /\ Goto(c, "flush")
  /\ UNCHANGED <<audio, owner, others, final>>

-----------------------------------------------------------------------------
(* Binary messages *)

(* Non-finite samples are answered with an error and not buffered.         *)
RecvInvalid(c) ==
  /\ phase[c] = "recv"
  /\ Goto(c, "replying")
  /\ UNCHANGED <<audio, owner, others, final>>

ReplyDone(c) ==
  /\ phase[c] = "replying"
  /\ Goto(c, "top")
  /\ UNCHANGED <<audio, owner, others, final>>

(* The samples are buffered; from a full window on, a triplet is tried for,*)
(* and when there is none the audio waits for the next message.            *)
RecvAudio(c, n) ==
  /\ phase[c] = "recv"
  /\ received[c] + n <= MaxAudio
  /\ buffer' = [buffer EXCEPT ![c] = @ + n]
  /\ received' = [received EXCEPT ![c] = @ + n]
  /\ \/ /\ buffer[c] + n >= Window
        /\ TryCheckout(c)
        /\ Goto(c, "inferring")
     \/ /\ buffer[c] + n < Window \/ PoolEmpty
        /\ Goto(c, "top")
        /\ UNCHANGED owner
  /\ UNCHANGED <<covered, others, final>>

(* The tail that process_chunk leaves in the buffer.                       *)
TrimOverlap(len) == IF len > Overlap THEN Overlap ELSE len

(* process_chunk succeeds: the window is covered, its tail is kept, and    *)
(* the guard stays in scope while the Partial is sent.                     *)
InferOk(c) ==
  /\ phase[c] = "inferring"
  /\ covered' = [covered EXCEPT ![c] = received[c]]
  /\ buffer' = [buffer EXCEPT ![c] = TrimOverlap(@)]
  /\ Goto(c, "sending")
  /\ UNCHANGED <<received, owner, others, final>>

(* Mutant: the buffer taken for inference is not restored on an error.     *)
InferErrLosesBuffer(c) ==
  /\ phase[c] = "inferring"
  /\ buffer' = [buffer EXCEPT ![c] = 0]
  /\ Goto(c, "sending")
  /\ UNCHANGED <<received, covered, owner, others, final>>

(* process_chunk fails: the buffer is restored, the error is sent with the *)
(* guard still in scope.                                                   *)
InferErr(c) ==
  /\ phase[c] = "inferring"
  /\ Goto(c, "sending")
  /\ UNCHANGED <<audio, owner, others, final>>

(* Mutant: the guard outlives the reply.                                   *)
SendDoneKeepsGuard(c) ==
  /\ phase[c] = "sending"
  /\ Goto(c, "top")
  /\ UNCHANGED <<owner, audio, others, final>>

(* The reply is out, or the peer is found gone: the guard is dropped.      *)
SendDone(c) ==
  /\ phase[c] = "sending"
  /\ DropGuard(c)
  /\ Goto(c, "top")
  /\ UNCHANGED <<audio, others, final>>

(* A panic in the inference unwinds the connection's task.                 *)
Panic(c) ==
  /\ phase[c] \in {"inferring", "flushing"}
  /\ DropGuard(c)
  /\ Goto(c, "done")
  /\ UNCHANGED <<audio, others, final>>

-----------------------------------------------------------------------------
(* Text messages and the end of the connection *)

RecvClear(c) ==
  /\ phase[c] = "recv"
  /\ buffer' = [buffer EXCEPT ![c] = 0]
  /\ received' = [received EXCEPT ![c] = 0]
  /\ covered' = [covered EXCEPT ![c] = 0]
  /\ Goto(c, "top")
  /\ UNCHANGED <<owner, others, final>>

(* configure with an unsupported rate is answered with an error; any other *)
(* text is ignored.                                                        *)
RecvConfigure(c) ==
  /\ phase[c] = "recv"
  /\ Goto(c, "replying") \/ Goto(c, "top")
  /\ UNCHANGED <<audio, owner, others, final>>

(* try_checkout().and_then(flush_state): with no triplet at hand nothing   *)
(* is flushed and the task ends.                                           *)
TryFlush(c) ==
  \/ TryCheckout(c) /\ Goto(c, "flushing")
  \/ PoolEmpty /\ Goto(c, "done") /\ UNCHANGED owner

RecvStop(c) ==
  /\ phase[c] = "recv"
  /\ TryFlush(c)
  /\ UNCHANGED <<audio, others, final>>

(* After the loop, when no Stop has flushed.                               *)
FlushAtEnd(c) ==
  /\ phase[c] = "flush"
  /\ TryFlush(c)
  /\ UNCHANGED <<audio, others, final>>

(* flush_state transcribes the rest; the guard goes before the Final does. *)
FlushOk(c) ==
  /\ phase[c] = "flushing"
  /\ buffer[c] > 0
  /\ DropGuard(c)
  /\ covered' = [covered EXCEPT ![c] = received[c]]
  /\ buffer' = [buffer EXCEPT ![c] = 0]
  /\ final' = [final EXCEPT ![c] = TRUE]
  /\ Goto(c, "finishing")
  /\ UNCHANGED <<received, others>>

(* An empty buffer, or a failed inference, yields no segment.              *)
FlushNone(c) ==
  /\ phase[c] = "flushing"
  /\ DropGuard(c)
  /\ Goto(c, "done")
  /\ UNCHANGED <<audio, others, final>>

(* Mutant: Stop does not leave the loop.                                   *)
FinalSentContinues(c) ==
  /\ phase[c] = "finishing"
  /\ Goto(c, "top")
  /\ UNCHANGED <<audio, owner, others, final>>

FinalSent(c) ==
  /\ phase[c] = "finishing"
  /\ Goto(c, "done")
  /\ UNCHANGED <<audio, owner, others, final>>

-----------------------------------------------------------------------------
(* The rest of the server *)

(* The listener accepts a request; none once the token is cancelled.       *)
Accept(r) ==
  /\ ~shutdown
  /\ r \notin asking /\ Lender!HasNone(r)
  /\ asking' = asking \union {r}
  /\ UNCHANGED <<phase, audio, owner, shutdown, final>>

(* It gets a triplet, after the cancellation as before...                  *)
Borrow(r) ==
  /\ r \in asking
  /\ TryCheckout(r)
  /\ asking' = asking \ {r}
  /\ UNCHANGED <<phase, audio, shutdown, final>>

(* ...or ends without: refused, after 30 seconds, or its client is gone.   *)
GiveUp(r) ==
  /\ r \in asking
  /\ asking' = asking \ {r}
  /\ UNCHANGED <<phase, audio, owner, shutdown, final>>

Return(r) ==
  /\ DropGuard(r)
  /\ UNCHANGED <<phase, audio, others, final>>

Shutdown ==
  /\ ~shutdown
  /\ shutdown' = TRUE
  /\ UNCHANGED <<phase, audio, owner, asking, final>>

(* run_server waits for the HTTP requests in flight, not for connections   *)
(* that were upgraded: their tasks are dropped with the runtime.           *)
Exit ==
  /\ shutdown
  /\ asking = {} /\ \A i \in Items : owner[i] \notin Requests
  /\ \E c \in Conns : phase[c] # "done"
  /\ phase' = [c \in Conns |-> "done"]
  /\ owner' = [i \in Items |-> Shelf]
  /\ UNCHANGED <<audio, others, final>>

-----------------------------------------------------------------------------
Infer(c) == InferOk(c) \/ InferErr(c) \/ Panic(c)
EndFlush(c) == FlushOk(c) \/ FlushNone(c) \/ Panic(c)

ConnNext(c) ==
  \/ SendReady(c) \/ LoopTop(c) \/ RecvEnd(c) \/ RecvInvalid(c) \/ ReplyDone(c)
  \/ \E n \in Chunks : RecvAudio(c, n)
  \/ InferOk(c) \/ InferErr(c) \/ Panic(c) \/ SendDone(c)
  \/ RecvClear(c) \/ RecvConfigure(c) \/ RecvStop(c)
  \/ FlushAtEnd(c) \/ FlushOk(c) \/ FlushNone(c) \/ FinalSent(c)

Next ==
  \/ \E c \in Conns : ConnNext(c)
  \/ \E r \in Requests : Accept(r) \/ Borrow(r) \/ GiveUp(r) \/ Return(r)
  \/ Shutdown \/ Exit

(***************************************************************************)
(* The runtime runs a task that can run, inference terminates and the idle *)
(* timeout ends the wait for a message.  A peer that reads what it is sent *)
(* is an assumption of its own: a send has no timeout.  Nothing obliges    *)
(* the process to exit.                                                    *)
(***************************************************************************)
TasksRun ==
  /\ \A c \in Conns :
       /\ WF_vars(SendReady(c)) /\ WF_vars(LoopTop(c)) /\ WF_vars(RecvEnd(c))
       /\ WF_vars(Infer(c)) /\ WF_vars(EndFlush(c)) /\ WF_vars(FlushAtEnd(c))
  /\ \A r \in Requests : WF_vars(Return(r))

(* A peer reads, or its connection breaks.                                 *)
PeersRead ==
  \A c \in Conns :
    WF_vars(ReplyDone(c)) /\ WF_vars(SendDone(c)) /\ WF_vars(FinalSent(c))

Spec == Init /\ [][Next]_vars
FairSpec == Spec /\ TasksRun /\ PeersRead

=============================================================================
