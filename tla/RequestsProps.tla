---------------------------- MODULE RequestsProps ----------------------------
(***************************************************************************)
(* What must hold of the request handlers and their blocking tasks.        *)
(***************************************************************************)
EXTENDS Requests

Places == {"idle", "checkout", "await", "body", "infer", "admitted",
           "messages"} \union Over
Event == [type : {"partial", "final", "error"}, n : 0..MaxChunks]

RequestsTypeOK ==
  /\ kind \in [Calls -> Kinds] /\ pc \in [Calls -> Places]
  /\ worker \in [Calls -> {"none", "run", "over", "returned", "done", "error"}]
  /\ held \subseteq Calls /\ free \in Nat /\ free + Cardinality(held) = Triplets
  /\ \A c \in held : worker[c] \in {"run", "over"} \/ At(c, "infer")
  /\ chunks \in [Calls -> 0..MaxChunks] /\ made \in [Calls -> 0..MaxChunks]
  /\ \A c \in Calls :
       Events(c) \in Seq(Event) /\ Len(chan[c]) <= Room
  /\ {open, stalled, pipelines} \subseteq SUBSET Calls
  /\ permits \in 0..Permits /\ cancelled \in BOOLEAN /\ exited \in BOOLEAN

(* Events are numbered by the segments made when they are sent: a partial  *)
(* brings the last of them, and a final comes when there will be no more.  *)
Ordered(c) ==
  \A i \in 1..Len(Events(c)) :
    LET event == Events(c)[i] IN
    /\ event.type = "partial" => event.n = i
    /\ event.type # "partial" => i = Len(Events(c))
    /\ event.type = "final"   => event.n = i - 1

(***************************************************************************)
(* However slowly an SSE client reads, its events are the segments from    *)
(* the first on, without a gap; a final or an error is the last of them,   *)
(* and a final means that no segment was dropped (http.rs:547-571).        *)
(***************************************************************************)
SseInOrder == RequestsTypeOK /\ \A c \in Calls : Ordered(c)

(***************************************************************************)
(* Every triplet taken comes back, whatever clients do: an SSE reader that *)
(* stops reading, a client that leaves while its task runs or panics, a    *)
(* shutdown (http.rs:328-368, 519-578, grpc.rs:90-112).                    *)
(***************************************************************************)
TripletsComeBack == \A c \in Calls : c \in held ~> c \notin held

(***************************************************************************)
(* Every HTTP call and every unary call is over at last, unless its reader *)
(* has stalled: a wait for a triplet ends, a shutdown ends an SSE response *)
(* too (http.rs:121-129, 549, 567-578).  And after a shutdown main returns *)
(* at last: the only calls it may wait for without end are a stalled SSE   *)
(* reader's and an open gRPC stream, which watch neither the token nor an  *)
(* idle timeout (bin/server.rs:240-253, grpc.rs:169).                      *)
(***************************************************************************)
Endless(c) ==
  \/ At(c, "body") /\ c \in stalled
  \/ At(c, "messages")

CallsEnd ==
  /\ \A c \in Calls :
       (pc[c] # "idle" /\ kind[c] # "stream") ~> (pc[c] \in Over \/ c \in stalled)
  /\ cancelled ~> (exited \/ \E c \in Calls : Endless(c))

-----------------------------------------------------------------------------
(***************************************************************************)
(* The comment at grpc.rs:140 says of streaming connections "Concurrency   *)
(* is limited by `stream_semaphore` instead."  In the code the permit is a *)
(* local of the handler, which returns before its stream is first polled   *)
(* (grpc.rs:147, 217).                                                     *)
(***************************************************************************)
GrpcStreamsBounded == Cardinality(pipelines) <= Permits
=============================================================================
