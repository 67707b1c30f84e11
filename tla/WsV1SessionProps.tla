--------------------------- MODULE WsV1SessionProps ---------------------------
(***************************************************************************)
(* What must hold of the /v1/transcribe/stream connections                 *)
(* (src/src/server/ws.rs:86).                                              *)
(***************************************************************************)
EXTENDS WsV1Session

Session ==
  [phase : Phases, op : {"accept", "flush"}, kind : {"streaming", "chunked"},
   gone : BOOLEAN, speech : BOOLEAN, pending : Nat, buffer : Nat, flight : Nat,
   text : Nat, fed : Nat, lost : Nat, kept : Nat, failed : BOOLEAN,
   ready : BOOLEAN, answers : Nat, sent : 0..MaxAudio]

TypeOK ==
  /\ conn \in [Conns -> Session]
  /\ permits \in 0..MaxConns
  /\ owner \in [Items -> Conns \union Requests \union {Shelf, Gone}]
  /\ asking \subseteq Requests
  /\ shutdown \in BOOLEAN

(***************************************************************************)
(* "Max concurrent WebSocket connections" (docs/SECURITY.md:35): however   *)
(* connections end, by Stop, error, timeout, shutdown or a panic of their  *)
(* task, no more than MaxConns are served, and every other permit is free  *)
(* for the next one.                                                       *)
(***************************************************************************)
StreamsBounded ==
  /\ TypeOK
  /\ Cardinality({c \in Conns : conn[c].phase \in Served}) + permits = MaxConns

(***************************************************************************)
(* A connection that was told Ready gets exactly one closing answer, Final *)
(* or flush_error, as the last thing it is sent, unless the process exits  *)
(* or a panic of the pipeline took the means to answer away; Stop and the  *)
(* flush after the loop never both answer (ws.rs:296-299).                 *)
(***************************************************************************)
OneAnswer ==
  \A c \in Conns :
    /\ conn[c].answers = IF At(c, "done") THEN 1 ELSE 0
    /\ At(c, "done") => conn[c].ready
    /\ At(c, "crashed") => conn[c].gone
    /\ At(c, "denied") => ~conn[c].ready

(***************************************************************************)
(* What a closing text covers, in whatever messages the speech came and    *)
(* whether its end was heard, forced by a full buffer or by the end of the *)
(* connection.  A chunked connection leaves nothing in its buffer and owes *)
(* all the speech since it began but what went into transcriptions that    *)
(* failed: a failure costs its own utterance and no other; after a Clear   *)
(* it owes at least the speech since then.  A streaming one owes all the   *)
(* speech since its pipeline was reset, by Clear or by the end of an       *)
(* utterance, and after a failure never the same speech twice.             *)
(***************************************************************************)
ChunkedFinal(r) ==
  /\ r.buffer = 0 /\ r.flight = 0
  /\ r.text + r.lost >= r.fed
  /\ r.kept = 0 => r.text + r.lost = r.fed

StreamingFinal(r) ==
  /\ r.text <= r.fed
  /\ ~r.failed => r.text = r.fed /\ r.buffer = 0

FinalComplete ==
  \A c \in Conns :
    At(c, "finishing") =>
      IF conn[c].kind = "chunked" THEN ChunkedFinal(conn[c]) ELSE StreamingFinal(conn[c])

(***************************************************************************)
(* A chunked connection has a triplet only while it transcribes an         *)
(* utterance, and then one; a streaming connection never has one.  None is *)
(* lost by failed inferences, panics or the end of connections.            *)
(***************************************************************************)
TripletPerUtterance ==
  /\ \A c \in Conns :
       (\E i \in Items : owner[i] = c) <=> At(c, "inferring")
  /\ \A i, j \in Items : owner[i] = owner[j] /\ owner[i] # Shelf => i = j
  /\ \A i \in Items : owner[i] # Gone
  /\ \A c \in Conns :
       conn[c].phase \in {"checkout", "inferring"} =>
         conn[c].kind = "chunked" /\ conn[c].flight > 0

(***************************************************************************)
(* After the cancellation token fires every connection ends, those that    *)
(* wait for a triplet without a deadline included: requests accepted       *)
(* before may still take triplets, but there are no new ones, and the      *)
(* triplets come back.                                                     *)
(***************************************************************************)
ShutdownEnds == \A c \in Conns : shutdown ~> conn[c].phase \in Ended

-----------------------------------------------------------------------------
(***************************************************************************)
(* "Audio buffer backpressure limit: 30 seconds" (docs/SECURITY.md:36),    *)
(* answered with "Audio buffer full" (ws.rs:207): a connection is refused  *)
(* only when the audio that waits for processing, this message included,   *)
(* exceeds the limit.  It does not hold: pending_samples only ever grows.  *)
(***************************************************************************)
RefusedOnlyWhenFull ==
  [][\A c \in Conns :
        At(c, "recv") /\ conn'[c].phase = "refusing" =>
          conn[c].buffer + (conn'[c].pending - conn[c].pending) > MaxPending]_vars

=============================================================================
