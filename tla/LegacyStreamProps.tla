-------------------------- MODULE LegacyStreamProps --------------------------
(***************************************************************************)
(* What must hold of the /stream connections (src/src/server/ws.rs:341).   *)
(***************************************************************************)
EXTENDS LegacyStream

TypeOK ==
  /\ phase \in [Conns -> Phases]
  /\ buffer \in [Conns -> Nat]
  /\ owner \in [Items -> Conns \union Requests \union {Shelf, Gone}]
  /\ asking \subseteq Requests
  /\ shutdown \in BOOLEAN
  /\ received \in [Conns -> Nat]
  /\ covered \in [Conns -> Nat]
  /\ final \in [Conns -> BOOLEAN]

(***************************************************************************)
(* Windows tile the audio: whatever no transcript covers is still in the   *)
(* buffer, and a transcript repeats at most the overlap of its             *)
(* predecessor.  No sample is skipped when a window fails, when the pool   *)
(* is empty for several messages in a row or after a Clear                 *)
(* (engine.rs:343-374, 380-405).                                           *)
(***************************************************************************)
NoGap(c) == received[c] - covered[c] <= buffer[c]
NoRepeat(c) == buffer[c] <= received[c] - covered[c] + Overlap

WindowsTile == \A c \in Conns : NoGap(c) /\ NoRepeat(c)

(***************************************************************************)
(* A connection has a triplet exactly while a guard is in scope, and then  *)
(* one: none is kept across messages, across the end of the task or a      *)
(* panic ("checkout per-operation, not per-connection", ws.rs:406), and    *)
(* none disappears from the pool.                                          *)
(***************************************************************************)
TripletPerOperation ==
  /\ TypeOK
  /\ \A c \in Conns : Holds(c) <=> phase[c] \in Guarded
  /\ \A i, j \in Items : owner[i] = owner[j] /\ owner[i] # Shelf => i = j
  /\ \A i \in Items : owner[i] # Gone

(***************************************************************************)
(* A Final is the last word: once one was handed to the socket, the task   *)
(* transcribes nothing more and only ends (ws.rs:483-484, 536).            *)
(***************************************************************************)
FinalIsLast ==
  \A c \in Conns :
    final[c] => phase[c] \in {"finishing", "done"} /\ covered[c] = received[c]

(***************************************************************************)
(* Every triplet comes back, as long as peers read or go away.             *)
(***************************************************************************)
TripletReturned == \A c \in Conns : Holds(c) ~> ~Holds(c)

(***************************************************************************)
(* After the cancellation token fires every connection ends, the ones that *)
(* wait for a message by their idle timeout (ws.rs:363-387).               *)
(***************************************************************************)
ShutdownEnds == \A c \in Conns : shutdown ~> phase[c] = "done"

=============================================================================
