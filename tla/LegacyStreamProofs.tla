-------------------------- MODULE LegacyStreamProofs --------------------------
(***************************************************************************)
(* Proofs about the /stream connections, for any sets of connections,      *)
(* other requests and triplets, any window, overlap and message sizes.     *)
(***************************************************************************)
EXTENDS LegacyStreamProps, TLAPS

Users == Conns \union Requests

(***************************************************************************)
(* The lender, as its users see it: what a loan and a return do to who     *)
(* holds a triplet.                                                        *)
(***************************************************************************)
Owned == owner \in [Items -> Users \union {Shelf, Gone}]
OneEach == \A i, j \in Items : owner[i] = owner[j] /\ owner[i] # Shelf => i = j
NoneGone == \A i \in Items : owner[i] # Gone
Lent == Owned /\ OneEach /\ NoneGone

LEMMA CheckoutStep ==
  ASSUME Lent, NEW u \in Users, TryCheckout(u)
  PROVE  /\ Lent'
         /\ \A v \in Users : Holds(v)' <=> Holds(v) \/ v = u
         /\ ~Holds(u)
  <1> USE DEF Lent, Owned, OneEach, NoneGone, Holds
  <1>1. PICK i \in Items :
          /\ owner[i] = Shelf /\ \A j \in Items : owner[j] # u
          /\ owner' = [owner EXCEPT ![i] = u]
    BY DEF TryCheckout, Lender!Lend, Lender!HasNone
  <1>2. Shelf \notin Users /\ Gone \notin Users
    BY UsersAssumption DEF Users
  <1>3. QED
    BY <1>1, <1>2

LEMMA ReturnStep ==
  ASSUME Lent, NEW u \in Users, DropGuard(u)
  PROVE  /\ Lent'
         /\ \A v \in Users : Holds(v)' <=> Holds(v) /\ v # u
  <1> USE DEF Lent, Owned, OneEach, NoneGone, Holds
  <1>1. PICK i \in Items : owner[i] = u /\ owner' = [owner EXCEPT ![i] = Shelf]
    BY DEF DropGuard, Lender!GiveBack
  <1>2. Shelf \notin Users /\ Gone \notin Users /\ Shelf # Gone
    BY UsersAssumption DEF Users
  <1>3. QED
    BY <1>1, <1>2

LEMMA LentFacts == TripletPerOperation => Lent
  BY DEF TripletPerOperation, TypeOK, Lent, Owned, OneEach, NoneGone, Users

-----------------------------------------------------------------------------
(***************************************************************************)
(* A triplet per operation.  The property is inductive: a connection takes *)
(* a triplet in the step into a guarded phase and returns it in the step   *)
(* out of one; the two other steps of guarded phases stay among them.      *)
(***************************************************************************)

(* A step of c from phase p to phase q, with what it does to the triplets. *)
Moves(c, p, q) == phase[c] = p /\ phase' = [phase EXCEPT ![c] = q]
Borrowed(c) == Lent' /\ (\A v \in Users : Holds(v)' <=> Holds(v) \/ v = c)
Returned(c) == Lent' /\ (\A v \in Users : Holds(v)' <=> Holds(v) /\ v # c)

LEMMA GuardFollowsPhase ==
  ASSUME TripletPerOperation, TypeOK', NEW c \in Conns,
         NEW p \in Phases, NEW q \in Phases, Moves(c, p, q),
         \/ Borrowed(c) /\ q \in Guarded
         \/ Returned(c) /\ q \notin Guarded
         \/ UNCHANGED owner /\ (p \in Guarded <=> q \in Guarded)
  PROVE  TripletPerOperation'
  <1> USE DEF TripletPerOperation, Moves
  <1>1. CASE Borrowed(c) /\ q \in Guarded
    BY <1>1 DEF Borrowed, Lent, OneEach, NoneGone, Users, TypeOK
  <1>2. CASE Returned(c) /\ q \notin Guarded
    BY <1>2 DEF Returned, Lent, OneEach, NoneGone, Users, TypeOK
  <1>3. CASE UNCHANGED owner /\ (p \in Guarded <=> q \in Guarded)
    BY <1>3 DEF Holds, TypeOK
  <1>4. QED
    BY <1>1, <1>2, <1>3

LEMMA InitTypeOK == Init => TypeOK
  <1> SUFFICES ASSUME Init PROVE TypeOK
    OBVIOUS
  <1>1. phase \in [Conns -> Phases] /\ final \in [Conns -> BOOLEAN]
    BY DEF Init, Phases
  <1>2. QED
    BY <1>1 DEF Init, TypeOK

LEMMA NextTypeOK == TypeOK /\ Lent /\ [Next]_vars => TypeOK'
  <1> SUFFICES ASSUME TypeOK, Lent, [Next]_vars PROVE TypeOK'
    OBVIOUS
  <1> USE DEF TypeOK, Goto, audio, others, Phases
  <1>1. ASSUME NEW u \in Users, TryCheckout(u) \/ DropGuard(u)
        PROVE  owner' \in [Items -> Conns \union Requests \union {Shelf, Gone}]
    BY <1>1, CheckoutStep, ReturnStep DEF Lent, Owned, Users
  <1>2. ASSUME NEW c \in Conns, ConnNext(c) PROVE TypeOK'
    <2>1. c \in Users
      BY DEF Users
    <2>2. CASE SendReady(c) \/ LoopTop(c) \/ RecvEnd(c) \/ RecvInvalid(c) \/ ReplyDone(c)
      BY <2>2 DEF SendReady, LoopTop, RecvEnd, RecvInvalid, ReplyDone
    <2>3. ASSUME NEW n \in Chunks, RecvAudio(c, n) PROVE TypeOK'
      <3>1. n \in Nat
        BY ChunksAssumption
      <3>2. owner' \in [Items -> Conns \union Requests \union {Shelf, Gone}]
        BY <1>1, <2>1, <2>3 DEF RecvAudio
      <3>3. phase' \in [Conns -> Phases]
        BY <2>3 DEF RecvAudio
      <3>4. QED
        BY <2>3, <3>1, <3>2, <3>3 DEF RecvAudio
    <2>4. CASE InferOk(c)
      BY <2>4, WindowAssumption DEF InferOk, TrimOverlap
    <2>5. CASE InferErr(c) \/ RecvClear(c) \/ RecvConfigure(c) \/ FinalSent(c)
      BY <2>5 DEF InferErr, RecvClear, RecvConfigure, FinalSent
    <2>6. CASE Panic(c) \/ SendDone(c) \/ FlushNone(c)
      BY <1>1, <2>1, <2>6 DEF Panic, SendDone, FlushNone
    <2>7. CASE RecvStop(c) \/ FlushAtEnd(c)
      BY <1>1, <2>1, <2>7 DEF RecvStop, FlushAtEnd, TryFlush
    <2>8. CASE FlushOk(c)
      BY <1>1, <2>1, <2>8 DEF FlushOk
    <2>9. QED
      BY <1>2, <2>2, <2>3, <2>4, <2>5, <2>6, <2>7, <2>8 DEF ConnNext
  <1>3. ASSUME NEW r \in Requests, Accept(r) \/ Borrow(r) \/ GiveUp(r) \/ Return(r)
        PROVE  TypeOK'
    BY <1>1, <1>3 DEF Accept, Borrow, GiveUp, Return, Users
  <1>4. CASE Shutdown \/ Exit
    BY <1>4 DEF Shutdown, Exit
  <1>5. CASE UNCHANGED vars
    BY <1>5 DEF vars
  <1>6. QED
    BY <1>2, <1>3, <1>4, <1>5 DEF Next

LEMMA InitTriplets == Init => TripletPerOperation
  <1> SUFFICES ASSUME Init PROVE TripletPerOperation
    OBVIOUS
  <1>1. \A c \in Conns : ~Holds(c) /\ phase[c] \notin Guarded
    BY UsersAssumption DEF Init, Holds, Guarded
  <1>2. (\A i, j \in Items : owner[i] = owner[j] /\ owner[i] # Shelf => i = j)
        /\ \A i \in Items : owner[i] # Gone
    BY UsersAssumption DEF Init
  <1>3. QED
    BY <1>1, <1>2, InitTypeOK DEF TripletPerOperation

LEMMA NextTriplets == TripletPerOperation /\ [Next]_vars => TripletPerOperation'
  <1> SUFFICES ASSUME TripletPerOperation, [Next]_vars PROVE TripletPerOperation'
    OBVIOUS
  <1>1. TypeOK /\ Lent /\ TypeOK'
    BY LentFacts, NextTypeOK DEF TripletPerOperation
  <1>2. ASSUME NEW u \in Users
        PROVE  (TryCheckout(u) => Borrowed(u)) /\ (DropGuard(u) => Returned(u))
    BY <1>1, <1>2, CheckoutStep, ReturnStep DEF Borrowed, Returned
  <1>3. ASSUME NEW c \in Conns, ConnNext(c) PROVE TripletPerOperation'
    <2> USE DEF Goto, Moves, Guarded, Phases
    <2>1. /\ TryCheckout(c) => Borrowed(c)
          /\ DropGuard(c) => Returned(c)
      BY <1>2 DEF Users
    <2>2. CASE \/ SendReady(c) \/ LoopTop(c) \/ RecvEnd(c) \/ RecvInvalid(c)
               \/ ReplyDone(c) \/ RecvClear(c) \/ RecvConfigure(c) \/ FinalSent(c)
      <3>1. PICK p \in Phases \ Guarded, q \in Phases \ Guarded : Moves(c, p, q)
        BY <2>2 DEF SendReady, LoopTop, RecvEnd, RecvInvalid, ReplyDone, RecvClear,
                    RecvConfigure, FinalSent
      <3>2. UNCHANGED owner
        BY <2>2 DEF SendReady, LoopTop, RecvEnd, RecvInvalid, ReplyDone, RecvClear,
                    RecvConfigure, FinalSent
      <3>3. QED
        BY <1>1, <3>1, <3>2, GuardFollowsPhase
    <2>3. ASSUME NEW n \in Chunks, RecvAudio(c, n) PROVE TripletPerOperation'
      <3>1. \/ Moves(c, "recv", "inferring") /\ Borrowed(c)
            \/ Moves(c, "recv", "top") /\ UNCHANGED owner
        BY <2>1, <2>3 DEF RecvAudio
      <3>2. QED
        BY <1>1, <3>1, GuardFollowsPhase
    <2>4. CASE InferOk(c) \/ InferErr(c)
      <3>1. Moves(c, "inferring", "sending") /\ UNCHANGED owner
        BY <2>4 DEF InferOk, InferErr
      <3>2. QED
        BY <1>1, <3>1, GuardFollowsPhase
    <2>5. CASE Panic(c) \/ SendDone(c) \/ FlushOk(c) \/ FlushNone(c)
      <3>1. PICK p \in Guarded, q \in Phases \ Guarded : Moves(c, p, q)
        BY <2>5 DEF Panic, SendDone, FlushOk, FlushNone
      <3>2. Returned(c)
        BY <2>1, <2>5 DEF Panic, SendDone, FlushOk, FlushNone
      <3>3. QED
        BY <1>1, <3>1, <3>2, GuardFollowsPhase
    <2>6. CASE RecvStop(c) \/ FlushAtEnd(c)
      <3>1. PICK p \in {"recv", "flush"} :
              \/ Moves(c, p, "flushing") /\ Borrowed(c)
              \/ Moves(c, p, "done") /\ UNCHANGED owner
        BY <2>1, <2>6 DEF RecvStop, FlushAtEnd, TryFlush
      <3>2. QED
        BY <1>1, <3>1, GuardFollowsPhase
    <2>7. QED
      BY <1>3, <2>2, <2>3, <2>4, <2>5, <2>6 DEF ConnNext
  <1>4. ASSUME NEW r \in Requests, Accept(r) \/ Borrow(r) \/ GiveUp(r) \/ Return(r)
        PROVE  TripletPerOperation'
    <2>1. Lent' /\ \A c \in Conns : Holds(c)' <=> Holds(c)
      <3>1. CASE Borrow(r) \/ Return(r)
        BY <1>2, <3>1, UsersAssumption DEF Borrow, Return, Borrowed, Returned, Users
      <3>2. CASE Accept(r) \/ GiveUp(r)
        BY <1>1, <3>2 DEF Accept, GiveUp, Lent, Owned, OneEach, NoneGone, Holds
      <3>3. QED
        BY <1>4, <3>1, <3>2
    <2>2. UNCHANGED phase
      BY <1>4 DEF Accept, Borrow, GiveUp, Return
    <2>3. QED
      BY <1>1, <2>1, <2>2 DEF TripletPerOperation, Lent, OneEach, NoneGone
  <1>5. CASE Shutdown \/ UNCHANGED vars
    BY <1>1, <1>5 DEF Shutdown, vars, TripletPerOperation, Holds
  <1>6. CASE Exit
    BY <1>1, <1>6, UsersAssumption DEF Exit, TripletPerOperation, Holds, Guarded
  <1>7. QED
    BY <1>3, <1>4, <1>5, <1>6 DEF Next

(***************************************************************************)
(* For any number of connections, requests and triplets, a connection has  *)
(* a triplet exactly while a guard is in scope, one at a time, and no      *)
(* triplet is shared or lost (ws.rs:406-452, 466-484, 510-536).            *)
(***************************************************************************)
THEOREM TripletsPerOperation == Spec => []TripletPerOperation
  BY InitTriplets, NextTriplets, PTL DEF Spec

-----------------------------------------------------------------------------
(***************************************************************************)
(* The windows.  Nothing but the types is needed: audio that arrives adds  *)
(* to buffer and debt alike, a window that succeeds leaves no debt and at  *)
(* most the overlap in the buffer, one that fails leaves both alone.       *)
(***************************************************************************)
AudioStep(c) ==
  \/ UNCHANGED audio
  \/ \E n \in Nat : /\ buffer' = [buffer EXCEPT ![c] = @ + n]
                    /\ received' = [received EXCEPT ![c] = @ + n]
                    /\ UNCHANGED covered
  \/ /\ covered' = [covered EXCEPT ![c] = received[c]]
     /\ UNCHANGED received
     /\ \E rest \in 0 .. Overlap : buffer' = [buffer EXCEPT ![c] = rest]
  \/ /\ buffer' = [buffer EXCEPT ![c] = 0]
     /\ received' = [received EXCEPT ![c] = 0]
     /\ covered' = [covered EXCEPT ![c] = 0]

LEMMA AudioStepTiles ==
  ASSUME TypeOK, WindowsTile, NEW c \in Conns, AudioStep(c)
  PROVE  WindowsTile'
  <1> SUFFICES ASSUME NEW d \in Conns PROVE NoGap(d)' /\ NoRepeat(d)'
    BY DEF WindowsTile
  <1>1. /\ buffer[d] \in Nat /\ received[d] \in Nat /\ covered[d] \in Nat
        /\ received[d] - covered[d] <= buffer[d]
        /\ buffer[d] <= received[d] - covered[d] + Overlap
        /\ Overlap \in Nat
    BY WindowAssumption DEF TypeOK, WindowsTile, NoGap, NoRepeat
  <1>2. CASE UNCHANGED audio \/ d # c
    <2>1. UNCHANGED <<buffer[d], received[d], covered[d]>>
      BY <1>2 DEF AudioStep, audio, TypeOK
    <2>2. QED
      BY <1>1, <2>1 DEF NoGap, NoRepeat
  <1>3. CASE ~UNCHANGED audio /\ d = c
    <2>1. \/ \E n \in Nat : buffer'[d] = buffer[d] + n /\ received'[d] = received[d] + n
                            /\ covered'[d] = covered[d]
          \/ /\ covered'[d] = received[d] /\ received'[d] = received[d]
             /\ buffer'[d] \in 0 .. Overlap
          \/ buffer'[d] = 0 /\ received'[d] = 0 /\ covered'[d] = 0
      BY <1>3 DEF AudioStep, TypeOK
    <2>2. QED
      BY <1>1, <2>1 DEF NoGap, NoRepeat
  <1>4. QED
    BY <1>2, <1>3

LEMMA NextWindows == TypeOK /\ WindowsTile /\ [Next]_vars => WindowsTile'
  <1> SUFFICES ASSUME TypeOK, WindowsTile, [Next]_vars PROVE WindowsTile'
    OBVIOUS
  <1>1. ASSUME NEW c \in Conns, ConnNext(c) PROVE AudioStep(c)
    <2>1. CASE \/ SendReady(c) \/ LoopTop(c) \/ RecvEnd(c) \/ RecvInvalid(c)
               \/ ReplyDone(c) \/ InferErr(c) \/ Panic(c) \/ SendDone(c)
               \/ RecvConfigure(c) \/ RecvStop(c) \/ FlushAtEnd(c) \/ FlushNone(c)
               \/ FinalSent(c)
      BY <2>1 DEF AudioStep, SendReady, LoopTop, RecvEnd, RecvInvalid, ReplyDone,
                  InferErr, Panic, SendDone, RecvConfigure, RecvStop, FlushAtEnd,
                  FlushNone, FinalSent
    <2>2. ASSUME NEW n \in Chunks, RecvAudio(c, n) PROVE AudioStep(c)
      BY <2>2, ChunksAssumption DEF RecvAudio, AudioStep
    <2>3. CASE InferOk(c)
      <3>1. TrimOverlap(buffer[c]) \in 0 .. Overlap
        BY WindowAssumption DEF TypeOK, TrimOverlap
      <3>2. QED
        BY <2>3, <3>1 DEF InferOk, AudioStep
    <2>4. CASE FlushOk(c)
      <3>1. 0 \in 0 .. Overlap
        BY WindowAssumption
      <3>2. QED
        BY <2>4, <3>1 DEF FlushOk, AudioStep
    <2>5. CASE RecvClear(c)
      BY <2>5 DEF RecvClear, AudioStep
    <2>6. QED
      BY <1>1, <2>1, <2>2, <2>3, <2>4, <2>5 DEF ConnNext
  <1>2. CASE ~\E c \in Conns : ConnNext(c)
    <2>1. UNCHANGED audio
      BY <1>2 DEF Next, Accept, Borrow, GiveUp, Return, Shutdown, Exit, vars, audio
    <2>2. QED
      BY <2>1 DEF audio, WindowsTile, NoGap, NoRepeat
  <1>3. QED
    BY <1>1, <1>2, AudioStepTiles

(***************************************************************************)
(* Whatever sizes messages have and whichever windows fail or find no      *)
(* triplet: what no transcript covers is in the buffer, and a transcript   *)
(* repeats at most the overlap (engine.rs:343-374, 380-405).               *)
(***************************************************************************)
THEOREM WindowsAlwaysTile == Spec => []WindowsTile
  <1>1. Init => WindowsTile
    BY WindowAssumption DEF Init, WindowsTile, NoGap, NoRepeat
  <1>2. TripletPerOperation => TypeOK
    BY DEF TripletPerOperation
  <1>3. QED
    BY <1>1, <1>2, NextWindows, TripletsPerOperation, PTL DEF Spec

-----------------------------------------------------------------------------
LEMMA NextFinal == TypeOK /\ FinalIsLast /\ [Next]_vars => FinalIsLast'
  <1> SUFFICES ASSUME TypeOK, FinalIsLast, [Next]_vars, NEW d \in Conns, final'[d]
               PROVE  phase'[d] \in {"finishing", "done"} /\ covered'[d] = received'[d]
    BY DEF FinalIsLast
  <1> USE DEF TypeOK, FinalIsLast, Goto, audio
  <1>1. ASSUME NEW c \in Conns, ConnNext(c), ~FlushOk(c)
        PROVE  UNCHANGED final /\ phase[c] \notin {"done"} /\ (phase[c] = "finishing" => FinalSent(c))
    BY <1>1 DEF ConnNext, SendReady, LoopTop, RecvEnd, RecvInvalid, ReplyDone, RecvAudio,
                InferOk, InferErr, Panic, SendDone, RecvClear, RecvConfigure, RecvStop,
                FlushAtEnd, FlushNone, FinalSent
  <1>2. ASSUME NEW c \in Conns, ConnNext(c), c # d
        PROVE  UNCHANGED <<phase[d], covered[d], received[d], final[d]>>
    BY <1>2 DEF ConnNext, SendReady, LoopTop, RecvEnd, RecvInvalid, ReplyDone, RecvAudio,
                InferOk, InferErr, Panic, SendDone, RecvClear, RecvConfigure, RecvStop,
                FlushAtEnd, TryFlush, FlushOk, FlushNone, FinalSent
  <1>3. CASE ConnNext(d)
    <2>1. CASE FlushOk(d)
      BY <2>1 DEF FlushOk
    <2>2. CASE ~FlushOk(d)
      <3>1. FinalSent(d)
        BY <1>1, <1>3, <2>2
      <3>2. QED
        BY <1>1, <1>3, <2>2, <3>1 DEF FinalSent
    <2>3. QED
      BY <2>1, <2>2
  <1>4. ASSUME NEW c \in Conns, ConnNext(c), c # d
        PROVE  phase'[d] \in {"finishing", "done"} /\ covered'[d] = received'[d]
    BY <1>2, <1>4
  <1>5. CASE ~\E c \in Conns : ConnNext(c)
    BY <1>5 DEF Next, Accept, Borrow, GiveUp, Return, Shutdown, Exit, vars
  <1>6. QED
    BY <1>3, <1>4, <1>5

(***************************************************************************)
(* After a Final a connection neither transcribes nor receives: nothing    *)
(* leads from there but to the end of the task (ws.rs:483-484, 536).       *)
(***************************************************************************)
THEOREM FinalStaysLast == Spec => []FinalIsLast
  <1>1. Init => FinalIsLast
    BY DEF Init, FinalIsLast
  <1>2. TripletPerOperation => TypeOK
    BY DEF TripletPerOperation
  <1>3. QED
    BY <1>1, <1>2, NextFinal, TripletsPerOperation, PTL DEF Spec
=============================================================================
