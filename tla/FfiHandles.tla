----------------------------- MODULE FfiHandles -----------------------------
(***************************************************************************)
(* The C interface, src/src/ffi.rs: engines and streams behind raw         *)
(* pointers, the two global sets of live pointers, and calls from several  *)
(* threads of a host.                                                      *)
(*                                                                         *)
(* Pointers are addresses, which the allocator reuses; an object is one    *)
(* allocation.  The host keeps to docs/FFI.md: it uses a handle until it   *)
(* frees it, not during or after, and a stream from one thread at a time.  *)
(* It may free a handle again, also from a second thread, as the test      *)
(* "global set prevents double-free" does, as long as the address is not   *)
(* given to a new handle of the same kind: a live set cannot tell the two  *)
(* apart.  A null pointer or a bad string is turned away without effect   *)
(* and has no action; `disposed` is set by tests only.                     *)
(***************************************************************************)
EXTENDS Integers, FiniteSets

CONSTANTS
  Threads,      (* of the host                                             *)
  Addresses,    (* what the allocator may return                           *)
  Objects,      (* bound: allocations in a life of the process             *)
  PoolSizes     (* what the host asks for                                  *)

ASSUME PoolSizesAssumption == PoolSizes \subseteq Nat
ASSUME ThreadsAssumption == IsFiniteSet(Threads)

Kinds == {"engine", "stream"}
Nobody == [step |-> "idle"]
Unborn == [kind |-> "engine", at |-> 0, state |-> "unborn", size |-> 0, idle |-> 0]

VARIABLES
  obj,          (* kind, address, state, pool size and idle triplets       *)
  live,         (* LIVE_ENGINES and LIVE_STREAMS                           *)
  host,         (* what the host did with each handle                      *)
  call,         (* the call each thread is in                              *)
  drops,        (* history: how often each object was dropped              *)
  broken,       (* memory was freed that was not allocated                 *)
  aborted       (* a panic reached an extern "C" boundary                  *)

ffiVars == <<obj, live, host, call, drops, broken, aborted>>

FfiInit ==
  /\ obj = [o \in Objects |-> Unborn]
  /\ live = [k \in Kinds |-> {}]
  /\ host = [o \in Objects |-> "unknown"]
  /\ call = [t \in Threads |-> Nobody]
  /\ drops = [o \in Objects |-> 0]
  /\ broken = FALSE
  /\ aborted = FALSE

Allocated(a) == {o \in Objects : obj[o].state = "allocated" /\ obj[o].at = a}
Calling(t, s) == call[t].step = s
Return(t) == call' = [call EXCEPT ![t] = Nobody]
Step(t, s) == call' = [call EXCEPT ![t].step = s]
Enter(t, s, o) == call' = [call EXCEPT ![t] = [step |-> s, on |-> o]]
Inside(o) == {t \in Threads : call[t] # Nobody /\ call[t].on = o}
Freeing == {"remove", "drop"}

(* Which of the two sets has the pointers of a kind.                       *)
(* Mutant: engines and streams share one.                                  *)
RegistryShared(k) == "engine"
Registry(k) == k

-----------------------------------------------------------------------------
(* phonex_engine_new_with_pool_size and phonex_stream_new                  *)

New(t, o, k, n) ==
  /\ call[t] = Nobody
  /\ host[o] = "unknown" /\ Inside(o) = {}
  /\ obj' = [obj EXCEPT ![o] = [Unborn EXCEPT !.kind = k, !.size = n, !.idle = n]]
  /\ Enter(t, "load", o)
  /\ UNCHANGED <<live, host, drops, broken, aborted>>

NewEngine(t, o) == \E n \in PoolSizes : New(t, o, "engine", n)
NewStream(t, o) == New(t, o, "stream", 0)

LoadFails(t) ==
  /\ Calling(t, "load")
  /\ obj' = [obj EXCEPT ![call[t].on] = Unborn]
  /\ Return(t)
  /\ UNCHANGED <<live, host, drops, broken, aborted>>

(* A second free of an earlier handle of this kind, still to look for a.   *)
StaleFree(a, k) ==
  \E t \in Threads : Calling(t, "remove") /\ obj[call[t].on].at = a
                     /\ obj[call[t].on].kind = k

Allocate(t, a) ==
  LET o == call[t].on IN
  /\ Calling(t, "load")
  /\ Allocated(a) = {}
  /\ ~StaleFree(a, obj[o].kind)
  /\ obj' = [obj EXCEPT ![o].state = "allocated", ![o].at = a]
  /\ Step(t, "insert")
  /\ UNCHANGED <<live, host, drops, broken, aborted>>

Insert(t) ==
  LET o == call[t].on IN
  /\ Calling(t, "insert")
  /\ live' = [live EXCEPT ![Registry(obj[o].kind)] = @ \union {obj[o].at}]
  /\ host' = [host EXCEPT ![o] = "given"]
  /\ Return(t)
  /\ UNCHANGED <<obj, drops, broken, aborted>>

-----------------------------------------------------------------------------
(* phonex_engine_free and phonex_stream_free                               *)

Reused(o) ==
  \E p \in Objects \ {o} : obj[p].state = "allocated" /\ obj[p].at = obj[o].at
                           /\ obj[p].kind = obj[o].kind

Free(t, o) ==
  /\ call[t] = Nobody
  /\ \/ host[o] = "given" /\ Inside(o) = {}
     \/ host[o] = "freed" /\ ~Reused(o)
  /\ host' = [host EXCEPT ![o] = "freed"]
  /\ Enter(t, "remove", o)
  /\ UNCHANGED <<obj, live, drops, broken, aborted>>

(* Only who took the pointer out of the set goes on.                       *)
Remove(t) ==
  LET o == call[t].on
      k == Registry(obj[o].kind) IN
  /\ Calling(t, "remove")
  /\ live' = [live EXCEPT ![k] = @ \ {obj[o].at}]
  /\ IF obj[o].at \in live[k] THEN Step(t, "drop") ELSE Return(t)
  /\ UNCHANGED <<obj, host, drops, broken, aborted>>

(* Box::from_raw drops what is at the address now, whatever it is.         *)
Drop(t) ==
  LET there == Allocated(obj[call[t].on].at) IN
  /\ Calling(t, "drop")
  /\ obj' = [o \in Objects |-> IF o \in there THEN [obj[o] EXCEPT !.state = "dropped"]
                               ELSE obj[o]]
  /\ drops' = [o \in Objects |-> IF o \in there THEN drops[o] + 1 ELSE drops[o]]
  /\ broken' = (broken \/ there = {})
  /\ Return(t)
  /\ UNCHANGED <<live, host, aborted>>

-----------------------------------------------------------------------------
(* phonex_transcribe_file: Engine::transcribe_file with try_checkout       *)

Transcribe(t, o) ==
  /\ call[t] = Nobody
  /\ host[o] = "given" /\ obj[o].kind = "engine"
  /\ Enter(t, "read", o)
  /\ UNCHANGED <<obj, live, host, drops, broken, aborted>>

ReadWav(t) ==
  /\ Calling(t, "read")
  /\ Return(t) \/ Step(t, "checkout")
  /\ UNCHANGED <<obj, live, host, drops, broken, aborted>>

TryCheckout(t) ==
  LET o == call[t].on IN
  /\ Calling(t, "checkout")
  /\ IF obj[o].idle > 0
     THEN obj' = [obj EXCEPT ![o].idle = @ - 1] /\ Step(t, "infer")
     ELSE obj' = obj /\ Return(t)
  /\ UNCHANGED <<live, host, drops, broken, aborted>>

(* Mutant: the triplet of a failed transcription is not returned.          *)
InferLeaks(t) ==
  LET o == call[t].on IN
  /\ Calling(t, "infer")
  /\ \/ obj' = [obj EXCEPT ![o].idle = @ + 1]
     \/ obj' = obj
  /\ Return(t)
  /\ UNCHANGED <<live, host, drops, broken, aborted>>
(* With a text or an error, the guard returns the triplet.                 *)
Infer(t) ==
  LET o == call[t].on IN
  /\ Calling(t, "infer")
  /\ obj' = [obj EXCEPT ![o].idle = @ + 1]
  /\ Return(t)
  /\ UNCHANGED <<live, host, drops, broken, aborted>>

-----------------------------------------------------------------------------
(* phonex_stream_process_chunk, _flush, _flush_with_tokens and _reset,     *)
(* what they do to the pipeline is in StreamingPipeline                    *)

StreamCall(t, o) ==
  /\ call[t] = Nobody
  /\ host[o] = "given" /\ obj[o].kind = "stream" /\ Inside(o) = {}
  /\ Enter(t, "stream", o)
  /\ UNCHANGED <<obj, live, host, drops, broken, aborted>>

StreamReturns(t) ==
  /\ Calling(t, "stream")
  /\ Return(t)
  /\ UNCHANGED <<obj, live, host, drops, broken, aborted>>

Panic(t) ==
  /\ Calling(t, "infer") \/ Calling(t, "stream")
  /\ aborted' = TRUE
  /\ UNCHANGED <<obj, live, host, call, drops, broken>>

FfiNext ==
  /\ ~aborted
  /\ \E t \in Threads :
       \/ \E o \in Objects :
            \/ NewEngine(t, o) \/ NewStream(t, o)
            \/ Free(t, o) \/ Transcribe(t, o) \/ StreamCall(t, o)
       \/ \E a \in Addresses : Allocate(t, a)
       \/ LoadFails(t) \/ Insert(t) \/ Remove(t) \/ Drop(t)
       \/ ReadWav(t) \/ TryCheckout(t) \/ Infer(t) \/ StreamReturns(t) \/ Panic(t)
=============================================================================
