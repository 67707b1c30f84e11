----------------------------- MODULE ModelReload -----------------------------
(***************************************************************************)
(* The model hot-swap of POST /v1/admin/reload (src/src/server/http.rs,    *)
(* reload) against the requests that use the model.  The server keeps its  *)
(* model in three RwLocks of AppState, engine, model_dir and model_info,   *)
(* written one after the other; the gRPC service keeps the values it was   *)
(* started with.                                                           *)
(*                                                                         *)
(* An engine is named by the reload that built it.  A lock that is held    *)
(* across no await is taken and released within a step; only the engine's  *)
(* read guard outlives one (health, models and the end of reload).         *)
(***************************************************************************)
EXTENDS Integers, Sequences, FiniteSets

CONSTANTS
  Models,       (* model directories                                       *)
  FirstModel,   (* the one the server was started with                     *)
  Streaming,    (* the models whose model.json says "streaming"            *)
  First,        (* the engine built by main                                *)
  Reloads,      (* reload requests                                         *)
  Requests,     (* HTTP transcriptions                                     *)
  Legacy,       (* /stream connections                                     *)
  Streams,      (* /v1/transcribe/stream connections                       *)
  Probes,       (* GET /health and GET /v1/models                          *)
  State, Grpc   (* AppState and the gRPC service as holders of an engine   *)

ASSUME ModelsAssumption == FirstModel \in Models /\ Streaming \subseteq Models
ASSUME EnginesAssumption == First \notin Reloads

(* The tasks that clone AppState's engine when they start.                 *)
Users == Requests \union Legacy

(* The tasks are different ones.                                           *)
ASSUME TasksAssumption ==
  /\ Streams \intersect (Reloads \union Users \union {State, Grpc}) = {}
  /\ Probes \intersect Reloads = {}

Engines == {First} \union Reloads
Holders == Reloads \union Users \union Streams \union {State, Grpc}

VARIABLES
  engine,       (* AppState.engine                                         *)
  dir,          (* AppState.model_dir                                      *)
  info,         (* AppState.model_info, by its model                       *)
  modelOf,      (* the model each engine was built from                    *)
  holders,      (* who has an Arc of each engine                           *)
  readers,      (* who holds the read guard of engine across an await      *)
  reload,       (* where each reload is                                    *)
  stream,       (* where each stream connection is, and what it has read   *)
  installed,    (* history: the engines, in the order AppState held them   *)
  disturbed,    (* history: two reloads wrote at a time, or one was        *)
                (* dropped between its writes                              *)
  calm          (* history: streams during whose reads nobody wrote        *)

vars == <<engine, dir, info, modelOf, holders, readers, reload, stream,
          installed, disturbed, calm>>
model == <<engine, dir, info>>
history == <<installed, disturbed, calm>>

ReloadPhases ==
  {"idle", "load", "engine", "dir", "info", "reply", "naming",
   "done", "failed", "dropped"}
ReloadEnded == {"done", "failed", "dropped"}
Writing == {r \in Reloads : reload[r] \in {"dir", "info"}}

StreamPhases == {"idle", "dir", "engine", "running"}
NoRead == [phase |-> "idle", info |-> FirstModel, dir |-> FirstModel]

Init ==
  /\ engine = First
  /\ dir = FirstModel
  /\ info = FirstModel
  /\ modelOf = [e \in Engines |-> FirstModel]
  /\ holders = [e \in Engines |-> IF e = First THEN {State, Grpc} ELSE {}]
  /\ readers = {}
  /\ reload = [r \in Reloads |-> "idle"]
  /\ stream = [s \in Streams |-> NoRead]
  /\ installed = <<First>>
  /\ disturbed = FALSE
  /\ calm = Streams

Goto(r, p) == reload' = [reload EXCEPT ![r] = p]

Clone(e, h) == holders' = [holders EXCEPT ![e] = @ \union {h}]
DropArcs(h) == holders' = [e \in Engines |-> holders[e] \ {h}]

-----------------------------------------------------------------------------
(* Reload *)

(* A directory that is not absolute, or has "..", or does not exist, is    *)
(* refused; without one, the current one is read.                          *)
ReloadStart(r) ==
  /\ reload[r] = "idle"
  /\ \/ \E m \in Models : modelOf' = [modelOf EXCEPT ![r] = m] /\ Goto(r, "load")
     \/ modelOf' = [modelOf EXCEPT ![r] = dir] /\ Goto(r, "load")
     \/ Goto(r, "failed") /\ UNCHANGED modelOf
  /\ UNCHANGED <<model, holders, readers, stream, history>>

(* Mutant: the guard that read the pool's size is alive to the end.        *)
LoadKeepsGuard(r) ==
  /\ reload[r] = "load"
  /\ Goto(r, "engine")
  /\ Clone(r, r)
  /\ readers' = readers \union {r}
  /\ UNCHANGED <<model, modelOf, stream, history>>

(* Everything that can fail comes before the first write: model.json, the  *)
(* files, the tokenizer, as many session triplets as the engine in use has.*)
Load(r) ==
  /\ reload[r] = "load"
  /\ \/ Goto(r, "engine") /\ Clone(r, r)
     \/ Goto(r, "failed") /\ UNCHANGED holders
  /\ UNCHANGED <<model, modelOf, readers, stream, history>>

(* The streams whose reads the write does not fall into.                   *)
Undisturbed == {s \in calm : stream[s].phase \notin {"dir", "engine"}}

(* Mutant: AppState keeps the engine it replaces, to roll back to.         *)
InstallKeepsOld(r) ==
  /\ engine' = r
  /\ holders' = [holders EXCEPT ![r] = {State}]
  /\ installed' = Append(installed, r)

(* The new engine moves into AppState, which drops its Arc of the old one. *)
Install(r) ==
  /\ engine' = r
  /\ holders' = [e \in Engines |->
                   IF e = r THEN {State} ELSE holders[e] \ {State}]
  /\ installed' = Append(installed, r)

(* Mutant: a reload that finds the engine replaced already gives way.      *)
WriteEngineGivesWay(r) ==
  /\ reload[r] = "engine"
  /\ readers = {}
  /\ IF engine = First THEN Install(r) ELSE UNCHANGED <<engine, holders, installed>>
  /\ disturbed' = (disturbed \/ Writing # {})
  /\ calm' = Undisturbed
  /\ Goto(r, "dir")
  /\ UNCHANGED <<dir, info, modelOf, readers, stream>>

(* The write waits for the readers.                                        *)
WriteEngine(r) ==
  /\ reload[r] = "engine"
  /\ readers = {}
  /\ Install(r)
  /\ disturbed' = (disturbed \/ Writing # {})
  /\ calm' = Undisturbed
  /\ Goto(r, "dir")
  /\ UNCHANGED <<dir, info, modelOf, readers, stream>>

(* Mutant: the directory of the new model is not recorded.                 *)
WriteDirForgotten(r) ==
  /\ reload[r] = "dir"
  /\ calm' = Undisturbed
  /\ Goto(r, "info")
  /\ UNCHANGED <<engine, dir, info, modelOf, holders, readers, stream, installed, disturbed>>

WriteDir(r) ==
  /\ reload[r] = "dir"
  /\ dir' = modelOf[r]
  /\ calm' = Undisturbed
  /\ Goto(r, "info")
  /\ UNCHANGED <<engine, info, modelOf, holders, readers, stream, installed, disturbed>>

WriteInfo(r) ==
  /\ reload[r] = "info"
  /\ info' = modelOf[r]
  /\ calm' = Undisturbed
  /\ Goto(r, "reply")
  /\ UNCHANGED <<engine, dir, modelOf, holders, readers, stream, installed, disturbed>>

(* The reply reads engine, and model_info under its guard.                 *)
ReplyEngine(r) ==
  /\ reload[r] = "reply"
  /\ readers' = readers \union {r}
  /\ Goto(r, "naming")
  /\ UNCHANGED <<model, modelOf, holders, stream, history>>

ReplyInfo(r) ==
  /\ reload[r] = "naming"
  /\ readers' = readers \ {r}
  /\ Goto(r, "done")
  /\ UNCHANGED <<model, modelOf, holders, stream, history>>

(* The admin's connection breaks while the handler awaits a lock: its      *)
(* future is dropped there, with the guard and the engine it may hold.     *)
ReloadDropped(r) ==
  /\ reload[r] \notin {"idle"} \union ReloadEnded
  /\ Goto(r, "dropped")
  /\ DropArcs(r)
  /\ readers' = readers \ {r}
  /\ disturbed' = (disturbed \/ r \in Writing)
  /\ UNCHANGED <<model, modelOf, stream, installed, calm>>

-----------------------------------------------------------------------------
(* Requests *)

Holding(h) == {e \in Engines : h \in holders[e]}

(* A transcription clones the engine and works on the clone to its end; a  *)
(* /stream connection clones it once for all the audio its peer sends.     *)
RequestStart(u) ==
  /\ Holding(u) = {}
  /\ Clone(engine, u)
  /\ UNCHANGED <<model, modelOf, readers, reload, stream, history>>

RequestEnd(u) ==
  /\ Holding(u) # {}
  /\ DropArcs(u)
  /\ UNCHANGED <<model, modelOf, readers, reload, stream, history>>

ProbeStart(k) ==
  /\ k \notin readers
  /\ readers' = readers \union {k}
  /\ UNCHANGED <<model, modelOf, holders, reload, stream, history>>

ProbeEnd(k) ==
  /\ k \in readers
  /\ readers' = readers \ {k}
  /\ UNCHANGED <<model, modelOf, holders, reload, stream, history>>

(* A stream connection reads model_info, then model_dir, then either loads *)
(* its own pipeline from the two or clones the engine.                     *)
StreamInfo(s) ==
  /\ stream[s].phase = "idle"
  /\ stream' = [stream EXCEPT ![s].phase = "dir", ![s].info = info]
  /\ calm' = IF disturbed \/ Writing # {} THEN calm \ {s} ELSE calm \union {s}
  /\ UNCHANGED <<model, modelOf, holders, readers, reload, installed, disturbed>>

StreamDir(s) ==
  /\ stream[s].phase = "dir"
  /\ stream' = [stream EXCEPT ![s].dir = dir,
                  ![s].phase = IF stream[s].info \in Streaming THEN "running" ELSE "engine"]
  /\ UNCHANGED <<model, modelOf, holders, readers, reload, history>>

StreamEngine(s) ==
  /\ stream[s].phase = "engine"
  /\ stream' = [stream EXCEPT ![s].phase = "running"]
  /\ Clone(engine, s)
  /\ UNCHANGED <<model, modelOf, readers, reload, history>>

(* It ends, or its pipeline could not be built.                            *)
StreamEnd(s) ==
  /\ stream[s].phase = "running"
  /\ stream' = [stream EXCEPT ![s] = NoRead]
  /\ DropArcs(s)
  /\ UNCHANGED <<model, modelOf, readers, reload, history>>

-----------------------------------------------------------------------------
Next ==
  \/ \E r \in Reloads :
       \/ ReloadStart(r) \/ ReloadDropped(r)
       \/ Load(r) \/ WriteEngine(r) \/ WriteDir(r) \/ WriteInfo(r)
       \/ ReplyEngine(r) \/ ReplyInfo(r)
  \/ \E u \in Users : RequestStart(u) \/ RequestEnd(u)
  \/ \E k \in Probes : ProbeStart(k) \/ ProbeEnd(k)
  \/ \E s \in Streams : StreamInfo(s) \/ StreamDir(s) \/ StreamEngine(s) \/ StreamEnd(s)

(***************************************************************************)
(* Tasks that can run do, transcriptions end.  tokio's RwLock serves its   *)
(* queue in order, so a writer gets its turn although readers keep coming: *)
(* strong fairness of WriteEngine.  Nothing obliges a peer to end a stream *)
(* of either kind.                                                         *)
(***************************************************************************)
Fairness ==
  /\ \A r \in Reloads :
       /\ WF_vars(Load(r)) /\ SF_vars(WriteEngine(r))
       /\ WF_vars(WriteDir(r) \/ WriteInfo(r) \/ ReplyEngine(r) \/ ReplyInfo(r))
  /\ \A u \in Requests : WF_vars(RequestEnd(u))
  /\ \A k \in Probes : WF_vars(ProbeEnd(k))
  /\ \A s \in Streams : WF_vars(StreamDir(s) \/ StreamEngine(s))

Spec == Init /\ [][Next]_vars
FairSpec == Spec /\ Fairness

=============================================================================
