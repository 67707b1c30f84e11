--------------------------- MODULE ModelReloadProps ---------------------------
(***************************************************************************)
(* What must hold of the model hot-swap (src/src/server/http.rs:642).      *)
(***************************************************************************)
EXTENDS ModelReload

TypeOK ==
  /\ engine \in Engines
  /\ dir \in Models
  /\ info \in Models
  /\ modelOf \in [Engines -> Models]
  /\ holders \in [Engines -> SUBSET Holders]
  /\ readers \subseteq Reloads \union Probes
  /\ \A r \in Reloads : r \in readers <=> reload[r] = "naming"
  /\ reload \in [Reloads -> ReloadPhases]
  /\ stream \in [Streams -> [phase : StreamPhases, info : Models, dir : Models]]
  /\ installed \in Seq(Engines)
  /\ disturbed \in BOOLEAN
  /\ calm \subseteq Streams

OneModel == modelOf[engine] = dir /\ dir = info

(* What a stream's pipeline is made of: the configuration, the directory   *)
(* and, for a chunked one, the engine.                                     *)
StreamOfOneModel(s) ==
  /\ stream[s].dir = stream[s].info
  /\ \A e \in Holding(s) : modelOf[e] = stream[s].info

(***************************************************************************)
(* Reloads that run one after the other, to their end, leave the three     *)
(* values of AppState naming the same model, whatever they load and        *)
(* whichever fail; and a stream connection during whose three reads nobody *)
(* wrote gets a pipeline of one model.                                     *)
(***************************************************************************)
SerialReloadsConsistent ==
  /\ TypeOK
  /\ ~disturbed /\ Writing = {} => OneModel
  /\ \A s \in calm : stream[s].phase = "running" => StreamOfOneModel(s)

(***************************************************************************)
(* "New requests immediately use the new model" (CHANGELOG.md:84): a       *)
(* transcription or /stream connection that starts after a reload was      *)
(* answered never gets an engine that AppState held before that reload's.  *)
(* (gRPC calls keep the first engine, grpc.rs:36-40.)                      *)
(***************************************************************************)
NewRequestsUseNewEngine ==
  [][\A u \in Users, r \in Reloads :
        RequestStart(u) /\ reload[r] = "done" =>
          \E k, l \in 1..Len(installed) :
            installed[k] = r /\ installed[l] = engine /\ k <= l]_vars

(***************************************************************************)
(* Every reload ends: no order of locks taken by reloads and probes makes  *)
(* a write wait for ever (http.rs:173-174, 210-211, 683, 711-725).         *)
(***************************************************************************)
ReloadEnds == \A r \in Reloads : reload[r] = "load" ~> reload[r] \in ReloadEnded

(***************************************************************************)
(* "in-flight requests finish on the old engine before the pool is         *)
(* recycled" (CHANGELOG.md:84): an engine that was replaced loses its last *)
(* reference, and so its pool, once the transcriptions on it are over,     *)
(* unless a stream of either kind keeps talking to it, as nothing makes    *)
(* its peer stop (ws.rs:350-388), or it is the gRPC service's.             *)
(***************************************************************************)
Replaced(e) == e # engine /\ \E k \in 1..Len(installed) : installed[k] = e

OldEngineRecycled ==
  \A e \in Engines : Replaced(e) ~> holders[e] \subseteq Streams \union Legacy \union {Grpc}

-----------------------------------------------------------------------------
(***************************************************************************)
(* "POST /v1/admin/reload replaces the loaded model" (CHANGELOG.md:84):    *)
(* when no reload is under way, the server has one model.  Two reloads at  *)
(* a time can leave the engine of one with the directory and configuration *)
(* of the other, for good (http.rs:711-722).                               *)
(***************************************************************************)
ReloadLeavesOneModel ==
  (\A r \in Reloads : reload[r] \in {"idle", "done"}) => OneModel

=============================================================================
