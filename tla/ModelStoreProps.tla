--------------------------- MODULE ModelStoreProps ---------------------------
(***************************************************************************)
(* What must hold of the model directory and of the starts that use it.    *)
(***************************************************************************)
EXTENDS ModelStore

Labels == {"down", "look", "archive", "download", "verify", "extract", "vad",
           "recheck", "load", "writing", "ready", "failed"}

TypeOK ==
  /\ archive \in Contents
  /\ file \in [Files \union {Vad} -> Contents \ {"page"}]
  /\ config \in {"absent", "partial", "whole"}
  /\ pinned \in BOOLEAN /\ hasVad \in BOOLEAN
  /\ clean \in BOOLEAN /\ served \in BOOLEAN
  /\ pc \in Labels /\ body \in Bodies
  /\ open \in Files \union {Vad, Closed} /\ todo \subseteq Files
  /\ open # Closed => pc \in {"extract", "vad"} /\ file[open] = "partial"
  /\ faults \in 0..MaxFaults

(***************************************************************************)
(* Where a checksum is known, nothing of an archive that does not match it *)
(* reaches the model directory, a cut one or one of another release,       *)
(* whichever start left the archive behind and whatever the server         *)
(* answered ("downloaded archives are verified against the declared hash   *)
(* before extraction", CHANGELOG.md:94; model.rs:173-204): while there is  *)
(* any file, the archive is the release, and no file is of another.        *)
(***************************************************************************)
ChecksumGate ==
  pinned => \A f \in Files : file[f] # "absent" => archive = "whole" /\ file[f] # "other"

(***************************************************************************)
(* A start fails only because of a fault, its own or that of an earlier    *)
(* start: on an untouched disk it downloads, extracts and loads the model, *)
(* and later starts load it again with the model.json the first one wrote  *)
(* (model.rs:145-232, model_config.rs:213-221, 331-360).                   *)
(***************************************************************************)
CleanStartSucceeds == pc = "failed" => ~clean

(***************************************************************************)
(* A model that was served complete stays complete: no later start, crash  *)
(* or failed download opens one of its files again (model.rs:146-149).     *)
(***************************************************************************)
ServedModelKept == served => \A f \in Files : Complete(f)
=============================================================================
