------------------------------ MODULE ModelStore ------------------------------
(***************************************************************************)
(* The model directory on disk and the start of a process that uses it:    *)
(* ensure_model (src/src/model.rs:145) downloads, verifies and extracts    *)
(* the archive, ModelInfo::from_model_dir (src/src/model_config.rs:213)    *)
(* loads it and writes model.json.  The disk outlives the process, which   *)
(* may stop, or be killed between any two writes.                          *)
(*                                                                         *)
(* One process at a time uses the directory.  A file is known by what it   *)
(* holds; creating it and writing it are two steps.                        *)
(***************************************************************************)
EXTENDS Integers, FiniteSets

CONSTANTS
  Files,        (* the files discover_model_files requires                 *)
  Checked,      (* those whose truncation the loader notices               *)
  Vad,          (* silero_vad.onnx, copied from the parent directory       *)
  MaxFaults     (* bound of the model: crashes, failed or wrong downloads  *)

ASSUME FilesAssumption == Checked \subseteq Files /\ Vad \notin Files
ASSUME MaxFaultsAssumption == MaxFaults \in Nat

VARIABLES
  archive,      (* the downloaded archive                                  *)
  file,         (* the files of the model directory                        *)
  config,       (* model.json                                              *)
  pinned,       (* the manifest has a SHA-256 of the archive               *)
  hasVad,       (* the parent directory has silero_vad.onnx                *)
  pc,           (* where the process is                                    *)
  body,         (* what the download in progress delivers                  *)
  open,         (* the file being written by the extraction or the copy    *)
  todo,         (* the entries not yet extracted                           *)
  faults,
  clean,        (* history: this start met no fault, its own or an earlier *)
  served        (* history: a process served the model, complete, and ended *)

given == <<pinned, hasVad>>
disk == <<archive, file, config, given>>
vars == <<disk, pc, body, open, todo, faults, clean, served>>

Closed == "none"

(* Absent, truncated, as released, of another release, not an archive.     *)
Contents == {"absent", "partial", "whole", "other", "page"}
Bodies == {"whole", "other", "page"}

Complete(f) == file[f] \in {"whole", "other"}

(* model_exists, through discover_model_files: the names are there.        *)
ModelExists == \A f \in Files : file[f] # "absent"

Untouched == archive = "absent" /\ config = "absent"
             /\ \A f \in Files \union {Vad} : file[f] = "absent"

Init ==
  /\ archive = "absent" /\ config = "absent"
  /\ file = [f \in Files \union {Vad} |-> "absent"]
  /\ pinned \in BOOLEAN /\ hasVad \in BOOLEAN
  /\ pc = "down" /\ body = "whole" /\ open = Closed /\ todo = {}
  /\ faults = 0 /\ clean = FALSE /\ served = FALSE

-----------------------------------------------------------------------------
(* ensure_model                                                            *)

Goto(label) == pc' = label

Start ==
  /\ pc = "down"
  /\ Goto("look")
  /\ clean' = (Untouched \/ (ModelExists /\ clean))
  /\ UNCHANGED <<disk, body, open, todo, faults, served>>

(* Mutant: the archive is unpacked at every start.                         *)
LookSkipped ==
  /\ pc = "look"
  /\ Goto("archive")
  /\ UNCHANGED <<disk, body, open, todo, faults, clean, served>>

Look ==
  /\ pc = "look"
  /\ Goto(IF ModelExists THEN "load" ELSE "archive")
  /\ UNCHANGED <<disk, body, open, todo, faults, clean, served>>

(* The archive is there: no download.                                      *)
ArchiveExists ==
  /\ pc = "archive" /\ archive # "absent"
  /\ Goto("verify")
  /\ UNCHANGED <<disk, body, open, todo, faults, clean, served>>

Fault == faults < MaxFaults /\ faults' = faults + 1 /\ clean' = FALSE

(* reqwest::get succeeds, with whatever status and body, and File::create
   makes the archive.                                                      *)
Request ==
  /\ pc = "archive" /\ archive = "absent"
  /\ \/ body' = "whole" /\ UNCHANGED <<faults, clean>>
     \/ body' \in Bodies \ {"whole"} /\ Fault
  /\ archive' = "partial"
  /\ Goto("download")
  /\ UNCHANGED <<file, config, given, open, todo, served>>

RequestFails ==
  /\ pc = "archive" /\ archive = "absent"
  /\ Fault /\ Goto("failed")
  /\ UNCHANGED <<disk, body, open, todo, served>>

DownloadDone ==
  /\ pc = "download"
  /\ archive' = body
  /\ Goto("verify")
  /\ UNCHANGED <<file, config, given, body, open, todo, faults, clean, served>>

(* The stream breaks off: what came stays on disk.                         *)
DownloadFails ==
  /\ pc = "download"
  /\ Fault /\ Goto("failed")
  /\ UNCHANGED <<disk, body, open, todo, served>>

(* Mutant: an archive that was there before is taken as verified.          *)
VerifyTrustsReleases ==
  /\ pc = "verify"
  /\ Goto(IF pinned /\ archive \notin {"whole", "other"} THEN "failed"
                                                          ELSE "extract")
  /\ todo' = Files
  /\ UNCHANGED <<disk, body, open, faults, clean, served>>

(* The checksum, where one is known.                                       *)
Verify ==
  /\ pc = "verify"
  /\ Goto(IF pinned /\ archive # "whole" THEN "failed" ELSE "extract")
  /\ todo' = Files
  /\ UNCHANGED <<disk, body, open, faults, clean, served>>

(* extract_tar_bz2: each entry is created over what is there, then written;
   a truncated archive ends in an error after some entry, a page that is no
   archive at the first.                                                   *)
ExtractCreate ==
  /\ pc = "extract" /\ open = Closed /\ archive # "page"
  /\ \E f \in todo :
       file' = [file EXCEPT ![f] = "partial"] /\ open' = f
  /\ UNCHANGED <<archive, config, given, pc, body, todo, faults, clean, served>>

ExtractWrite ==
  /\ pc = "extract" /\ open # Closed
  /\ file' = [file EXCEPT ![open] = IF archive = "other" THEN "other"
                                                         ELSE "whole"]
  /\ todo' = todo \ {open} /\ open' = Closed
  /\ UNCHANGED <<archive, config, given, pc, body, faults, clean, served>>

ExtractFails ==
  /\ pc = "extract" /\ archive \in {"partial", "page"}
  /\ Goto("failed") /\ open' = Closed
  /\ UNCHANGED <<disk, body, todo, faults, clean, served>>

ExtractDone ==
  /\ pc = "extract" /\ todo = {} /\ archive # "partial"
  /\ Goto("vad")
  /\ UNCHANGED <<disk, body, open, todo, faults, clean, served>>

(* The detector's model is copied beside the others, created then written. *)
CopyVad ==
  /\ pc = "vad" /\ hasVad /\ file[Vad] = "absent"
  /\ file' = [file EXCEPT ![Vad] = "partial"] /\ open' = Vad
  /\ UNCHANGED <<archive, config, given, pc, body, todo, faults, clean, served>>

CopyVadDone ==
  /\ pc = "vad" /\ open = Vad
  /\ file' = [file EXCEPT ![Vad] = "whole"] /\ open' = Closed
  /\ Goto("recheck")
  /\ UNCHANGED <<archive, config, given, body, todo, faults, clean, served>>

NoVad ==
  /\ pc = "vad" /\ open = Closed /\ (hasVad => file[Vad] # "absent")
  /\ Goto("recheck")
  /\ UNCHANGED <<disk, body, open, todo, faults, clean, served>>

Recheck ==
  /\ pc = "recheck"
  /\ Goto(IF ModelExists THEN "load" ELSE "failed")
  /\ UNCHANGED <<disk, body, open, todo, faults, clean, served>>

-----------------------------------------------------------------------------
(* from_model_dir                                                          *)

(* A model.json that does not parse, or a session that does not load, ends
   the start; a truncated tokens.txt only makes the vocabulary shorter.    *)
Loadable == config # "partial" /\ \A f \in Checked : Complete(f)

Load ==
  /\ pc = "load"
  /\ Goto(IF ~Loadable THEN "failed"
          ELSE IF config = "absent" THEN "writing" ELSE "ready")
  /\ config' = IF Loadable /\ config = "absent" THEN "partial" ELSE config
  /\ UNCHANGED <<archive, file, given, body, open, todo, faults, clean, served>>

(* Mutant: the write of model.json is left to the next start.              *)
ConfigLeftOpen ==
  /\ pc = "writing"
  /\ Goto("ready")
  /\ UNCHANGED <<disk, body, open, todo, faults, clean, served>>

(* std::fs::write of model.json; its error is ignored.                     *)
ConfigWritten ==
  /\ pc = "writing"
  /\ \/ config' = "whole" /\ UNCHANGED <<faults, clean>>
     \/ UNCHANGED config /\ Fault
  /\ Goto("ready")
  /\ UNCHANGED <<archive, file, given, body, open, todo, served>>

-----------------------------------------------------------------------------
(* The process ends: it exits with an error, is stopped, or is killed.     *)

Ended == pc' = "down" /\ open' = Closed /\ todo' = {}

Exit ==
  /\ pc \in {"failed", "ready"}
  /\ Ended
  /\ served' = (served \/ (pc = "ready" /\ \A f \in Files : Complete(f)))
  /\ UNCHANGED <<disk, body, faults, clean>>

Crash ==
  /\ pc \notin {"down", "failed", "ready"}
  /\ Ended /\ Fault
  /\ UNCHANGED <<disk, body, served>>

Next ==
  \/ Start \/ Look \/ ArchiveExists \/ Request \/ RequestFails
  \/ DownloadDone \/ DownloadFails \/ Verify
  \/ ExtractCreate \/ ExtractWrite \/ ExtractFails \/ ExtractDone
  \/ CopyVad \/ CopyVadDone \/ NoVad \/ Recheck
  \/ Load \/ ConfigWritten \/ Exit \/ Crash

Spec == Init /\ [][Next]_vars
=============================================================================
