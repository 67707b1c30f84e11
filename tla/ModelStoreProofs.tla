--------------------------- MODULE ModelStoreProofs ---------------------------
(***************************************************************************)
(* Proofs about the model directory for any set of files and any number of *)
(* faults.                                                                 *)
(***************************************************************************)
EXTENDS ModelStoreProps, TLAPS

(***************************************************************************)
(* Type correctness.                                                       *)
(***************************************************************************)
LEMMA InitTypeOK == Init => TypeOK
  <1> SUFFICES ASSUME Init PROVE TypeOK
    OBVIOUS
  <1>1. file \in [Files \union {Vad} -> Contents \ {"page"}]
    BY DEF Init, Contents
  <1>2. faults \in 0..MaxFaults
    BY MaxFaultsAssumption DEF Init
  <1>3. QED
    BY <1>1, <1>2 DEF Init, TypeOK, Contents, Bodies, Labels, Closed

LEMMA FaultFacts ==
  ASSUME faults \in 0..MaxFaults, Fault
  PROVE  faults' \in 0..MaxFaults /\ clean' = FALSE
  BY MaxFaultsAssumption DEF Fault

LEMMA NextTypeOK == TypeOK /\ [Next]_vars => TypeOK'
  <1> SUFFICES ASSUME TypeOK, [Next]_vars PROVE TypeOK'
    OBVIOUS
  <1>a. Fault => faults' \in 0..MaxFaults /\ clean' = FALSE
    BY FaultFacts DEF TypeOK
  <1> USE DEF TypeOK, Contents, Bodies, Labels, Goto, disk, given
  <1>1. CASE Start
    <2>1. clean' \in BOOLEAN
      BY <1>1 DEF Start, Untouched, ModelExists
    <2>2. QED
      BY <1>1, <2>1 DEF Start
  <1>2. CASE Look \/ ArchiveExists \/ Verify \/ Recheck
    BY <1>2 DEF Look, ArchiveExists, Verify, Recheck, Closed
  <1>3. CASE Request \/ RequestFails \/ DownloadDone \/ DownloadFails
    <2>1. CASE Request
      BY <2>1, <1>a DEF Request, Closed
    <2>2. CASE RequestFails \/ DownloadDone \/ DownloadFails
      BY <2>2, <1>a DEF RequestFails, DownloadDone, DownloadFails, Closed
    <2>3. QED
      BY <1>3, <2>1, <2>2
  <1>4. CASE ExtractCreate
    BY <1>4 DEF ExtractCreate, Closed
  <1>5. CASE ExtractWrite
    BY <1>5 DEF ExtractWrite, Closed
  <1>6. CASE ExtractFails \/ ExtractDone
    BY <1>6 DEF ExtractFails, ExtractDone, Closed
  <1>7. CASE CopyVad \/ CopyVadDone \/ NoVad
    <2>1. CASE CopyVad
      BY <2>1 DEF CopyVad, Closed
    <2>2. CASE CopyVadDone
      BY <2>2 DEF CopyVadDone, Closed
    <2>3. CASE NoVad
      BY <2>3 DEF NoVad, Closed
    <2>4. QED
      BY <1>7, <2>1, <2>2, <2>3
  <1>8. CASE Load \/ ConfigWritten
    <2>1. CASE Load
      BY <2>1, <1>a DEF Load, Closed
    <2>2. CASE ConfigWritten
      <3>1. /\ faults' \in 0..MaxFaults /\ clean' \in BOOLEAN
            /\ config' \in {"absent", "partial", "whole"}
        BY <2>2, <1>a DEF ConfigWritten
      <3>2. pc' = "ready" /\ UNCHANGED <<archive, file, given, body, open, todo, served>>
            /\ pc = "writing"
        BY <2>2 DEF ConfigWritten
      <3>3. QED
        BY <3>1, <3>2 DEF Closed
    <2>3. QED
      BY <1>8, <2>1, <2>2
  <1>9. CASE Exit
    <2>1. served' \in BOOLEAN
      BY <1>9 DEF Exit, Complete
    <2>2. QED
      BY <1>9, <2>1 DEF Exit, Ended, Closed
  <1>10. CASE Crash
    BY <1>10, <1>a DEF Crash, Ended, Closed
  <1>11. CASE UNCHANGED vars
    BY <1>11 DEF vars
  <1>12. QED
    BY <1>1, <1>2, <1>3, <1>4, <1>5, <1>6, <1>7, <1>8, <1>9, <1>10, <1>11
       DEF Next

(* Every variable keeps its type, and only the extraction and the copy of  *)
(* the detector leave a file open, which is then truncated                 *)
(* (model.rs:216-221, 271-285).                                            *)
THEOREM TypeCorrect == Spec => []TypeOK
  BY InitTypeOK, NextTypeOK, PTL DEF Spec

-----------------------------------------------------------------------------
(***************************************************************************)
(* The checksum gate.  Between Verify and the last entry a pinned archive  *)
(* stays the release it was verified to be; only the download writes it,   *)
(* which finds none and, if it is pinned, no file of it either.            *)
(***************************************************************************)
GateInv ==
  /\ TypeOK
  /\ ChecksumGate
  /\ pinned /\ pc = "extract" => archive = "whole"
  /\ pc = "download" => archive = "partial"

LEMMA InitGate == Init => GateInv
  BY InitTypeOK DEF Init, GateInv, ChecksumGate

LEMMA NextGate == GateInv /\ [Next]_vars => GateInv'
  <1> SUFFICES ASSUME GateInv, [Next]_vars PROVE GateInv'
    OBVIOUS
  <1>1. TypeOK'
    BY NextTypeOK DEF GateInv
  <1> USE <1>1 DEF GateInv, ChecksumGate, TypeOK, Goto, disk, given
  <1>2. CASE ExtractCreate
    BY <1>2 DEF ExtractCreate
  <1>3. CASE ExtractWrite
    BY <1>3 DEF ExtractWrite
  <1>4. CASE Verify
    BY <1>4 DEF Verify
  <1>5. CASE CopyVad \/ CopyVadDone
    BY <1>5, FilesAssumption DEF CopyVad, CopyVadDone
  <1>6. CASE Request \/ DownloadDone
    BY <1>6 DEF Request, DownloadDone
  <1>7. CASE Start \/ Look \/ ArchiveExists \/ RequestFails \/ DownloadFails
    BY <1>7 DEF Start, Look, ArchiveExists, RequestFails, DownloadFails
  <1>8. CASE ExtractFails \/ ExtractDone \/ NoVad \/ Recheck
    BY <1>8 DEF ExtractFails, ExtractDone, NoVad, Recheck
  <1>9. CASE Load \/ ConfigWritten \/ Exit \/ Crash
    BY <1>9 DEF Load, ConfigWritten, Exit, Crash, Ended
  <1>10. CASE UNCHANGED vars
    BY <1>10 DEF vars
  <1>11. QED
    BY <1>2, <1>3, <1>4, <1>5, <1>6, <1>7, <1>8, <1>9, <1>10 DEF Next

(* Where a checksum is known, no file of the model directory comes from an *)
(* archive that does not match it, cut or of another release               *)
(* (model.rs:173-204).                                                     *)
THEOREM OnlyVerifiedFiles == Spec => []ChecksumGate
  <1>1. GateInv => ChecksumGate
    BY DEF GateInv
  <1>2. QED
    BY <1>1, InitGate, NextGate, PTL DEF Spec

-----------------------------------------------------------------------------
(***************************************************************************)
(* A model that was served stays complete: as its names are there, no      *)
(* later start gets past Look to where files are opened.                   *)
(***************************************************************************)
Reading == {"down", "look", "load", "writing", "ready", "failed"}

ServedInv ==
  /\ TypeOK
  /\ ServedModelKept
  /\ served => pc \in Reading

LEMMA InitServed == Init => ServedInv
  BY InitTypeOK DEF Init, ServedInv, ServedModelKept

LEMMA NextServed == ServedInv /\ [Next]_vars => ServedInv'
  <1> SUFFICES ASSUME ServedInv, [Next]_vars PROVE ServedInv'
    OBVIOUS
  <1>1. TypeOK'
    BY NextTypeOK DEF ServedInv
  <1> USE <1>1 DEF ServedInv, ServedModelKept, Complete, Reading, Goto, disk,
                   given
  <1>2. CASE Look
    BY <1>2 DEF Look, ModelExists
  <1>3. CASE Exit
    BY <1>3 DEF Exit, Ended
  <1>4. CASE Start \/ Load \/ ConfigWritten \/ Crash
    BY <1>4 DEF Start, Load, ConfigWritten, Crash, Ended
  <1>5. CASE ArchiveExists \/ Request \/ RequestFails \/ DownloadDone
    BY <1>5 DEF ArchiveExists, Request, RequestFails, DownloadDone
  <1>6. CASE DownloadFails \/ Verify \/ ExtractCreate \/ ExtractWrite
    BY <1>6 DEF DownloadFails, Verify, ExtractCreate, ExtractWrite
  <1>7. CASE ExtractFails \/ ExtractDone \/ CopyVad \/ CopyVadDone
    BY <1>7 DEF ExtractFails, ExtractDone, CopyVad, CopyVadDone
  <1>8. CASE NoVad \/ Recheck
    BY <1>8 DEF NoVad, Recheck
  <1>9. CASE UNCHANGED vars
    BY <1>9 DEF vars
  <1>10. QED
    BY <1>2, <1>3, <1>4, <1>5, <1>6, <1>7, <1>8, <1>9 DEF Next

(* No start, crash or failed download opens a file of a model that a       *)
(* process has served complete (model.rs:146-149).                         *)
THEOREM ServedModelStays == Spec => []ServedModelKept
  <1>1. ServedInv => ServedModelKept
    BY DEF ServedInv
  <1>2. QED
    BY <1>1, InitServed, NextServed, PTL DEF Spec

-----------------------------------------------------------------------------
(***************************************************************************)
(* What a start that met no fault finds on disk at each of its steps: an   *)
(* untouched directory until the download, the release from then on, and   *)
(* a complete model with its model.json between two starts.                *)
(***************************************************************************)
AllComplete == \A f \in Files : Complete(f)
Empty == \A f \in Files : file[f] = "absent"

CleanDisk ==
  /\ pc \in {"down", "ready"} => AllComplete /\ config = "whole"
  /\ pc = "look" =>
       \/ Empty /\ archive = "absent" /\ config = "absent"
       \/ AllComplete /\ config = "whole"
  /\ pc = "archive"  => archive = "absent" /\ config = "absent"
  /\ pc = "download" => body = "whole" /\ config = "absent"
  /\ pc = "verify"   => archive = "whole" /\ config = "absent"
  /\ pc = "extract"  =>
       /\ archive = "whole" /\ config = "absent"
       /\ \A f \in Files \ todo : Complete(f)
  /\ pc \in {"vad", "recheck"} => AllComplete /\ config = "absent"
  /\ pc = "load"     => AllComplete /\ config \in {"absent", "whole"}
  /\ pc = "writing"  => AllComplete
  /\ pc # "failed"

CleanInv == TypeOK /\ (clean => CleanDisk)

LEMMA InitClean == Init => CleanInv
  BY InitTypeOK DEF Init, CleanInv

LEMMA NextClean == CleanInv /\ [Next]_vars => CleanInv'
  <1> SUFFICES ASSUME CleanInv, [Next]_vars PROVE CleanInv'
    OBVIOUS
  <1>1. TypeOK'
    BY NextTypeOK DEF CleanInv
  <1>2. SUFFICES ASSUME clean' PROVE CleanDisk'
    BY <1>1 DEF CleanInv
  <1> USE <1>2 DEF CleanInv, CleanDisk, AllComplete, Empty, Complete, Goto,
                   disk, given
  <1>3. CASE Start
    BY <1>3 DEF Start, Untouched
  <1>4. CASE Look
    BY <1>4 DEF Look, ModelExists
  <1>5. CASE ArchiveExists \/ Verify
    BY <1>5 DEF ArchiveExists, Verify
  <1>6. CASE Request \/ DownloadDone
    BY <1>6 DEF Request, DownloadDone, Fault
  <1>7. CASE RequestFails \/ DownloadFails \/ Crash
    BY <1>7 DEF RequestFails, DownloadFails, Crash, Fault
  <1>8. CASE ExtractCreate
    BY <1>8 DEF ExtractCreate, TypeOK
  <1>9. CASE ExtractWrite
    BY <1>9 DEF ExtractWrite, TypeOK
  <1>10. CASE ExtractFails \/ ExtractDone \/ NoVad
    BY <1>10 DEF ExtractFails, ExtractDone, NoVad
  <1>11. CASE CopyVad \/ CopyVadDone
    BY <1>11, FilesAssumption DEF CopyVad, CopyVadDone, TypeOK
  <1>12. CASE Recheck
    BY <1>12 DEF Recheck, ModelExists
  <1>13. CASE Load
    BY <1>13, FilesAssumption DEF Load, Loadable
  <1>14. CASE ConfigWritten
    BY <1>14 DEF ConfigWritten, Fault
  <1>15. CASE Exit
    BY <1>15 DEF Exit, Ended
  <1>16. CASE UNCHANGED vars
    BY <1>16 DEF vars
  <1>17. QED
    BY <1>3, <1>4, <1>5, <1>6, <1>7, <1>8, <1>9, <1>10, <1>11, <1>12, <1>13,
       <1>14, <1>15, <1>16 DEF Next

(* A start that fails met a fault, its own or an earlier one's             *)
(* (model.rs:145-232, model_config.rs:213-221, 331-360).                   *)
THEOREM CleanStartsSucceed == Spec => []CleanStartSucceeds
  <1>1. CleanInv => CleanStartSucceeds
    BY DEF CleanInv, CleanDisk, CleanStartSucceeds
  <1>2. QED
    BY <1>1, InitClean, NextClean, PTL DEF Spec
=============================================================================
