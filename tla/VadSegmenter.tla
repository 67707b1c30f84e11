---------------------------- MODULE VadSegmenter ----------------------------
(***************************************************************************)
(* Cutting a recording at its silences: VadSegmenter::segment              *)
(* (src/src/vad.rs) and Engine::transcribe_samples_with_vad                *)
(* (src/src/inference/engine.rs).  The detector's verdict on a window is   *)
(* nondeterministic; the transcript of a piece is one word per loud window *)
(* that lies in it, decoded at the encoded frame in which the window       *)
(* begins and timed by that frame (OfflineEncoder).                        *)
(***************************************************************************)
EXTENDS OfflineEncoder, Sequences

CONSTANTS
  WindowSamples,        (* samples in a window                             *)
  MinSpeech,            (* windows                                         *)
  MinSilence,           (* windows                                         *)
  Pad,                  (* samples                                         *)
  MaxWindows            (* bound: length of the recording                  *)

ASSUME WindowAssumption == WindowSamples \in Nat \ {0}
ASSUME VadAssumption ==
  MinSpeech \in Nat \ {0} /\ MinSilence \in Nat \ {0} /\ Pad \in Nat
ASSUME MaxWindowsAssumption == MaxWindows \in Nat

VARIABLES
  phase,        (* "idle", "scan", "transcribe" or "done"                  *)
  loud,         (* the verdicts so far                                     *)
  length,       (* samples, the incomplete last window included            *)
  inSpeech, segStart, silence,  (* locals of the scan                      *)
  segments,     (* pushed so far, padded once the scan is over             *)
  words         (* of the pieces transcribed so far                        *)

scan == <<inSpeech, segStart, silence>>
vadVars == <<phase, loud, length, scan, segments, words>>

VadInit ==
  /\ phase = "idle"
  /\ loud = <<>>
  /\ length = 0
  /\ inSpeech = FALSE
  /\ segStart = 0
  /\ silence = 0
  /\ segments = <<>>
  /\ words = <<>>

NumWindows == length \div WindowSamples

(* A recording of any length; the detector and the locals are reset.       *)
Split ==
  /\ phase \in {"idle", "done"}
  /\ phase' = "scan"
  /\ length' \in 0 .. MaxWindows * WindowSamples
  /\ loud' = <<>> /\ segments' = <<>> /\ words' = <<>>
  /\ inSpeech' = FALSE /\ segStart' = 0 /\ silence' = 0

(* A sample that is no number, or a detector that fails: split returns     *)
(* nothing (unwrap_or_default), and the text is empty.                     *)
SplitFails ==
  /\ phase = "scan"
  /\ phase' = "done"
  /\ segments' = <<>>
  /\ UNCHANGED <<loud, length, scan, words>>

Push(end) ==
  IF end \div WindowSamples - segStart \div WindowSamples >= MinSpeech
  THEN Append(segments, <<segStart, end>>) ELSE segments

(* Mutant: a pause does not start anew after a loud window.                *)
QuietRunTotal(verdict) == IF verdict THEN silence ELSE silence + 1
QuietRun(verdict) == IF verdict THEN 0 ELSE silence + 1

Window(verdict) ==
  LET i == Len(loud)
      run == QuietRun(verdict) IN
  /\ phase = "scan"
  /\ i < NumWindows
  /\ loud' = Append(loud, verdict)
  /\ \/ /\ inSpeech /\ run >= MinSilence
        /\ segments' = Push((i + 1) * WindowSamples)
        /\ inSpeech' = FALSE /\ silence' = 0
        /\ UNCHANGED segStart
     \/ /\ inSpeech /\ run < MinSilence
        /\ silence' = run
        /\ UNCHANGED <<segments, inSpeech, segStart>>
     \/ /\ ~inSpeech /\ verdict
        /\ segStart' = i * WindowSamples
        /\ inSpeech' = TRUE /\ silence' = 0
        /\ UNCHANGED segments
     \/ /\ ~inSpeech /\ ~verdict
        /\ UNCHANGED <<segments, scan>>
  /\ UNCHANGED <<phase, length, words>>

Padded(s) == <<IF s[1] < Pad THEN 0 ELSE s[1] - Pad, Least(s[2] + Pad, length)>>

(* The end of the scan: the open segment is closed, and all are padded.    *)
CloseAndPad ==
  LET all == IF inSpeech THEN Push(NumWindows * WindowSamples) ELSE segments IN
  /\ phase = "scan"
  /\ Len(loud) = NumWindows
  /\ segments' = [j \in DOMAIN all |-> Padded(all[j])]
  /\ phase' = "transcribe"
  /\ UNCHANGED <<loud, length, scan, words>>

(* One piece at a time; speakers are numbered by pieces.                   *)
Pieces == Len(words)
Within(k, s) == s[1] <= (k - 1) * WindowSamples /\ k * WindowSamples <= s[2]
LoudIn(s) == {k \in 1 .. Len(loud) : loud[k] /\ Within(k, s)}

(* Mutant: times stay relative to the piece.                               *)
OffsetForgotten(s, time) == time
Offset(s, time) == time + s[1]

(* A word, by the window it was spoken in (history) and its start.         *)
WordsIn(s) ==
  {[window |-> k, time |-> Offset(s, TimeOf(FrameAt((k - 1) * WindowSamples - s[1])))] :
     k \in LoudIn(s)}

TranscribePiece ==
  /\ phase = "transcribe"
  /\ Pieces < Len(segments)
  /\ words' = Append(words, WordsIn(segments[Pieces + 1]))
  /\ UNCHANGED <<phase, loud, length, scan, segments>>

Transcribed ==
  /\ phase = "transcribe"
  /\ Pieces = Len(segments)
  /\ phase' = "done"
  /\ UNCHANGED <<loud, length, scan, segments, words>>

(* A piece that fails loses the words of all (`?`).                        *)
PieceFails ==
  /\ phase = "transcribe"
  /\ Pieces < Len(segments)
  /\ phase' = "done"
  /\ words' = <<>>
  /\ UNCHANGED <<loud, length, scan, segments>>

VadNext ==
  \/ Split \/ SplitFails
  \/ \E verdict \in BOOLEAN : Window(verdict)
  \/ CloseAndPad \/ TranscribePiece \/ Transcribed \/ PieceFails
=============================================================================
