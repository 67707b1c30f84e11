------------------------------- MODULE Library -------------------------------
(***************************************************************************)
(* What a host or the command line runs of the library, without a server:  *)
(* calls of the C interface (FfiHandles), the segmenter (VadSegmenter) and *)
(* the offline decoder (GreedyDecoder).  A call uses the latter two under  *)
(* a triplet that it has for itself, so the parts share no state, and each *)
(* is explored while the others rest.                                      *)
(***************************************************************************)
EXTENDS FfiHandles, VadSegmenter, GreedyDecoder

vars == <<ffiVars, vadVars, decodeVars>>

Init == FfiInit /\ VadInit /\ DecodeInit

FfiRests == FfiInit
VadRests == phase = "idle"
DecoderRests == frames = <<>>

Next ==
  \/ VadRests /\ DecoderRests /\ FfiNext /\ UNCHANGED <<vadVars, decodeVars>>
  \/ FfiRests /\ DecoderRests /\ VadNext /\ UNCHANGED <<ffiVars, decodeVars>>
  \/ FfiRests /\ VadRests /\ DecodeNext /\ UNCHANGED <<ffiVars, vadVars>>

Spec == Init /\ [][Next]_vars
=============================================================================
