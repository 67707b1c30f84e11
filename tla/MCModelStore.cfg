CONSTANTS
  Files = {encoder, decoder, tokens}
  Checked = {encoder, decoder}
  Vad = vad
  MaxFaults = 3
SPECIFICATION Spec
INVARIANTS
  ChecksumGate
  CleanStartSucceeds
  ServedModelKept
