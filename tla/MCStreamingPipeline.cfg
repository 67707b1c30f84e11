CONSTANTS
  Window = 2
  ChunkFrames = 4
  ChunkShift = 2
  EncodedFrames = 1
  MinSpeech = 2
  MinSilence = 2
  Batches = {3, 5}
  MaxAudio = 12
  MaxDecoded = 5
  Nothing = Nothing
SPECIFICATION CallSpec
INVARIANTS
  DetectorPassesSpeech
  ChunksTile
  StateOfUtterance
PROPERTIES
  FlushCoversUtterance
  CallsKeepContract
CHECK_DEADLOCK FALSE
