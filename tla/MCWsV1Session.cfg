CONSTANTS
  Conns = {c1, c2}
  Requests = {r1}
  Items = {i1}
  Shelf = Shelf
  Gone = Gone
  MaxConns = 1
  MaxPending = 2
  MaxSpeech = 1
  Chunks = {1, 2}
  MaxAudio = 3
SPECIFICATION FairSpec
INVARIANTS
  StreamsBounded
  OneAnswer
  FinalComplete
  TripletPerUtterance
PROPERTIES
  ShutdownEnds
CHECK_DEADLOCK FALSE
