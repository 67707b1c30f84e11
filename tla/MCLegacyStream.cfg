CONSTANTS
  Conns = {c1, c2}
  Requests = {r1}
  Items = {i1}
  Shelf = Shelf
  Gone = Gone
  Window = 3
  Overlap = 1
  Chunks = {0, 1, 2}
  MaxAudio = 5
SPECIFICATION FairSpec
INVARIANTS
  WindowsTile
  TripletPerOperation
  FinalIsLast
PROPERTIES
  TripletReturned
  ShutdownEnds
CHECK_DEADLOCK FALSE
