CONSTANTS
  Calls = {a, b}
  Triplets = 1
  Room = 1
  Permits = 1
  MaxChunks = 2
SPECIFICATION RequestsFairSpec
INVARIANTS
  SseInOrder
PROPERTIES
  TripletsComeBack
  CallsEnd
