CONSTANTS
  Calls = {a, b}
  Triplets = 1
  Room = 1
  Permits = 1
  MaxChunks = 1
SPECIFICATION RequestsSpec
INVARIANTS
  GrpcStreamsBounded
