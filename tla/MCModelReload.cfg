CONSTANTS
  Models = {m1, m2}
  FirstModel = m1
  Streaming = {m2}
  First = First
  Reloads = {r1, r2}
  Requests = {u1}
  Legacy = {}
  Streams = {s1}
  Probes = {k1}
  State = State
  Grpc = Grpc
SPECIFICATION FairSpec
INVARIANTS
  SerialReloadsConsistent
PROPERTIES
  NewRequestsUseNewEngine
  ReloadEnds
  OldEngineRecycled
