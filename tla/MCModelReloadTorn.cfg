CONSTANTS
  Models = {m1, m2}
  FirstModel = m1
  Streaming = {m2}
  First = First
  Reloads = {r1, r2}
  Requests = {u1}
  Legacy = {l1}
  Streams = {s1}
  Probes = {k1}
  State = State
  Grpc = Grpc
SPECIFICATION Spec
INVARIANT
  ReloadLeavesOneModel
