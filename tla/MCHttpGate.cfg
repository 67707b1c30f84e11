CONSTANTS
  Requests = {q1, q2}
  Addresses = {unspecified}
  Unspecified = unspecified
  Burst = 2
  Cost = 2
  Labels = {"/v1/transcribe"}
  Others = {"/v1/admin/reload"}
  AdminPaths = {"/v1/admin/reload", "/metrics"}
  Credentials = {apiKey, adminKey}
  NoKey = NoKey
  ApiKey = apiKey
  AdminKey = adminKey
  TrustProxy = TRUE
  Bounds = {0, 2}
  MaxTime = 4
SPECIFICATION Spec
INVARIANTS
  RateBound
  MetricsExact
PROPERTIES
  RefusedOnlyWhenSpent
