CONSTANTS
  h1 = h1  h2 = h2  n1 = n1  u1 = u1  i1 = i1  i2 = i2  q1 = q1  q2 = q2
  ActionKeys = {}
  Null = Null
  Faults = TRUE
  Hosts = {h1, h2}
  Names = {h1, h2, n1}
  LocalNames = {h2, n1}
  Localhost = h1
  Urls = {u1}
  Seed <- MCSeed
  Config <- MCConfig
  OIDCBodies <- MCBodies
  MachineScopes <- MCMachine
  RequiredACR <- MCACR
  AdminConfig <- MCAdmin
  Tokens <- MCTokens
  Threads = {q1, q2}
  TTL = 1
  MaxLag = 1
  MaxKeys = 2
  MaxEdits = 1
  MaxRequests = 2
  MaxFaults = 1
SPECIFICATION AuthnSpec
INVARIANT KeysCurrent
PROPERTIES AdmittedRightly ImplementsKeyGate CacheAdvances FetchedOnce RequestsJudged
