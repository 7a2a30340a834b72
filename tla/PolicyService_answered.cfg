CONSTANTS
  k1 = k1  k2 = k2  regoRisk = regoRisk  regoOpen = regoOpen
  c1 = c1  c2 = c2  cr1 = cr1  pub1 = pub1  key1 = key1
  Null = Null
  Codes = {regoRisk, regoOpen}
  NoCode = NoCode
  Rego <- MCRego
  ActionKeys = {k1}
  Faults = TRUE
  VersionNos <- MCVersionOne
  Creators = {}
  Publishers = {}
  ResolverBodies <- MCNoBodies
  MappingBodies <- MCNoBodies
  MaxEdits = 0
  Clients = {c1, c2}
  Tasks <- MCAll
  Inputs <- MCOneInput
  DefaultTTL = 1
  ErrorTTL = 1
  MaxConns = 2
  MaxTime = 0
  MaxRequests = 2
  InitialPolicy <- MCPolicyRisk
  InitialResolvers <- MCResolvers
  InitialMappings <- MCMappings
SPECIFICATION FairSpec
INVARIANT RowsTruthful
PROPERTIES RequestsAnswered AuditLossCauses
CHECK_DEADLOCK FALSE
