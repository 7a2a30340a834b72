CONSTANTS
  k1 = k1  k2 = k2  regoRisk = regoRisk  regoOpen = regoOpen
  c1 = c1  c2 = c2  cr1 = cr1  pub1 = pub1  key1 = key1
  Null = Null
  Codes = {regoRisk, regoOpen}
  NoCode = NoCode
  Rego <- MCRego
  ActionKeys = {k1}
  Faults = FALSE
  VersionNos <- MCVersionOne
  Creators = {cr1}
  Publishers = {pub1}
  ResolverBodies <- MCSampleEdits
  MappingBodies <- MCMappingEdits
  MaxEdits = 1
  Clients = {c1}
  Tasks <- MCExecute
  Inputs <- MCOneInput
  DefaultTTL = 1
  ErrorTTL = 1
  MaxConns = 4
  MaxTime = 1
  MaxRequests = 3
  InitialPolicy <- MCPolicyRisk
  InitialResolvers <- MCResolvers
  InitialMappings <- MCMappings
SPECIFICATION Spec
INVARIANTS EffectsGranted EffectsAudited DefaultAllowOnlyWithoutPolicy
PROPERTY MismatchMeansChanged
CHECK_DEADLOCK FALSE
