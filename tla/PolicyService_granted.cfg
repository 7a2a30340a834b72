CONSTANTS
  k1 = k1  k2 = k2  regoRisk = regoRisk  regoOpen = regoOpen
  c1 = c1  c2 = c2  cr1 = cr1  pub1 = pub1  key1 = key1
  Null = Null
  Codes = {regoRisk, regoOpen}
  NoCode = NoCode
  Rego <- MCRego
  ActionKeys = {k1, k2}
  Faults = TRUE
  VersionNos <- MCVersionOne
  Creators = {}
  Publishers = {}
  ResolverBodies <- MCSampleEdits
  MappingBodies <- MCNoBodies
  MaxEdits = 1
  Clients = {c1, c2}
  Tasks <- MCExecute
  Inputs <- MCInputs
  DefaultTTL = 1
  ErrorTTL = 1
  MaxConns = 4
  MaxTime = 2
  MaxRequests = 2
  InitialPolicy <- MCPolicyK1
  InitialResolvers <- MCResolvers
  InitialMappings <- MCMappings
SYMMETRY MCSymmetry
SPECIFICATION Spec
INVARIANTS ServiceTypeOK RequestsBound EffectsGranted
PROPERTY ImplementsGovernedExecution
CHECK_DEADLOCK FALSE
