CONSTANTS
  a1 = a1  c1 = c1  c2 = c2  k1 = k1  k2 = k2  sealKey = sealKey  x1 = x1  x2 = x2
  ActionKeys = {}
  Null = Null
  Faults = TRUE
  Admins = {a1}
  Seeders = {}
  Bodies <- MCBodies
  Shopify <- MCShopify
  SeedOps <- MCSeedOps
  SampleName <- MCSample
  RegistryNames = {}
  ImportName = Null
  TenantSlug <- MCSlug
  Found <- MCFound
  MaxRequests = 1
  MaxBoots = 1
  MaxFaults = 1
  AuthIds = {x1, x2}
  AdminKey = sealKey
  ServiceKey = sealKey
  Callers = {c1, c2}
  Requests <- MCRequests
  CanonicalOps <- MCCanonical
  AuthBodies <- MCAuthBodies
  AuthsFound <- MCAuthsFound
  TTL = 1
  MaxLag = 1
  MaxCalls = 2
SYMMETRY MCSymmetry
SPECIFICATION ServiceSpec
INVARIANTS ServedCurrent UsageTruthful
PROPERTIES RoutesCurrent ManifestKeysResolve KeySent
