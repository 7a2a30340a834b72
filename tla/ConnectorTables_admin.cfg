CONSTANTS
  a1 = a1  a2 = a2  s1 = s1  s2 = s2
  ActionKeys = {}
  Null = Null
  Faults = TRUE
  Admins = {a1, a2}
  Seeders = {s1}
  Bodies <- MCBodies
  Shopify <- MCShopify
  SeedOps <- MCSeedOps
  SampleName <- MCSample
  RegistryNames <- MCNames
  ImportName = Null
  TenantSlug <- MCSlug
  Found <- MCFound
  MaxRequests = 2
  MaxBoots = 2
  MaxFaults = 1
SYMMETRY MCSymmetry
SPECIFICATION ConnectorSpec
INVARIANTS ConnectorTypeOK BuiltinsIntact
PROPERTY UpdateReplaces
CHECK_DEADLOCK FALSE
