CONSTANTS
  a1 = a1  a2 = a2  s1 = s1  s2 = s2
  ActionKeys = {}
  Null = Null
  Faults = FALSE
  Admins = {a1}
  Seeders = {}
  Bodies <- MCBodies
  Shopify <- MCShopify
  SeedOps <- MCSeedOps
  SampleName <- MCSample
  RegistryNames = {}
  ImportName <- MCImport
  TenantSlug <- MCSlug
  Found <- MCFound
  MaxRequests = 1
  MaxBoots = 1
  MaxFaults = 0
SPECIFICATION ConnectorSpec
INVARIANT KeyRunsNamedOperation
CHECK_DEADLOCK FALSE
