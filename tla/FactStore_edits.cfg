CONSTANTS
  k1 = k1  k2 = k2
  ActionKeys = {k1, k2}
  Null = Null
  Faults = FALSE
  ResolverBodies <- MCResolverBodies
  MappingBodies <- MCMappingBodies
  MaxEdits = 5
  Values <- MCValues
  ArgLists <- MCArgLists
SPECIFICATION CatalogueSpec
INVARIANTS RequiredFactsPresent FactsDetermined GuardrailHonest ErrorsOnlyFromDates CountsFullDays
PROPERTY EditsAreScoped
CHECK_DEADLOCK FALSE
