CONSTANTS
  k1 = k1  k2 = k2  rego1 = rego1  rego2 = rego2
  cr1 = cr1  cr2 = cr2  pub1 = pub1  pub2 = pub2
  ActionKeys = {k1}
  Codes = {rego1, rego2}
  NoCode = NoCode
  Null = Null
  VersionNos <- MCVersionNosWithZero
  Creators = {cr1, cr2}
  Publishers = {pub1}
  Faults = TRUE
SPECIFICATION PolicySpec
INVARIANTS PolicyTypeOK AtMostOnePublished UnseenRowsNotPublished
PROPERTIES LiveCodeIsStable PolicyLossCauses PublishOkIsActive
SYMMETRY MCSymmetry
