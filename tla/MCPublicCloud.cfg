SPECIFICATION FairSpec
CONSTANTS
  Kinds <- AllKinds
  Addresses = {a1, a2}
  Hosts <- PlainHosts
  NumGateways = 1
  TagKeys = {k1, k2}
  TagValues = {v1, v2}
  Locations <- AnyLocation
  Edits <- CloudEdits
  MaxEdits = 2
  MaxFaults = 1
INVARIANTS
  TypeOK
  SuccessIsTruthful
PROPERTIES
  Converges
  RecordsSettle
  ImplementsDNSService
