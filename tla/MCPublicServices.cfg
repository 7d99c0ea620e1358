SPECIFICATION FairSpec
CONSTANTS
  Kinds <- VSphereOnly
  Addresses = {a1, a2}
  Hosts <- ClashingHosts
  NumGateways = 1
  TagKeys = {k1, k2}
  TagValues = {v1, v2}
  Locations <- FoundLocation
  Edits <- ServiceEdits
  MaxEdits = 2
  MaxFaults = 1
INVARIANTS
  SuccessIsTruthful
PROPERTIES
  Converges
  RecordsSettle
  ApiConverges
