SPECIFICATION FairSpec
CONSTANTS
  Kinds <- VSphereOnly
  Addresses = {a1, a2}
  Hosts <- PlainHosts
  NumGateways = 1
  TagKeys = {k1, k2}
  TagValues = {v1, v2}
  Locations <- FoundLocation
  Edits <- ServiceEdits
  MaxEdits = 1
  MaxFaults = 0
PROPERTIES
  ApiServed
