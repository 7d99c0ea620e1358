SPECIFICATION FairSpec
CONSTANTS
  Kinds <- ASOOnly
  Types <- AllTypes
  Edits <- NoEdits
  MaxEdits = 0
  MaxFaults = 0
PROPERTIES
  AKSZoneCreated
\* The clean-up has come to its end and nothing is left to do.
CHECK_DEADLOCK FALSE
