SPECIFICATION FairSpec
CONSTANTS
  Kinds <- AllKinds
  Types <- AllTypes
  Edits <- AllEdits
  MaxEdits = 1
  MaxFaults = 1
INVARIANTS
  TypeOK
  RightClient
  CleanupFindsAll
PROPERTIES
  EventuallyThere
  EventuallyGone
\* The clean-up has come to its end and nothing is left to do.
CHECK_DEADLOCK FALSE
