SPECIFICATION Spec
CONSTANTS
  Kinds <- ASOOnly
  Types <- AllTypes
  Edits <- IdentityEdits
  MaxEdits = 1
  MaxFaults = 0
INVARIANT
  RightSubscription
