SPECIFICATION FairSpec
CONSTANTS
  Addresses = {a1, a2}
  LinkNames = {own, foreign}
  OwnLink = own
  Networks = {ours, theirs}
  Ours = ours
  Edits <- AllEdits
  MaxEdits = 2
  MaxFaults = 2
INVARIANTS
  TypeOK
  SuccessIsTruthful
PROPERTIES
  Converges
  ARecordsSettle
  DeletionCompletes
  ImplementsDNSService
\* The clean-up has succeeded and nothing is left to do.
CHECK_DEADLOCK FALSE
