SPECIFICATION FairSpec
CONSTANTS
  Clusters = {c1}
  Kinds <- AllKinds
  MaxFaults = 2
  MaxCrashes = 1
  MaxEdits = 2
INVARIANTS
  TypeOK
  ASONeverOrphaned
  NoLameDelegation
PROPERTIES
  NoResurrection
  ConditionTruthful
  ImplementsDNSService
  EventuallyServed
  DeletionCompletes
\* Everything may be gone in the end.
CHECK_DEADLOCK FALSE
