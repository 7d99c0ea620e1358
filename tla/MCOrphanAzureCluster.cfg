SPECIFICATION Spec
CONSTANTS
  Clusters = {c1}
  Kinds <- AzureOnly
  MaxFaults = 0
  MaxCrashes = 0
  MaxEdits = 1
INVARIANT
  NeverOrphaned
\* Everything may be gone in the end.
CHECK_DEADLOCK FALSE
