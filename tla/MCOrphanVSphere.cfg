SPECIFICATION Spec
CONSTANTS
  Clusters = {c1}
  Kinds <- VSphereOnly
  MaxFaults = 0
  MaxCrashes = 0
  MaxEdits = 0
INVARIANT
  NeverOrphaned
\* Everything may be gone in the end.
CHECK_DEADLOCK FALSE
