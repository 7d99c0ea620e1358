SPECIFICATION Spec
CONSTANTS
  Kinds <- AzureOnly
  Types <- AllTypes
  Edits <- AnnotationEdits
  MaxEdits = 1
  MaxFaults = 0
INVARIANT
  NothingOrphaned
\* The clean-up has come to its end and nothing is left to do.
CHECK_DEADLOCK FALSE
