\* A worker cluster that is registered and deleted; one failure.
SPECIFICATION Spec
CONSTANTS
  h1 = h1
  c1 = c1
  Clusters = {h1, c1}
  Specs <- MCSpecs
  MaxEdits = 2
  MaxFaults = 1
INVARIANT DeletionCleansUp
CHECK_DEADLOCK FALSE
