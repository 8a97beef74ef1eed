\* A virtual worker cluster that is turned into a host; nothing fails.
SPECIFICATION Spec
CONSTANTS
  h1 = h1
  c1 = c1
  Clusters = {h1, c1}
  Specs <- MCSpecs
  MaxEdits = 3
  MaxFaults = 0
INVARIANT HostIsUnreachable
CHECK_DEADLOCK FALSE
