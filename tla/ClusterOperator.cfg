\* A host cluster and one that changes between virtual and physical, worker and
\* host; four requests, two failures or crashes.
SPECIFICATION Spec
CONSTANTS
  h1 = h1
  c1 = c1
  Clusters = {h1, c1}
  Specs <- MCSpecs
  MaxEdits = 4
  MaxFaults = 2
INVARIANTS TypeOK NothingLeftBehind WorkerStaysReachable HostOutlivesGuests
PROPERTIES EventuallySynced EventuallyDeleted
CHECK_DEADLOCK FALSE
