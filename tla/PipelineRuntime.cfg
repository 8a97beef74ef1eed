\* Two runtimes with an account and a repository to listen to in common; users
\* change them at any time, also in the middle of a reconcile, and one call
\* fails, or the operator crashes, or a request is written late.
SPECIFICATION Spec
CONSTANTS
  Names = {r1, r2}
  r1 = r1
  r2 = r2
  s1 = s1
  s2 = s2
  a1 = a1
  a2 = a2
  k1 = k1
  k2 = k2
  t1 = t1
  Spaces = {s1, s2}
  Accounts = {a1, a2}
  Repos = {k1, k2, t1}
  Product = product
  MaxTriggers = 2
  SpecsOf <- MCSpecsOf
  MaxEdits = 3
  MaxFaults = 1
INVARIANTS TypeOK InUseIsKept NothingLeftBehind NoEventIsLeft
PROPERTIES EventuallyDeployed EventuallyDeleted
CHECK_DEADLOCK FALSE
