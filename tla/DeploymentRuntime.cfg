\* Two runtimes that may share spaces and an account; users change them at any
\* time, also in the middle of a reconcile, and one call fails or one crash
\* happens, also when the usage record is written.
SPECIFICATION Spec
CONSTANTS
  Names = {r1, r2}
  s1 = s1
  s2 = s2
  a1 = a1
  a2 = a2
  p1 = p1
  p2 = p2
  Spaces = {s1, s2}
  Accounts = {a1, a2}
  Repos = {p1, p2}
  Product = product
  Specs <- MCSpecs
  MaxEdits = 3
  MaxFaults = 1
  UsersWait = FALSE
  UsageWritesFail = TRUE
INVARIANTS TypeOK InUseIsKept
PROPERTY EventuallyDeployed
CHECK_DEADLOCK FALSE
