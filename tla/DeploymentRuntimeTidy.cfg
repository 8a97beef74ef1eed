\* Users change a runtime only after its last change was deployed; a call fails
\* or the operator crashes once.
SPECIFICATION Spec
CONSTANTS
  Names = {r1, r2}
  s1 = s1
  s2 = s2
  a1 = a1
  a2 = a2
  p1 = p1
  p2 = p2
  Spaces = {s1, s2}
  Accounts = {a1, a2}
  Repos = {p1, p2}
  Product = product
  Specs <- MCSpecs
  MaxEdits = 4
  MaxFaults = 1
  UsersWait = TRUE
  UsageWritesFail = FALSE
INVARIANT NothingLeftBehind
PROPERTY EventuallyDeleted
CHECK_DEADLOCK FALSE
