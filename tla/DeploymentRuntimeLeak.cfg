\* Nothing fails; a runtime changes while it is reconciled.
SPECIFICATION Spec
CONSTANTS
  Names = {r1, r2}
  s1 = s1
  s2 = s2
  a1 = a1
  a2 = a2
  p1 = p1
  p2 = p2
  Spaces = {s1, s2}
  Accounts = {a1, a2}
  Repos = {p1, p2}
  Product = product
  Specs <- MCSpecs
  MaxEdits = 2
  MaxFaults = 0
  UsersWait = FALSE
  UsageWritesFail = FALSE
INVARIANT SpacesAreRemembered
CHECK_DEADLOCK FALSE
