\* Three requests for a code repository and two pipeline runtimes.
CONSTANTS
  req1 = req1  req2 = req2  req3 = req3
  repo = repo  rt1 = rt1  rt2 = rt2
  repos = repos  proj1 = proj1  proj2 = proj2
  path = path
  Requests = {req1, req2, req3}
  Names = {repo, rt1, rt2}
  Homes = {repos, proj1, proj2}
  Uses = {path}
  Locations <- MCLocations
  Contents <- MCContents
  MaxFaults = 1
SPECIFICATION Spec
SYMMETRY Symmetry
CHECK_DEADLOCK FALSE
INVARIANTS TypeOK ReferencesResolve ListIsComplete OneFilePerResource SuccessIsSaved
PROPERTY PushesKeepOthers
