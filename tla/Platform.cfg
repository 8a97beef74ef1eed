SPECIFICATION Spec
CONSTANTS
    Addrs = {addr1, addr2}
    MaxVersion = 2
    MaxEdits = 3
    MaxAborts = 1
    Savers = {saver1, saver2}
    MaxRequests = 3
    MaxKeys = 5
    MaxFaults = 1
    repo1 = repo1
    repo2 = repo2
    repo3 = repo3
    project1 = project1
    project2 = project2
    NoProject = NoProject
    Missing = Missing
    Repos = {repo1, repo2, repo3}
    FirstNodes <- MCFirstNodes
    Saves <- MCSaves
    Bindings <- MCBindings
    Clients = {client1, client2}
    MaxCalls = 3
    MaxCallFaults = 1
    Groups = {group1, group2}
    Paths = {"path1", "path2"}
    PageSize = 1
    MaxConcurrentReconciles = 1
    MaxChanges = 3
    MaxFailures = 1
INVARIANTS TypeOK NothingLeftInArgo UndisturbedSaveRepairs UndisturbedDeleteErases
INVARIANTS OnlyAllowedAreGranted AllowedAreGranted NothingLeftOfProduct
PROPERTIES ServedInArgo NewestKeyArrives DeletionEnds
PROPERTIES OnlyLostProductsAreDeleted ProductsFollowGitlab
CHECK_DEADLOCK FALSE
