# Nautes: a TLA+ verification project

TLA+ models of the parts of Nautes in which several actors change shared state,
what TLC checks about them on small instances and what TLAPS proves about them
for every value of the constants.

## 1. The system

Nautes is a set of Kubernetes operators and an API server around git. Users call
the **api-server**, which writes resources (clusters, products, code
repositories, runtimes, ...) into a git repository per product; Argo CD brings
them into the tenant cluster as custom resources; the **operators** reconcile
them into runtime clusters, Argo CD and a secret store (vault behind a proxy).

| Part | State it keeps | Operations | What is hard | What makes it correct |
|---|---|---|---|---|
| work queue (`pkg/queue`) | store, FIFO, dirty and in-process sets, delayed additions, retry counts; in memory | `Send`, worker loop, `handleErr` | senders, workers and delays interleave; retries | no post lost; newest entry handled; one worker per topic; retries end |
| runtime-operator, deployment runtime | status cache of each object, usage record (a ConfigMap) | reconcile: about twenty calls to components | partial failure, crashes, edits during a reconcile, runtimes that share spaces and accounts | what is in use is kept; what is not in use goes; every runtime is deployed or deleted in the end |
| runtime-operator, pipeline runtime | same, plus event sources, sensors, hook secrets, additional applications | reconcile: about thirty calls | same, and one account that all runtimes listen with; records written after what they record; a namespace check that races | same; a runtime's events reach it, and nobody listens for a runtime that is gone |
| hnc, argocd, vault, argo-events components | namespaces, applications, roles, event sources and the record of their kinds | calls of the reconcilers | idempotence, namespaces that terminate slowly | each call can be repeated |
| cluster-operator | sync history in the status; secret, auth mount and permissions of each cluster in the secret store | sync, clean-up, delete | failure or crash between the secret, the auth and the status; clusters that change their type or usage, or host others | the secret store follows the spec; a synced worker stays usable; nothing is left when a cluster is deleted |
| base-operator | products, their namespace, application and repository | list GitLab page by page and follow it; deploy or erase a product | projects that come or go between two pages; a deletion that polls, gives up and starts over | products are GitLab's projects; nothing is left of one that is gone |
| argo-operator | Argo CD's clusters and repositories; address and secret version in the status | follow spec and secret version | data and version read in two calls; entries written but not recorded | Argo CD has the newest key; nothing is left of an object that is gone |
| api-server, product repository | git clone per request, node tree | save, delete, push, automatic merge | concurrent pushes, shared node tree | references in the repository resolve |
| api-server, code repositories | two deploy keys and an access token of each, in GitLab and in the vault | save, delete | nothing but the order of the calls ties the two stores together; requests overlap | every key in the vault is one GitLab knows; a deletion erases all |
| api-server, code repository binding | deploy keys enabled in other repositories; a cache kept in the use case | authorize, revoke | shared cache, goroutines nobody waits for, error channels | deploy keys follow the bindings |
| webhooks | none | admission checks of references | they race with the changes they check | no dangling reference is admitted |

Interaction: the api-server posts to the work queue and pushes to git; the
operators see custom resources only. The runtimes of a product on a cluster
share the usage record, the product's namespaces, accounts and roles; those of
the two kinds never meet there, as a cluster serves deployments or pipelines,
not both (`deploymentruntime_webhook.go:154`,
`projectpipelineruntime_webhook.go:130`, `cluster_webhook.go:124`). The base-operator makes the namespace and the
repository that everything else of a product lies in, the api-server's code
repository requests put the keys into the vault that the argo-operator carries
to Argo CD. GitLab, the vault, git and Argo CD are all they have in common, and
none of them is locked for longer than a call.

## 2. Modules

| Module | Models |
|---|---|
| `CoalescingMailbox` | abstract: what the queue promises a sender |
| `NautesQueue` | `pkg/queue/nautesqueue`, with client-go's rate limited work queue |
| `NautesQueueProofs` | its theorems |
| `RuntimeCluster` | the cluster, Argo CD, vault and the usage record as the reconcilers of the runtime-operator see them |
| `DeploymentRuntime` | the deployment runtime controller over `RuntimeCluster` |
| `MCDeploymentRuntime` | its instances for TLC |
| `DeploymentRuntimeProofs` | its theorems |
| `EventListener` | the argo-events component: event sources, sensors, access tokens and the record of the kinds |
| `PipelineRuntime` | the pipeline runtime controller and its webhook over `RuntimeCluster` and `EventListener` |
| `MCPipelineRuntime` | its instance for TLC |
| `PipelineRuntimeProofs` | its theorems about what is in use and what is listened to |
| `PipelineRuntimeDeletionProofs` | its theorem about what is left behind |
| `ClusterOperator` | registration of clusters in the api-server, Argo CD and the cluster webhook, and the controller of the cluster-operator with its secret client |
| `MCClusterOperator` | its instances for TLC |
| `ClusterOperatorProofs` | its theorems |
| `ProductRepository` | saving and deleting a resource in a product's git repository: the api-server's requests, the remote branch and git's merge |
| `MCProductRepository` | its instance for TLC |
| `ProductRepositoryProofs` | its theorems |
| `ArgoOperator` | the argo-operator: the CodeRepo and the Cluster controller |
| `CodeRepoKeys` | the api-server's requests that save and delete a code repository, with its keys in GitLab and the vault |
| `KeyAuthorization` | the api-server's refresh of the keys enabled in other repositories |
| `BaseOperator` | the base-operator: the ProductProvider's and the Products' controllers |
| `Platform`, `MCPlatform` | composes the last four, and its instance for TLC |
| `KeyProofs` | the theorems about `CodeRepoKeys` and `KeyAuthorization` |
| `PlatformProofs` | the theorems about the argo-operator, the base-operator and the platform |

### NautesQueue

`Send` is two steps (`SendStore`, `SendQueue`), `processNextItem` one per
effect: `Get`, `Fetch` (GetByKey), `Handled` (the handler returns nil or an
error), `HandleErr` (reads the retry count), `Requeue` or `Forget`, and the
deferred `Done`. The work queue of client-go v0.26 is external and modelled from
its documented behaviour: `Add` keeps one pending occurrence of a topic, a topic
in process is only marked dirty and queued again by `Done`; `AddRateLimited`
counts and delays; `Elapse` is the end of a delay. An entry is named by the order
in which it reached the store, so that "newest" can be said. `seen`, `good`,
`gaveUp` and `retries` are history variables. The process never closes the stop
channel, so there is no shutdown.

Fairness: a `Send` that began ends, each worker goroutine goes on, each delay
ends. Requests need not come.

### RuntimeCluster and DeploymentRuntime

One product on one cluster. `RuntimeCluster` has the state outside the operator:
`ns` (phase of each namespace; a deleted one is terminating until
`NamespaceGone`), `users` (the accounts annotated on a space, with their service
accounts, and a marker `UserList` for the annotation itself), `accounts` (annotated on the product's namespace), `project` and
`apps` (Argo CD), `roles` (vault) and `usage` (the ConfigMap; `known` tells
whether it exists). A check that makes an operation return an error is a `CanX`.

`DeploymentRuntime` adds the objects and the reconcile in progress, `run`: what
was read of the object (`spec`, `old`, the cache in the status), the cache to be
saved (`new`), the copy of the usage record, what is left to do at the current
step (`todo`), whether it failed and whether the object changed meanwhile
(`stale`). There is one worker, as `SetupWithManager` leaves
`MaxConcurrentReconciles` at one. Every call to a component is a step; it may

  - fail without an effect (`CallFails`),
  - take effect and its answer get lost (`Answer`),
  - be refused (`Refuse`), when the code's own check says so;

all three go to the deferred `SaveUsage` and then to `SaveStatus`, as the code
does. `Panic` goes there too, but saves the cache that was read: deleting a user
from a namespace nobody has been added to writes to a nil map (`hnc.go:418`;
`addSpaceUsers` has the check). The operator goes down, and starts over.
Such a runtime panics in every reconcile, before it would add the users
(`Panics`); `EventuallyDeployed` excepts it and says that no other is held up.
`Crash` drops the reconcile at any step, so neither the usage record nor
the status is written. Updates of the object carry its resource version: when
the object changed since it was read they are refused (`stale`).

Abstracted: the permissions of a runtime are its code repository's secret; the
calls inside one operation of a component are one step (an operation that fails
half-way is repeated by the next reconcile and is idempotent); HNC configuration,
role bindings, CA secrets and the product's shared application are part of
`CreateProduct`; validation of project references only sets conditions; the
object is read at its newest version; a read error of `NewTask` is covered by
the failure of `GetUsage`. Assumed of the vault proxy: revoking what is not
granted, and deleting a role that does not exist, succeed.

Fairness: the worker goes on with what it began (`WF` of `Proceed`); each object
comes up for a reconcile again and again (`SF` of `Reconcile`: failed ones are
retried with a back-off, successful ones after `reconcileFrequency`, 60 s);
namespaces that terminate are gone in the end. Users need not do anything, and
nothing is assumed of failures but their number.

### ClusterOperator

A cluster goes from a user's request to the secret store through four hands:

| Variable | Kept by | Changed by |
|---|---|---|
| `saving` | a request to the api-server between its two steps | `SaveKubeconfig`, `PushCluster`, `GiveUp` (the push failed) |
| `git` | the tenant repository | `PushCluster`, `PushVirtual`, `RemoveCluster` |
| `objects` | Kubernetes: phase, finalizer, spec, and the history `last` (LastSuccessSpec) | Argo CD (`CreateObject`, `UpdateObject`, `PruneObject`, as the webhook admits) and the controller |
| `secret`, `auth`, `access` | the secret store: kubeconfig, auth mount with its role and grants, the Runtime operator's permission | `SaveKubeconfig` and the controller's calls |
| `run` | the reconcile in progress: spec and history as read, and the calls that are left | the controller |
| `hasty` | history variable: clusters changed before the last change was settled | requests |

A reconcile is the sequence of calls that `Sync` or `Delete` of the vault client
makes for what it has read: `SyncPlan`, `DeletePlan` and, after an error of a
sync, `CleanPlan`. `Call` makes the next one; `CallRefused` is an error the state
of the store gives (no kubeconfig to read, no host); `CallFails` any other error,
with or without the effect; `Crash` drops the rest. Users and Argo CD step in
between any two. `CleanPlan` passes its two clusters in the order in which the
code does, which is not the order of the parameters.

Abstracted: a status update with a conflict is a failed call, so reading the
newest version and updating it are one step; Argo CD updates only live objects;
the calls that make up a role or a grant are one step each; revoking and
disabling what is not there succeeds, as the code checks first or the proxy
tolerates it; a deleted secret's metadata are taken to be gone with it. Left
out: runtimes that refer to a cluster, the collection of entry points, cluster
templates and the worker type.

Fairness: the worker goes on with what it began (`WF` of `Proceed`); each object
comes up again and again (`SF` of `Observe`: requeued after 60 s, or with a
back-off after an error); Argo CD keeps applying (`WF` of `Apply`). A request
need not be finished: `PushCluster` has no fairness.

Two behaviours the properties step around, on purpose:

  - A virtual cluster that becomes physical loses its kubeconfig in the sync that
    follows, though the api-server has just saved one; the secret's removal is
    what the client's own test expects (`vault_test.go`). From the next sync on it
    waits for a kubeconfig, until the cluster is registered again. `EventuallySynced`
    speaks of clusters that are `Syncable`.
  - A cluster that changed and got dependents before the change was synced is
    refused by the validation of the controller and stays as it is while it has
    dependents. `Syncable` leaves it out too.


### ProductRepository

`main` is the remote branch: its resource files, the lines of its kustomization,
and whether these stand in the order in which `Load` walks the tree; `tip` counts
the pushes it has taken. A resource is what the rules tell apart: the resources it
refers to and what it takes (`use`), which no other of its kind may take
(a path of a repository in an environment, a cluster). Each request works in a
clone of its own, kept in `req[r]`: the local branch `head`, the push it is
`base`d on, the working tree `work`, and what it wants (`target`, `was`,
`content`).

| Action | Code |
|---|---|
| `Clone`, `CloneRefused` | `Save`, `Delete` up to `updateKustomization`: all but the clone itself is in the request's own directory, so it is one step |
| `Fetch` | `PushToGit`: fetch and diff with the remote branch |
| `SaveConfigClean`, `SaveConfig` | `SaveConfig`: status, commit, push |
| `Merge`, `MergeConflicts`, `NothingToCommit` | `retryAutoMerge`: fetch, commit, merge |
| `Push`, `Retry` | its push, and the next round |
| `Abort` | a call that fails without effect, or the end of the server |

A push is accepted when it builds on the last commit of the remote branch; its
answer may be lost (`faults`). git is external. Its merge was modelled from how
the command behaves on such trees: a file changed by both sides merges line by
line or conflicts; lists merge as sets; a kustomization whose base is not sorted
may keep the line of a file that one side has deleted (`StaleLines`); and a file
that the others have added may be taken for the one they have deleted, renamed
(`Successors`): git then applies the request's change to that file. The model lets
git conflict whenever both sides changed a file or the list. A list that a merge
has left with a line twice counts as complete here.

`took`, `last` and `merged` are history variables. Left out: the steps of each kind
around the save (GitLab projects, deploy keys), `IsDeletable` of environments,
checks against the cluster, and two things requests share in memory, the ignore
list and the last node tree (see the hazards).

### EventListener and PipelineRuntime

`EventListener` has the state of the argo-events component: per runtime the
GitLab event source with the repositories its annotation names (`gitlab`), the
calendar one, the ingress (`entry`), the token secrets (`tokens`), the numbers of
its sensors, and the recorded kinds (`cached`, the ConfigMap
`nautes-argo-event-cache`). `listener` is what the one account may read that all
runtimes listen with: each runtime grants and revokes for itself.

`PipelineRuntime` is built as `DeploymentRuntime` is, one step per call, with the
same three ways to fail and the same deferred writes. What differs:

  - users' requests pass the webhook (`Apply`), which refuses a namespace another
    object names; `Admit` and `WriteLate` split a request into its validation and
    its write, so that two may pass at once. The controller validates again;
  - `UnlistenRepo`, `CreateSource`, ... are the loops of the event source
    generators, a repository at a time, and a failure may come after the grant
    and before the secret; sensors are created and deleted in order;
  - the hook secret has one name whatever repository it is of;
  - the space of the last deployment is deleted whoever uses it by now, an old
    space is left behind, and a deletion deploys the application again that the
    spec still asks for: all three as the code has it.

Code repositories may be deleted when the webhook and the api-server allow it
(`DeleteCodeRepo`): one that is only listened to may go too early.

Properties are stated up to what the code cannot do: `CalendarLost` (the calendar
source is gone and its record not, `eventsource_calendar.go:53`), `SensorGap`
(`sensor.go:84`), `RepoGone`, `SpaceForgotten` and `Panics` (`hnc.go:418`, as for
deployment runtimes) name the states nothing leads out of; in all others `EventuallyDeployed` and `EventuallyDeleted` hold. Four history
variables name the other exceptions:

  - `recorded`, the runtimes whose last write of the usage record succeeded; only
    of these `InUseIsKept` speaks;
  - `left`, the spaces a runtime was moved out of. One stays marked until it is
    deleted *and* no cache names it: as long as one does, the deletion of that
    runtime takes the space from whoever has moved in since;
  - `abandoned`, the runtimes deleted while their spec asked for an application,
    which the deletion then deploys;
  - `calm`: users waited for their changes to be deployed, and no write of the
    usage record was lost that took a runtime or a use of an account off. After
    such a loss the record names something nobody uses any more, and the account
    and permissions of the last deployment stay, as another one seems to need them.
    The error is logged and ignored (`pipelineRuntime.go:190`), and the status no
    longer names what a later reconcile would have to remove.

### ArgoOperator

One object of one kind, chosen at the start. Users create, move and delete it;
`RotateSecret` and `RevokeKey` change the vault and what the other side accepts.
The reconcile is `StartReconcile`, `ReadData` and `ReadVersion` (two calls of
`GetSecret`), `DropOldEntry`, `WriteEntry` or `KeepEntry`, `RecordSync`, and for a
deletion `RemoveEntry` and `ReleaseObject`. `DropOldEntry` comes before the write
for a repository and after it for a cluster. The four ways to save a cluster
differ in what they compare only: `MustWrite` is their common rule. `AbortPass`
fails or kills the pass anywhere; `SwallowError` is the one error the queue does
not hear of (`finalizer.go:53`); `RestartOperator` queues the object again. An object
that fails its validation is not touched and tried again later; that counts as an
abort, as one that stays invalid is never synchronised.

Argo CD knows the state of a connection only while it watches it (`watched`, changed
by `WatchEntry`): otherwise it reports "Unknown", which the operator takes for valid
(`cluster.go:57`, `repository.go:36`). So `Invalid` needs a watched entry, and an
old key in an entry nobody watches stays unless the versions tell: `ServedInArgo`
excepts the objects whose status does not let them be compared. Argo CD ceases to
watch no more often than `MaxAborts` allows.

`unfollowed` and `doubtful` are history variables that name the exceptions: an
entry whose address no status has, and a status whose version is not that of the
key (read before the rotation, or kept because it still works).

### CodeRepoKeys

One GitLab project. `SaveRepository`, `SaveNode`, then for each kind of key
`LookUpSecret` (vault), `CheckKey` (GitLab), `DropListed`, `CreateInGitlab`,
`StoreSecret`, at last `PruneTokens`; `FindRepository` begins a deletion, which
removes the resource, the three secrets, the deploy keys and the project. Several
requests run, none takes a lock. `RequestFails` ends one anywhere. `alone` tells
whether a request overlapped with another; `settled` what the last one achieved
if it did not. A deletion that failed after it removed the resource cannot be
repeated: the resource is what `DeleteCodeRepo` looks for (`coderepo.go:265`).

### KeyAuthorization

One product. A request saves or deletes a binding or a code repository: it loads
its clone into a tree, changes and checks it (`BeginSave`), and pushes, which merges
without another check what others pushed since (`Push`, `Merged`, `Conflict`). It then
runs `refreshAuthorization`: `LoadNodes`, `InitialCacheStore`, `ClearAndPair`,
`ProcessAuthorization` for each binding, `EndRefresh`. `AuthorizePair` is a
goroutine of `authorizeForSameProjectRepo`, which the request does not wait for.
`cache` and `blocked` (the wait group) are shared by all requests. Keys are known
by repository and permission.

Faithful to the code, also where one would expect something else:

  - the last tree that *any* request loaded is a field all requests share
    (`nodestree.go:267`), and a request about a binding refreshes by that one
    (`GetNodes`, `coderepobinding.go:132`, `:168`): another request's load, be it only
    to read (`ReadNodes`), may bring a deleted binding back into the refresh or take
    a new one out of it. `Loaded` replaces the tree in the record of each binding
    request that has still to take it. A tree is changed in place by the request
    that loaded it, also when the change is then refused;
  - a missing vault secret is an `ErrorSecretNotFound`, which callers that
    tolerate `DeploykeyNotFound` only treat as a failure; the goroutine then
    sends on a channel that is closed, and the server stops (`PairCrashesServer`);
  - after a failed query of `checkDeployKey` that request and every later one
    wait for ever (`ClearAndHang`, `coderepobinding.go:899`);
  - an error of `initialCacheStore` leaves the cache filled (`ListingFails`);
  - `nodesToCodeRepoists` returns all repositories when its filter finds none
    (`Filtered`);
  - `clearInvalidDeployKeys` deletes nothing, and `removeInvalidDeploykey` has no
    caller.

The properties speak of *undisturbed* requests: no other was in progress from the
load of the clone to the end of the refresh, no goroutine of an earlier one was
left, and if it was about a binding nobody loaded another tree before its
`GetNodes`. For the others they do not hold, for the reason above. No request sets
`insecureSkipCheck`, and loads for other products, which replace the shared tree by
one with none of these repositories, are not modelled.

### BaseOperator

`projects` and `path` are GitLab's, newest project first, as the listing is
ordered. The ProductProvider's pass is `CountProjects`, one `ListPage` per page,
`Compare` and `ApplyProduct` for each difference; projects come and go between
any two of them. A pass for a product is `StartPass`, `SyncNamespace`,
`SyncCodeRepo`, `SyncArgoApp`, or for one that is being deleted `DeleteArgoApp`,
`WaitForApp`, `DeleteNamespace`, `WaitForNamespace`, `ReleaseProduct`: a wait looks
twice and then gives up, which is an error that queues the product again.
`AppEnds`, `NamespaceEnds`, `CodeRepoEnds` are Argo CD and Kubernetes. `raced` and
`counted` are history: whether a project came or went during the listing, and
which were there at its start.

### Platform

The four modules have no variable in common: what one leaves in GitLab, the
vault or the cluster is for another a change that its own module lets happen at
any time. A behaviour of `Platform` therefore follows one part and lets the others
rest. That checks each against the most general environment, not against the
others' own speed; what one *needs* of another to come to an end is stated as a
bound on it (users' edits, GitLab's changes).

## 3. Runs

| Run | Result | Shows |
|---|---|---|
| `NautesQueue` | pass | two topics, senders and workers, 2 requeues, 2 sends each: `NoLostPost`, `SettledWhenIdle`, the refinement `MailboxSpec` with liveness, `ComesToRest` |
| `NautesQueueRetries` | violation | `RetriesBeforeDrop`: "retries 5 times" does not hold, as sends use up the budget |
| `DeploymentRuntime` | pass | two runtimes that share spaces, account and permissions, changed at any time (3 edits), one failure or crash, also of the usage record's write: `InUseIsKept`, `EventuallyDeployed` |
| `DeploymentRuntimeTidy` | pass | users wait for a change to be deployed; 4 edits, one failure or crash: `NothingLeftBehind`, `EventuallyDeleted` |
| `DeploymentRuntimeLeak` | violation | `SpacesAreRemembered`: an edit during a reconcile loses the cache with the spaces it created |
| `ClusterOperator` | pass | a host cluster and one that is physical or virtual, worker or host; 4 requests, 2 failures or crashes: `NothingLeftBehind`, `WorkerStaysReachable`, `HostOutlivesGuests`, `EventuallySynced`, `EventuallyDeleted` |
| `ClusterOperatorLeak` | violation | `DeletionCleansUp`: a first sync fails after it made the auth mount, the clean-up does nothing, and the deletion has no history to work from |
| `ClusterOperatorHost` | violation | `HostIsUnreachable`: a virtual worker that becomes a physical host is synced with success and keeps its auth mount and permission |
| `ProductRepository` | pass | three requests for a code repository and two pipeline runtimes, checked or not, one lost answer: `ReferencesResolve`, `ListIsComplete`, `OneFilePerResource`, `SuccessIsSaved`, `PushesKeepOthers` |
| `PipelineRuntime` | pass | two runtimes that share an account, a repository they listen to and a space one of them leaves; 3 edits, one failure, crash or late request: `InUseIsKept`, `NothingLeftBehind`, `NoEventIsLeft`, `EventuallyDeployed`, `EventuallyDeleted` |
| `Platform` | pass | argo: `NothingLeftInArgo`, `ServedInArgo`, `NewestKeyArrives`, `DeletionEnds`; keys: `UndisturbedSaveRepairs`, `UndisturbedDeleteErases`; grants: `OnlyAllowedAreGranted`, `AllowedAreGranted`; base: `NothingLeftOfProduct`, `OnlyLostProductsAreDeleted`, `ProductsFollowGitlab` |
| `ProductRepositoryRetries` | violation | `RetriesThreeTimes`: after a refused push of a merge the retry fails in `git commit`, as nothing is left to commit |

Bounds. Queue: two topics, senders and workers give every pair that can
interfere; two requeues exercise the retry and its end; two sends per sender let
a post arrive in every phase of the handling of the one before. Runtimes: two
names and three specs that share a space, an account or a repository pairwise;
three edits are enough for create, create, change or delete one; four for a
runtime that is deleted and the product with it. `MaxEdits` and `MaxFaults`
bound only users and faults: reconciles are unbounded, so liveness is checked
over cycles of retries. Clusters: `h1` hosts `c1`, and `c1` has three specs (virtual
worker, physical worker, physical host), so that each change of type and of usage
occurs; four requests register both, change one and delete one, or register,
change twice and delete; two faults let a sync and its clean-up both fail. The
invariants were also checked with six requests.

Product repository: three requests are needed for a push to be refused after a
merge, for a merge over an unsorted kustomization (one creates, two change), and
for a rename (one deletes, one creates, one changes); more would only repeat
these. Two of the resources take the same path, one may lie in two projects and
refers to the third. Requests start from any valid tree with a sorted
kustomization; the unsorted ones come from creations. One request does one thing,
so the counters are bounded by `Requests`.

Pipeline runtimes: one runtime is moved to another space, account and
repository and stops listening; the other shares its account and its token, and
may take the space the first has left. Three edits create both and change one,
or create, change and delete one. `MaxTriggers = 2` is what a gap in the sensors
needs. `NothingLeftBehind` (of the cluster) and `NoEventIsLeft` (of what is listened
to) are claimed for `calm` users only, as for deployment runtimes, and `left` names
the spaces that moves leave behind.

Platform: `argo` has two addresses, two versions of the secret, three edits
(create, move, delete) and one failure; a restart is no failure and may come at
any time. `keys` has two requests at a time and three in all: two that overlap,
and one that finds what they left; five keys are as many as three saves can make
after one failure and four before a save repairs them. `grants` has three
repositories, of which two share a project and one joins the product; a binding
for the whole product and one for a project, three requests, one failure, any number of loads that only read. `base`
has two groups and pages of one project, so that every change shifts the page
boundary, two paths, three changes (add both and remove or rename one) and one
failure.

Fairness of `Platform`: a pass that is queued is worked on (`WF` of `ArgoStep`, of
the listing); the Products' controller serves its queue in order, so a product
that is due again and again gets its turn although another one's pass keeps the
only worker busy in between (`SF` of `ProductStep`); Argo CD and Kubernetes end
what they delete. Nothing is assumed of users, and requests to the api-server
need not end: `CodeRepoKeys` and `KeyAuthorization` have safety properties only.

What these properties leave out, because the code does: entries of Argo CD that
were written and never recorded, and those of a cluster that moved and was
deleted before it was synchronised (the deletion of a repository follows its
status, that of a cluster its spec, neither both); the old key while it works and
nobody compares versions; deploy keys an earlier save left in GitLab; keys in
repositories whose total permission names no project, which are never cleared
(`coderepobinding.go:742`); keys of one project that another binding contests,
which the refreshes enable and revoke in turn (`coderepobinding.go:694`); and
products missed by a listing during which projects came or went. The last are
deleted with their application and namespace, and made again by the next listing
(`ProductsFollowGitlab`).

What the properties of the product repository leave open is what the code leaves open. After a push of a
merge the references need not resolve, one name may have two files and the
kustomization may have a stale line: the rules are compared before the merge
only. `ReferencesResolve` and `ListIsComplete` say that the next request that
compares and pushes without a merge restores both. `SuccessIsSaved` says where the
change of a successful request was, which after a rename is the file of another
resource.

`UsersWait = TRUE` in `DeploymentRuntimeTidy` is a real restriction: a user who
edits or deletes a runtime while its last change is being deployed can make the
operator forget what it created (`DeploymentRuntimeLeak`), and the deletion of
the last runtime then never ends ("space is found, delete failed").

`UsageWritesFail`: the write of the usage record at the end of a reconcile may
fail and is then only logged. `recorded` is the set of runtimes whose last write
succeeded; `InUseIsKept` speaks of these. It does not hold for the others.

`NothingLeftBehind`, `WorkerStaysReachable` and `HostOutlivesGuests` of
`ClusterOperator` speak of clusters that are not `hasty`. For the others the
history in the status is behind the store, and `ClusterOperatorLeak` shows what
that leads to. `EventuallySynced` holds for all of them.

`CHECK_DEADLOCK FALSE`: every model stops when users have used up their edits
and everything is done, when the queue is empty, or when every request is over.

## 4. Proofs

`NautesQueueProofs` proves, for any finite or infinite sets of topics, senders
and workers, any number of requeues and sends, from `QueueAssumption` alone:

  - `TypeCorrect`, `TopicsAreExclusive`, `PostsAreKept`, `RestIsSettled`;
  - `QueueIsMailbox`: `Spec` implies the mailbox's `SafetySpec`.

The inductive invariant is `IInv`: the type invariant; a topic is in process
exactly when one worker holds it (`HeldIffProcessing`, which gives
`OneWorkerPerTopic`); what is in the FIFO, and only that or a topic in process,
is dirty, and once (`QueueIsDirty`); `NoLostPost`; and what a worker fetched is
accounted for when it lets go of the topic (`FetchedIsSettled`). `NoLostPost` is
not inductive alone: that `Get` leaves another pending occurrence, or that `Done`
finds the dirty mark, needs the relation between the FIFO, the dirty set and the
workers. The proof has one step per action.

`ClusterOperatorProofs` proves, for any set of clusters and specs and any number
of requests and faults, from `ClustersAssumption` alone:

  - `TypeCorrect`;
  - `DeletionIsClean`: `Spec => []NothingLeftBehind`;
  - `SyncedWorkersStayReachable`: `Spec => []WorkerStaysReachable`;
  - `SyncedGuestsHaveTheirHost`: `Spec => []HostOutlivesGuests`.

`NothingLeftBehind` is about clusters that are gone, and a step that makes one go
(the finalizer's removal, or the pruning of an object that has none) says nothing
of the store. `IInv` carries what is needed to that point: an object with a
history has its finalizer, so it cannot be pruned at once (`HistoryIsFinalized`);
so has the object of the reconcile in progress (`RunIsFinalized`); a cluster that
is not hasty and is taken out of git has a history (`SettledHasHistory`), because
its deletion was asked for only once its last change was synced; and a deletion in
progress has removed from the store what is no longer among its calls
(`DeletionProgress`). There is one lemma per action; the calls are told apart
within the one of `Call`.

The other two are about clusters that are there, and a reconcile takes auth and
kubeconfig away from some of them. `JInv`, on top of `IInv`, says when:

  - a call that takes away belongs to a reconcile that changes the cluster's type
    or usage (`RunIsOnCourse`, `CleanCalls`), so what that reconcile found in the
    history is not what the definition says now (`RunIsCurrent`, `ChangesSettle`);
    a cluster that is in sync is not the one it works on;
  - the sync of a worker makes one part of its auth after the other, so all are
    there when it writes the status (`AuthProgress`, `HostProgress`), and they stay
    (`SyncedIsKept`);
  - a cluster that is deleted, or that loses its kubeconfig, had no dependents when
    the reconcile looked, and as there is one worker nobody has synced a new one
    since (`GuestsAreUnsynced`).

`DeploymentRuntimeProofs` proves, for any runtimes, spaces, accounts and
repositories, any number of edits, failures and crashes, from `SpecsAssumption` and
`ClusterAssumption`:

  - `TypeCorrect`;
  - `InUseStays`: `Spec => []InUseIsKept`, also when writes of the usage record fail;
  - `DeletionsAreComplete`: `Spec => []NothingLeftBehind`, when users wait for their
    last change to be deployed and the usage record can be written. These are the two
    constants `DeploymentRuntimeTidy` sets; `DeploymentRuntimeLeak` shows how a space
    is forgotten without the first.

A runtime is *kept* when it is in `recorded` and live, and its last deployment
succeeded. Four places have to agree on what it consists of: the usage
record (`KeptIsRecorded`), the copy a reconcile works with (`CopyIsRecorded`),
which is why what that reconcile computes to be removed is nothing a kept runtime
has (`TodoIsHarmless`), and the cluster, Argo CD and vault (`KeptIsDeployed`). A
runtime becomes kept when its own reconcile ends without a failure, and has by
then seen each part done (`DeploymentProgress`). `AppliedIsKnown` says that a
reconcile of a kept runtime starts from a cache that names the account it deploys
with, so it leaves no account. With more than one worker `CopyIsRecorded` would
not be inductive: another worker writes the record after the copy was read.

`NothingLeftBehind` speaks of a quiet system only, and what is left at that point
was decided in the middle of earlier reconciles. `TidyInv`, on top of `Inv`, says
who is answerable for it at any time. A live runtime *claims* what its spec asks
for; one whose last change is not deployed yet, or that is being deleted, also
claims what the cache in its status remembers. Everything in the cluster, Argo CD
and vault is claimed by somebody (`ClusterIsClaimed`), and the usage record and the
copy of it a reconcile works with name nothing but claims (`UsageIsClaimed`,
`CopyIsClaimed`): a stale entry there would keep things alive for nobody. Claims
are given up in three places: by the deployment that succeeds, by the status of one
that failed, and by the removal of the finalizer. `NewIsTidy`,
`DeploymentIsTidy` and `DeletionIsTidy` follow a reconcile to that point and say
which of the old space, account and permissions it has dealt with, that is, each
is gone or left to another runtime that claims it. A change starts from a cache
that covers the last deployment (`SettledIsSaved`), and what the reconcile read
does not change under it (`RunIsCurrent`); both are what patient users are needed
for. When the system is quiet nobody remembers anything and the claims left are
those of live specs.

`PipelineRuntimeProofs` proves, for any runtimes, spaces, accounts and
repositories, any number of triggers, edits, late requests, failures and crashes,
from `SpecsAssumption` and `ClusterAssumption`:

  - `TypeCorrect`;
  - `InUseStays`: `Spec => []InUseIsKept`;
  - `NoEventStays`: `Spec => []NoEventIsLeft`.

For the product and the accounts the argument is the same, with a lemma for each
of the forty steps of a reconcile. It says nothing of spaces, as there is no record
of who uses one: the deletion of a runtime takes the space its cache names. What
protects a kept runtime's space is the validation, which runs twice and still lets
a runtime into a space that another one has been moved out of and will delete.
`Inv` therefore follows the names in the caches: a cache names the space of its
object or one that object was moved out of (`MovedIsLeft`); two runtimes pass the
validation for one space only if it is left (`ValidatedIsLeft`, which holds from
the controller's own validation to the end of the reconcile, however users edit
meanwhile); so a kept runtime's space that another cache names is left
(`SharedIsLeft`). `ObjectIsRead` and `UnheldIsNew` relate the copy of the object a
reconcile works with to the object itself: without them a stale reconcile could
save its status over an object it has not seen.

`NoEventStays` is about a deletion that may be cut off between any two calls and
has to be found again by the next reconcile, which does not look at the cluster but
at three records: the kinds in `nautes-argo-event-cache`, the annotation of the
GitLab event source and the numbers of the sensors. `EventsInv` (for `calm` users)
says that these are enough. Between two specs a runtime listens to nothing that the
next reconcile will not find (`EventsFollow`): a token is in the new spec or in the
annotation, an event source whose kind the new spec lacks is in the recorded kinds;
the sensors are numbered without a gap, or the gap is at the first surplus number
and no deployment of that spec ends (`SensorsFollow`). `ListeningProgress` and
`SensorsProgress` follow a reconcile that has not failed to the point where it
listens to what it was to bring about and nothing else (`EventsAre`), which is what
a settled runtime starts its next change from (`ObjectsListen`). Two facts are not
about the listener at all: a deletion finds the product in the usage record, or it
would take its finalizer off at once and leave everything (`RecordIsKnown`); and the
ID it looks the kinds up with is in the cache from the first deployment that
succeeded on. A late request may disturb a reconcile, but then all is deployed and
the reconcile changes nothing (`LateIsAlone`, `RunIsCalm`).

`PipelineRuntimeDeletionProofs` proves, under the same assumptions,

  - `DeletionsAreComplete`: `Spec => []NothingLeftBehind`.

The argument is that of claims, as for the deployment runtime, on top of `Inv` and
`EventsInv`, with a lemma for each step again. An object claims what its spec asks
for and what the cache in its status remembers; `TidyInv` (for `calm` users) says
that each space, account, permission, application and hook secret there is, and the
product, is claimed or excepted. Where it differs from the deployment runtime:

  - A failed deployment saves its status too, with whatever it got to, and forgets
    the rest of the old one. `HooksAreTidy`: it forgets the place of the old hook
    secret only when that is gone, or when a call failed, after which the secret may
    stay in the space the runtime was moved out of (`MovedIsLeft` names that space,
    hence the exception `faults < MaxFaults`). `NewIsTidy` says the same of the account
    and its permissions without an exception: they are forgotten only after the
    account has been left (`OldIsLeft`).
  - An application is looked for by no more than a flag of the cache.
    `NewIsSound`, an invariant of its own that does not need `calm`, says that the
    flag is not lost on the way, not even by a reconcile that fails before it calls
    any component, because that one saves what it read.
  - The usage record may name permissions nobody claims after its last write was
    lost. It may do so for one runtime at a time, which is the only one not deployed
    and writes the record again before all is quiet (`Lost`, `RecordIsExact`;
    `ChangesAreAlone`). A lost write that was to take something off
    ends `calm`: what the record then names stays in use.
  - The repositories and event sources a reconcile looks up are there
    (`SourcesAreThere`), so a deployment that gets to its calls fails only when one
    of them did. Otherwise the exception for hook secrets would need no fault.
  - A late request may make a reconcile stale when all is deployed; it then undoes
    nothing (`StaleIsComplete`, `StaleIsExact`).

When all is quiet, no object is being deleted and each live one is deployed, so its
cache has what its spec has (`SettledIsComplete`): the claims of caches are claims of
live specs, which is the property.

`ProductRepositoryProofs` proves, for any names, paths, requests and number of
lost answers, from `RepositoryAssumption` alone:

  - `TypeCorrect`, `CheckedPushIsValid` (`ReferencesResolve`),
    `KustomizationIsComplete` (`ListIsComplete`), `ResourcesAreUnique`
    (`OneFilePerResource`), `SuccessMeansSaved` (`SuccessIsSaved`);
  - `NobodyIsOverwritten`: `Spec => PushesKeepOthers`.

`RepositoryInv` says of each request in progress that it is `Sound`: either it
holds the change of one file, checked against the tree it was made in (`Fresh`),
or a commit that git has merged and that differs from the remote branch in that
file only (`HasMerged`). The point is that a push is accepted only from the newest
commit: `base = tip` determines the tree that is replaced.

The part of `PlatformProofs` about the argo-operator (from `ArgoAssumption`) proves
`ArgoTypeCorrect` and `NoEntryIsLeft` (`NothingLeftInArgo`). `ArgoInv`: an entry in Argo CD is
the one the object's status names, or `unfollowed`, that is, one of those the code
loses sight of (`EntriesAreFollowed`); an object without a finalizer was never
synced (`UnheldIsUnsynced`); and a pass works with the status as it is, and has
cleared the entry when it is about to release its object (`PassIsTidy`).

The part of `KeyProofs` about `CodeRepoKeys` (from `KeysAssumption`) proves `KeysTypeCorrect`, `SaveRepairs`
(`UndisturbedSaveRepairs`) and `DeletionErases` (`UndisturbedDeleteErases`).
`KeysInv`: while a request is `alone` no other is in progress
(`AloneIsTheOnlyOne`), and one that is alone has brought GitLab and the vault in
step for the kinds of key it is done with, whatever state it found
(`AloneGetsOn`).

The part of `KeyProofs` about `KeyAuthorization` (from `GrantsAssumption`) proves `GrantsTypeCorrect`,
`OnlyAllowedStayOpen` (`OnlyAllowedAreGranted`) and `AllowedAreOpen`
(`AllowedAreGranted`). `GrantsInv` has to say what the shared cache is worth: it
holds no key that is not enabled, unless a request is about to reset it or the
server hangs (`CacheIsFresh`, `BlockedIsHung`); then a refresh that is alone has
disabled what is not allowed and enabled, or handed to a goroutine, what is
(`LoneGetsOn`, `ExactIsDone`).

The part of `PlatformProofs` about the base-operator (from `BaseAssumption`) proves
`BaseTypeCorrect`, `DeletionIsComplete` (`NothingLeftOfProduct`) and `DeletedWereLost`
(`OnlyLostProductsAreDeleted`), for any groups, page size and changes. `ClusterInv`
follows a product from its finalizer to its release; `ListingInv` says that pages
taken from a list that did not change together cover its beginning up to the
current page, which is arithmetic on the page boundaries.

`PlatformProofs` then proves of the platform, from the assumptions of the four parts:

  - `TypeCorrect`, and `PartsKeepTheirPromises`: the safety properties of the four
    parts hold in the composition, by the conjunction of their inductive invariants
    (`PlatformInv`), as a step of the platform is a step of one part and leaves the
    variables of the others alone (`StepsAreOfParts`).

Every invariant and action property of a passing run is proved. Only model-checked:

  - liveness (`ComesToRest`, the mailbox's fairness, `EventuallyDeployed`,
    `EventuallySynced`, `EventuallyDeleted`, `ServedInArgo`, `NewestKeyArrives`,
    `DeletionEnds`, `ProductsFollowGitlab`), which needs ENABLED and is out of the
    proof system's reach.

## 5. Plan

1. `NautesQueue`, `CoalescingMailbox`, proofs. Done.
2. `RuntimeCluster`, `DeploymentRuntime`, `DeploymentRuntimeProofs`. Done.
3. `EventListener`, `PipelineRuntime`, `PipelineRuntimeProofs`,
   `PipelineRuntimeDeletionProofs`. Done. The composition of both controllers that
   was planned is not needed: they share no cluster.
4. `ClusterOperator`, `ClusterOperatorProofs`. Done.
5. `ProductRepository`, `ProductRepositoryProofs`. Done.
6. `ArgoOperator`, `CodeRepoKeys`, `KeyAuthorization`, `BaseOperator`, `Platform`
   and the proofs of the four. Done.

The runs are kept to about a dozen, each for one question; a composition
replaces the runs of its parts where it subsumes them.

## 6. Not modelled

`PROJECT.json` lists every component with its status, and under `hazards` what
can go wrong in parts that have no model yet. Left out:

  - the base-operator's cluster controller, which fills a status with product IDs
    once an hour (and checks the deletion timestamp of the first product listed,
    `cluster_controller.go:309`), the finalizer of the ProductProvider and the Argo
    CD project all products share;
  - in the runtime-operator: the role an account is given before the cache names
    the account (`deploymentRuntime.go:190`: a deployment that fails in between and
    is then deleted leaves the role), the package variable both
    controllers write a role binding's subjects to (`hnc.go:214`), and a deletion
    by `CleanUp` of a repository another product has just taken into use
    (`argocd.go:112`);
  - in the api-server: the ignore list, which all requests share
    (`nodestree.go:238`), the last node tree as far as requests for *different*
    products share it (`nodestree.go:267`; those for one product do so in
    `KeyAuthorization`), clone directories named
    by the second (`git.go:52`), and the kubeconfig that stays in the vault when the
    push fails (`cluster.go:136`; the cluster model has it, the product repository
    has no secrets);
  - the api-server's services and clients, generated code, configuration and
    logging: they convert and pass on, and keep no state.

Out of reach of the proof system: liveness, and what a recursive definition
computes for every input.
