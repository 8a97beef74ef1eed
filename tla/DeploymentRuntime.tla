------------------------- MODULE DeploymentRuntime -------------------------
(***************************************************************************)
(* The deployment runtime controller of app/runtime-operator: users create, *)
(* edit and delete DeploymentRuntime objects of one product; the controller *)
(* reconciles them one at a time (one worker), every call to a component a  *)
(* step of its own.  Between two steps an object may be edited or deleted,  *)
(* a call may fail before or after it took effect, and the operator may     *)
(* crash.                                                                  *)
(*                                                                         *)
(* run is the reconcile in progress: what was read of the object, the cache *)
(* of the last deployment (old), the cache to be saved (new) and the copy   *)
(* of the usage record that is written back at the end.                     *)
(***************************************************************************)
EXTENDS RuntimeCluster

CONSTANTS Specs,       \* specs users write: spaces, account, repository
          MaxEdits,    \* bound of the model: creations, edits and deletions
          MaxFaults,   \* bound of the model: failures and crashes
          UsersWait,       \* whether users change a runtime only when its last
                           \* change is deployed
          UsageWritesFail  \* whether writing the usage record may fail

NoAccount == "no account"
NoName == "no runtime"

ASSUME SpecsAssumption ==
  /\ NoAccount \notin Accounts
  /\ NoName \notin Names
  /\ Specs \subseteq [spaces : (SUBSET Spaces) \ {{}}, account : Accounts, repo : Repos]
  /\ MaxEdits \in Nat
  /\ MaxFaults \in Nat
  /\ UsageWritesFail \in BOOLEAN

VARIABLES
  runtimes,  \* the objects in the api server
  run,       \* the reconcile in progress
  recorded,  \* history: runtimes whose last write of the usage record succeeded
  edits,     \* edits so far
  faults     \* faults left

vars == <<clusterVars, runtimes, run, recorded, edits, faults>>

NoSpec == [spaces |-> {}, account |-> NoAccount, repo |-> "no repo"]

\* DeploymentRuntimeSyncHistory, the cache in the status of an object.
NoCache == [account |-> NoAccount, spaces |-> {}, perms |-> {}]
Cache == [account : Accounts \cup {NoAccount}, spaces : SUBSET Spaces, perms : SUBSET Repos]

\* applied (history): the spec of the last deployment that succeeded and whose
\* success was saved in the status.
NoRuntime == [phase |-> "none", finalizer |-> FALSE, spec |-> NoSpec,
              cache |-> NoCache, applied |-> NoSpec]
Runtime == [phase : {"none", "live", "deleting"}, finalizer : BOOLEAN,
            spec : Specs \cup {NoSpec}, cache : Cache, applied : Specs \cup {NoSpec}]

PC == {"idle", "addFinalizer", "getUsage", "createProduct", "createProject", "addProductUser",
       "createSpaces", "revokeOld", "dropUsers", "deleteRole", "deleteAccount", "leftAccount",
       "createAccount", "addUsers", "createRole", "grant", "revoke", "deleteSpaces",
       "createApp", "deleteApp", "deleteProductUser", "deleteProduct", "deleteProject",
       "saveUsage", "saveStatus", "removeFinalizer"}

Idle == [pc |-> "idle", op |-> "none", rt |-> NoName, spec |-> NoSpec, old |-> NoCache,
         new |-> NoCache, usage |-> EmptyUsage(FALSE), todo |-> {}, failed |-> FALSE, stale |-> FALSE]

TypeOK ==
  /\ ClusterTypeOK
  /\ runtimes \in [Names -> Runtime]
  /\ run.pc \in PC /\ run.op \in {"none", "deploy", "delete"}
  /\ run.rt \in Names \cup {NoName}
  /\ run.spec \in Specs \cup {NoSpec}
  /\ run.old \in Cache /\ run.new \in Cache
  /\ run.usage \in Usage
  /\ run.todo \subseteq Spaces \cup Repos
  /\ run.failed \in BOOLEAN /\ run.stale \in BOOLEAN
  /\ run.pc = "idle" <=> run.rt = NoName
  /\ recorded \subseteq Names
  /\ edits \in 0..MaxEdits /\ faults \in 0..MaxFaults

Init ==
  /\ ClusterInit
  /\ runtimes = [r \in Names |-> NoRuntime]
  /\ run = Idle
  /\ recorded = {}
  /\ edits = 0
  /\ faults = MaxFaults

-----------------------------------------------------------------------------
(* Users.  Every change of the object the controller is working on makes    *)
(* the controller's copy stale: its next update of the object is refused.   *)

Touch(r) == run' = [run EXCEPT !.stale = @ \/ run.rt = r]

\* The spec of r was deployed with success and has not changed since.
Settled(r) == runtimes[r].phase = "live" /\ runtimes[r].applied = runtimes[r].spec

MayChange(r) == UsersWait => Settled(r) /\ run.rt # r

Edited == /\ edits < MaxEdits
          /\ edits' = edits + 1
          /\ UNCHANGED <<clusterVars, recorded, faults>>

CreateRuntime(r, spec) ==
  /\ runtimes[r].phase = "none"
  /\ runtimes' = [runtimes EXCEPT ![r] = [NoRuntime EXCEPT !.phase = "live", !.spec = spec]]
  /\ Touch(r)
  /\ Edited

EditRuntime(r, spec) ==
  /\ runtimes[r].phase = "live" /\ runtimes[r].spec # spec /\ MayChange(r)
  /\ runtimes' = [runtimes EXCEPT ![r].spec = spec]
  /\ Touch(r)
  /\ Edited

\* An object with a finalizer stays until the controller takes it off.
DeleteRuntime(r) ==
  /\ runtimes[r].phase = "live" /\ MayChange(r)
  /\ runtimes' = [runtimes EXCEPT ![r] = IF @.finalizer THEN [@ EXCEPT !.phase = "deleting"]
                                         ELSE NoRuntime]
  /\ Touch(r)
  /\ Edited

-----------------------------------------------------------------------------
(* The course of a reconcile.                                              *)

At(pc) == run.pc = pc
Deploying == run.op = "deploy"
Deleting  == run.op = "delete"

\* The reconcile goes on at pc, with what is left to do there.
GoTo(pc, todo) == [run EXCEPT !.pc = pc, !.todo = todo]
Failed == [run EXCEPT !.pc = "saveUsage", !.todo = {}, !.failed = TRUE]

Fault == faults > 0 /\ faults' = faults - 1

\* A call took effect; its answer may be lost on the way.
Answer(next) == \/ run' = next /\ UNCHANGED faults
                \/ run' = Failed /\ Fault

\* A component refuses the call.
Refuse == run' = Failed /\ UNCHANGED <<clusterVars, runtimes, recorded, edits, faults>>

\* A component panics.  The deferred UpdateProductUsage runs while the operator
\* goes down, and the object keeps the cache it has.
Panic == /\ run' = [Failed EXCEPT !.new = run.old]
         /\ UNCHANGED <<clusterVars, runtimes, recorded, edits, faults>>

Calls == PC \ {"idle", "addFinalizer", "getUsage", "saveUsage", "saveStatus", "removeFinalizer"}

\* A call to a component fails without an effect.
CallFails ==
  /\ run.pc \in Calls
  /\ run' = Failed /\ Fault
  /\ UNCHANGED <<clusterVars, runtimes, recorded, edits>>

Crash ==
  /\ run.pc # "idle"
  /\ run' = Idle /\ Fault
  /\ UNCHANGED <<clusterVars, runtimes, recorded, edits>>

\* Reconcile reads the object; a deleted one without finalizer is left alone.
Reconcile(r) ==
  /\ At("idle")
  /\ runtimes[r].phase # "none"
  /\ run' = [Idle EXCEPT !.rt = r,
                         !.pc = IF runtimes[r].finalizer THEN "getUsage" ELSE "addFinalizer",
                         !.op = IF runtimes[r].phase = "live" THEN "deploy" ELSE "delete",
                         !.spec = runtimes[r].spec,
                         !.old = runtimes[r].cache,
                         !.new = runtimes[r].cache]
  /\ runtimes' = [runtimes EXCEPT ![r].applied = IF @ = runtimes[r].spec THEN @ ELSE NoSpec]
  /\ UNCHANGED <<clusterVars, recorded, edits, faults>>

\* An update of the object is refused when it is stale, and may fail.
AddFinalizer ==
  /\ At("addFinalizer")
  /\ \/ /\ ~run.stale
        /\ runtimes' = [runtimes EXCEPT ![run.rt].finalizer = TRUE]
        /\ run' = GoTo("getUsage", {})
        /\ UNCHANGED faults
     \/ /\ run.stale
        /\ run' = Idle
        /\ UNCHANGED <<runtimes, faults>>
     \/ /\ run' = Idle /\ Fault
        /\ UNCHANGED runtimes
  /\ UNCHANGED <<clusterVars, recorded, edits>>

\* GetProductUsage.  Without a ConfigMap a deletion has nothing to clean up.
GetUsage ==
  /\ At("getUsage")
  /\ \/ /\ Deploying
        /\ run' = [run EXCEPT !.pc = "createProduct",
                              !.usage = [usage EXCEPT !.runtimes = @ \cup {run.rt}]]
        /\ UNCHANGED faults
     \/ /\ Deleting /\ ~usage.known
        /\ run' = GoTo("removeFinalizer", {})
        /\ UNCHANGED faults
     \/ /\ Deleting /\ usage.known
        /\ run' = [run EXCEPT !.pc = "deleteApp",
                              !.usage = [usage EXCEPT !.runtimes = @ \ {run.rt},
                                                      !.space[run.rt] = {}]]
        /\ UNCHANGED faults
     \/ /\ run' = [run EXCEPT !.pc = "saveStatus", !.failed = TRUE]
        /\ Fault
  /\ UNCHANGED <<clusterVars, runtimes, recorded, edits>>

-----------------------------------------------------------------------------
(* CreateProduct and the spaces.                                           *)

CreateProduct ==
  /\ At("createProduct")
  /\ IF CanCreateNamespace(Product)
     THEN /\ CreateNamespace(Product)
          /\ Answer(GoTo("createProject", {}))
          /\ UNCHANGED <<users, accounts, project, apps, roles, usage, runtimes, recorded, edits>>
     ELSE Refuse

CreateProject ==
  /\ At("createProject")
  /\ project' = IF project = "none" THEN "created" ELSE project
  /\ Answer(GoTo("addProductUser", {}))
  /\ UNCHANGED <<ns, users, accounts, apps, roles, usage, runtimes, recorded, edits>>

AddProductUser ==
  /\ At("addProductUser")
  /\ project' = "granted"
  /\ Answer(GoTo("createSpaces", run.spec.spaces))
  /\ UNCHANGED <<ns, users, accounts, apps, roles, usage, runtimes, recorded, edits>>

CreateSpace(s) ==
  /\ At("createSpaces") /\ s \in run.todo
  /\ IF CanCreateNamespace(s)
     THEN /\ CreateNamespace(s)
          /\ Answer(GoTo("createSpaces", run.todo \ {s}))
          /\ UNCHANGED <<users, accounts, project, apps, roles, usage, runtimes, recorded, edits>>
     ELSE Refuse

\* Mutant: the runtime's own use of the account is not excluded.
OldPermsInclusive == run.old.perms \ PermsUsed(run.usage, run.old.account, {})

\* revokeAccountPermissionsInSecretManagement: the permissions of the last
\* deployment that no other runtime with the account is recorded for.
OldPerms == run.old.perms \ PermsUsed(run.usage, run.old.account, {run.rt})

\* All spaces exist: they are recorded, and the account is compared with that
\* of the last deployment.
SpacesCreated ==
  /\ At("createSpaces") /\ run.todo = {}
  /\ LET moved == run.old.account \notin {NoAccount, run.spec.account}
     IN  run' = [run EXCEPT !.usage.space[run.rt] = run.spec.spaces,
                            !.new.spaces = @ \cup run.spec.spaces,
                            !.pc = IF moved THEN "revokeOld" ELSE "createAccount",
                            !.todo = IF moved THEN OldPerms ELSE {}]
  /\ UNCHANGED <<clusterVars, runtimes, recorded, edits, faults>>

-----------------------------------------------------------------------------
(* Leaving the account of the last deployment, when a deployment changes    *)
(* account and when the runtime is deleted.                                *)

RevokeOld(p) ==
  /\ At("revokeOld") /\ p \in run.todo
  /\ RevokePermission(run.old.account, p)
  /\ Answer(GoTo("revokeOld", run.todo \ {p}))
  /\ UNCHANGED <<ns, users, accounts, project, apps, usage, runtimes, recorded, edits>>

\* The spaces of the last deployment that no other runtime uses with the
\* account (deleteSpacesUser).
OldSpaces == run.old.spaces \ AccountSpacesUsed(run.usage, run.old.account, {run.rt})

\* The account goes when no other runtime is recorded for it.
LeaveAccount ==
  GoTo(IF AccountIsRemovable(run.usage, run.old.account, run.rt) THEN "deleteRole" ELSE "leftAccount", {})

OldRevoked ==
  /\ At("revokeOld") /\ run.todo = {}
  /\ run' = IF Deploying THEN GoTo("dropUsers", OldSpaces) ELSE LeaveAccount
  /\ UNCHANGED <<clusterVars, runtimes, recorded, edits, faults>>

DropUser(s) ==
  /\ At("dropUsers") /\ s \in run.todo
  /\ IF CanDeleteSpaceUser(s)
     THEN /\ DeleteSpaceUser(s, run.old.account)
          /\ Answer(GoTo("dropUsers", run.todo \ {s}))
          /\ UNCHANGED <<ns, accounts, project, apps, roles, usage, runtimes, recorded, edits>>
     ELSE IF LacksUserList(s) THEN Panic ELSE Refuse

UsersDropped ==
  /\ At("dropUsers") /\ run.todo = {}
  /\ run' = LeaveAccount
  /\ UNCHANGED <<clusterVars, runtimes, recorded, edits, faults>>

DeleteProductRole ==
  /\ At("deleteRole")
  /\ DeleteRole(run.old.account)
  /\ Answer(GoTo("deleteAccount", {}))
  /\ UNCHANGED <<ns, users, accounts, project, apps, usage, runtimes, recorded, edits>>

DeleteProductAccount ==
  /\ At("deleteAccount")
  /\ DeleteAccount(run.old.account)
  /\ Answer(GoTo("leftAccount", {}))
  /\ UNCHANGED <<ns, project, apps, roles, usage, runtimes, recorded, edits>>

\* Mutant: only the runtime's own use of a space is looked at.
OutdatedSpacesOwn(u, except) == run.old.spaces \ u.space[run.rt]

\* Spaces of the last deployment no runtime is recorded for.
OutdatedSpaces(u, except) == run.old.spaces \ SpacesUsed(u, except)

AccountLeft ==
  /\ At("leftAccount")
  /\ LET u == ForgetAccount(run.usage, run.old.account, run.rt)
     IN  run' = [run EXCEPT !.usage = u,
                            !.pc = IF Deploying THEN "createAccount" ELSE "deleteSpaces",
                            !.todo = IF Deploying THEN {} ELSE OutdatedSpaces(u, {run.rt})]
  /\ UNCHANGED <<clusterVars, runtimes, recorded, edits, faults>>

-----------------------------------------------------------------------------
(* The account of a deployment, its permissions and the application.        *)

CreateProductAccount ==
  /\ At("createAccount")
  /\ IF CanCreateAccount
     THEN /\ CreateAccount(run.spec.account)
          /\ Answer(GoTo("addUsers", run.spec.spaces))
          /\ UNCHANGED <<ns, users, project, apps, roles, usage, runtimes, recorded, edits>>
     ELSE Refuse

AddUser(s) ==
  /\ At("addUsers") /\ s \in run.todo
  /\ IF Operable(s)
     THEN /\ AddSpaceUser(s, run.spec.account)
          /\ Answer(GoTo("addUsers", run.todo \ {s}))
          /\ UNCHANGED <<ns, accounts, project, apps, roles, usage, runtimes, recorded, edits>>
     ELSE Refuse

UsersAdded ==
  /\ At("addUsers") /\ run.todo = {}
  /\ run' = [run EXCEPT !.pc = "createRole",
                        !.usage = UpdateSpaces(@, run.spec.account, run.rt, run.spec.spaces)]
  /\ UNCHANGED <<clusterVars, runtimes, recorded, edits, faults>>

CreateAccountRole ==
  /\ At("createRole")
  /\ IF HasAccount(run.spec.account)
     THEN /\ CreateRole(run.spec.account)
          /\ Answer(GoTo("grant", {}))
          /\ UNCHANGED <<ns, users, accounts, project, apps, usage, runtimes, recorded, edits>>
     ELSE Refuse

\* syncAccountPermissionsInSecretManagement: grant what the spec asks for,
\* record it, then revoke what nobody with the account is recorded for.
Grant ==
  /\ At("grant")
  /\ IF CanGrant(run.spec.account)
     THEN /\ GrantPermission(run.spec.account, run.spec.repo)
          /\ LET u == UpdatePermissions(run.usage, run.spec.account, run.rt, {run.spec.repo})
             IN  Answer([run EXCEPT !.pc = "revoke", !.usage = u,
                                    !.todo = run.old.perms \ PermsUsed(u, run.spec.account, {})])
          /\ UNCHANGED <<ns, users, accounts, project, apps, usage, runtimes, recorded, edits>>
     ELSE Refuse

Revoke(p) ==
  /\ At("revoke") /\ p \in run.todo
  /\ RevokePermission(run.spec.account, p)
  /\ Answer(GoTo("revoke", run.todo \ {p}))
  /\ UNCHANGED <<ns, users, accounts, project, apps, usage, runtimes, recorded, edits>>

PermissionsSynced ==
  /\ At("revoke") /\ run.todo = {}
  /\ run' = [run EXCEPT !.pc = "deleteSpaces",
                        !.new.perms = {run.spec.repo},
                        !.new.account = run.spec.account,
                        !.todo = OutdatedSpaces(run.usage, {})]
  /\ UNCHANGED <<clusterVars, runtimes, recorded, edits, faults>>

\* Only a deployment takes the deleted space off the cache.
DeleteSpace(s) ==
  /\ At("deleteSpaces") /\ s \in run.todo
  /\ DeleteNamespace(s)
  /\ Answer([run EXCEPT !.todo = @ \ {s},
                        !.new.spaces = IF Deploying THEN @ \ {s} ELSE @])
  /\ UNCHANGED <<users, accounts, project, apps, roles, usage, runtimes, recorded, edits>>

\* The last runtime of the product takes the product with it.
SpacesDeleted ==
  /\ At("deleteSpaces") /\ run.todo = {}
  /\ run' = GoTo(CASE Deploying -> "createApp"
                   [] Deleting /\ run.usage.runtimes = {} -> "deleteProductUser"
                   [] OTHER -> "saveUsage", {})
  /\ UNCHANGED <<clusterVars, runtimes, recorded, edits, faults>>

CreateApp ==
  /\ At("createApp")
  /\ apps' = [apps EXCEPT ![run.rt] = run.spec.spaces]
  /\ Answer(GoTo("saveUsage", {}))
  /\ UNCHANGED <<ns, users, accounts, project, roles, usage, runtimes, recorded, edits>>

-----------------------------------------------------------------------------
(* What only a deletion does.                                              *)

DeleteApp ==
  /\ At("deleteApp")
  /\ apps' = [apps EXCEPT ![run.rt] = {}]
  /\ Answer(IF run.old.account = NoAccount
            THEN GoTo("deleteSpaces", OutdatedSpaces(run.usage, {run.rt}))
            ELSE GoTo("revokeOld", OldPerms))
  /\ UNCHANGED <<ns, users, accounts, project, roles, usage, runtimes, recorded, edits>>

DeleteProductUser ==
  /\ At("deleteProductUser")
  /\ project' = IF project = "granted" THEN "created" ELSE project
  /\ Answer(GoTo("deleteProduct", {}))
  /\ UNCHANGED <<ns, users, accounts, apps, roles, usage, runtimes, recorded, edits>>

\* "space is found, delete failed": a space nobody deleted keeps the product.
DeleteProduct ==
  /\ At("deleteProduct")
  /\ IF CanDeleteProduct
     THEN /\ DeleteNamespace(Product)
          /\ Answer(GoTo("deleteProject", {}))
          /\ UNCHANGED <<users, accounts, project, apps, roles, usage, runtimes, recorded, edits>>
     ELSE Refuse

DeleteProject ==
  /\ At("deleteProject")
  /\ project' = "none"
  /\ Answer(GoTo("saveUsage", {}))
  /\ UNCHANGED <<ns, users, accounts, apps, roles, usage, runtimes, recorded, edits>>

-----------------------------------------------------------------------------
(* The end of a reconcile.                                                 *)

\* The deferred UpdateProductUsage, whatever came of the reconcile; its failure
\* is logged and otherwise ignored.
SaveUsage ==
  /\ At("saveUsage")
  /\ \/ /\ UpdateProductUsage(run.usage)
        /\ recorded' = IF run.failed THEN recorded ELSE recorded \cup {run.rt}
        /\ UNCHANGED faults
     \/ /\ UsageWritesFail /\ Fault
        /\ recorded' = recorded \ {run.rt}
        /\ UNCHANGED usage
  /\ run' = GoTo(IF Deleting /\ ~run.failed THEN "removeFinalizer" ELSE "saveStatus", {})
  /\ UNCHANGED <<ns, users, accounts, project, apps, roles, runtimes, edits>>

SaveStatus ==
  /\ At("saveStatus")
  /\ run' = Idle
  /\ \/ /\ ~run.stale
        /\ runtimes' = [runtimes EXCEPT ![run.rt].cache = run.new,
                           ![run.rt].applied = IF Deploying /\ ~run.failed THEN run.spec ELSE @]
        /\ UNCHANGED faults
     \/ run.stale /\ UNCHANGED <<runtimes, faults>>
     \/ Fault /\ UNCHANGED runtimes
  /\ UNCHANGED <<clusterVars, recorded, edits>>

\* Mutant: the reconcile ends without letting go of its runtime.
RemoveFinalizerHalf ==
  /\ At("removeFinalizer")
  /\ run' = GoTo("idle", {})
  /\ runtimes' = [runtimes EXCEPT ![run.rt] = NoRuntime]
  /\ UNCHANGED <<clusterVars, recorded, edits, faults>>

RemoveFinalizer ==
  /\ At("removeFinalizer")
  /\ run' = Idle
  /\ \/ ~run.stale /\ runtimes' = [runtimes EXCEPT ![run.rt] = NoRuntime] /\ UNCHANGED faults
     \/ run.stale /\ UNCHANGED <<runtimes, faults>>
     \/ Fault /\ UNCHANGED runtimes
  /\ UNCHANGED <<clusterVars, recorded, edits>>

-----------------------------------------------------------------------------
User == \E r \in Names :
  \/ \E spec \in Specs : CreateRuntime(r, spec) \/ EditRuntime(r, spec)
  \/ DeleteRuntime(r)

\* The steps of a reconcile in progress, other than a failure or a crash.
Proceed ==
  \/ AddFinalizer \/ GetUsage
  \/ CreateProduct \/ CreateProject \/ AddProductUser
  \/ \E s \in Spaces : CreateSpace(s) \/ DropUser(s) \/ AddUser(s) \/ DeleteSpace(s)
  \/ \E p \in Repos : RevokeOld(p) \/ Revoke(p)
  \/ SpacesCreated \/ OldRevoked \/ UsersDropped \/ AccountLeft \/ UsersAdded
  \/ PermissionsSynced \/ SpacesDeleted
  \/ DeleteProductRole \/ DeleteProductAccount
  \/ CreateProductAccount \/ CreateAccountRole \/ Grant \/ CreateApp
  \/ DeleteApp \/ DeleteProductUser \/ DeleteProduct \/ DeleteProject
  \/ SaveUsage \/ SaveStatus \/ RemoveFinalizer

Gone(s) == NamespaceGone(s) /\ UNCHANGED <<runtimes, run, recorded, edits, faults>>

Next ==
  \/ User
  \/ \E r \in Names : Reconcile(r)
  \/ Proceed \/ CallFails \/ Crash
  \/ \E s \in Spaces \cup {Product} : Gone(s)

\* The worker goroutine goes on with what it began.  Every object comes up for
\* a reconcile again and again: a failed one is retried with a back-off, a
\* successful one after reconcileFrequency, and the work queue is fair.
Fairness ==
  /\ WF_vars(Proceed)
  /\ \A r \in Names : SF_vars(Reconcile(r))
  /\ \A s \in Spaces \cup {Product} : WF_vars(Gone(s))

Spec == Init /\ [][Next]_vars /\ Fairness

-----------------------------------------------------------------------------
(* Properties.                                                             *)

\* Everything the deployment of r consists of is there.
Deployed(r) ==
  LET spec == runtimes[r].spec
      a    == spec.account
  IN  /\ Operable(Product) /\ project = "granted"
      /\ \A s \in spec.spaces : Operable(s) /\ a \in users[s]
      /\ a \in accounts
      /\ roles[a].exists /\ spec.repo \in roles[a].perms /\ spec.spaces \subseteq roles[a].spaces
      /\ apps[r] = spec.spaces

\* What a runtime was deployed to stays until the runtime changes, whatever
\* the other runtimes of the product do that share its spaces, its account and
\* its permissions: they change, fail half-way, are retried, are deleted.
InUseIsKept == \A r \in recorded : Settled(r) => Deployed(r)

\* No reconcile is in progress and none of the runtimes needs one.
Quiet == run.pc = "idle" /\ \A r \in Names : Settled(r) \/ runtimes[r].phase = "none"

LiveSpecs == {runtimes[r].spec : r \in {q \in Names : runtimes[q].phase = "live"}}

\* When users wait for a change to be deployed before the next one, deletions
\* and changes leave nothing behind, in spite of failures and crashes: every
\* space, account, permission and application left is one a live runtime asks
\* for, and the product goes with its last runtime.
NothingLeftBehind ==
  Quiet =>
    /\ \A s \in Spaces : Operable(s) => \E spec \in LiveSpecs : s \in spec.spaces
    /\ \A a \in Accounts : HasAccount(a) \/ roles[a].exists
                            => \E spec \in LiveSpecs : spec.account = a
    /\ \A a \in Accounts : \A p \in roles[a].perms :
          \E spec \in LiveSpecs : spec.account = a /\ spec.repo = p
    /\ Operable(Product) \/ project # "none" => LiveSpecs # {}
    /\ \A r \in Names : apps[r] # {} => runtimes[r].phase = "live"

\* "The cache will be written to the runtime regardless of success" (Deploy):
\* after a reconcile, the cache of some runtime has every space of the product,
\* which is how deleting a runtime or a space finds them.
SpacesAreRemembered ==
  run.pc = "idle" =>
    \A s \in Spaces : Operable(s) => \E r \in Names : s \in runtimes[r].cache.spaces

\* Taking the account of the last deployment from the spaces it no longer needs
\* panics at one that a reconcile created and no reconcile ever gave a user: the
\* spec changed once more, now with another account, after a reconcile that
\* failed between the two.
Panics(r) ==
  LET cache == runtimes[r].cache
  IN  /\ cache.account \notin {NoAccount, runtimes[r].spec.account}
      /\ \E s \in cache.spaces \ AccountSpacesUsed(usage, cache.account, {r}) :
            LacksUserList(s)

\* A live runtime is deployed in the end, however the changes of users, the
\* deletion of namespaces, failures and crashes interleave.  The exception is
\* one whose reconciles panic on the way, each again and each before the users
\* of its spaces are added (hnc.go:418).
EventuallyDeployed ==
  \A r \in Names : []<>(runtimes[r].phase = "live" => Settled(r) \/ Panics(r))

\* A deleted runtime goes away in the end.
EventuallyDeleted ==
  \A r \in Names : []<>(runtimes[r].phase # "deleting")
=============================================================================
