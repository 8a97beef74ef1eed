-------------------------- MODULE PipelineRuntime --------------------------
(***************************************************************************)
(* The project pipeline runtime controller of app/runtime-operator: users   *)
(* create, edit and delete ProjectPipelineRuntime objects of one product on *)
(* one cluster; the controller reconciles them one at a time, every call to *)
(* a component a step of its own.  Between two steps an object may change,  *)
(* a call may fail before or after it took effect, and the operator may     *)
(* crash.                                                                  *)
(*                                                                         *)
(* A runtime has a namespace of its own: the validation of an object        *)
(* refuses one that another runtime's spec names.  Accounts may be shared,  *)
(* and so is the account that listens to events (EventListener).            *)
(***************************************************************************)
EXTENDS EventListener

CONSTANTS SpecsOf,   \* specs users write, for each runtime
          MaxEdits,  \* bound of the model: creations, edits and deletions
          MaxFaults  \* bound of the model: failures, crashes, slow requests

NoAccount == "no account"
NoName == "no runtime"
NoSpace == "no space"
NoRepo == "no repo"

\* source: the code repository of the pipelines; its deploy keys are one
\* secret here.  tokens: the code repositories listened to, each an access
\* token.  Both are members of Repos, which stands for the secrets.
Specs == UNION {SpecsOf[r] : r \in Names}

ASSUME SpecsAssumption ==
  /\ NoAccount \notin Accounts /\ NoName \notin Names
  /\ NoSpace \notin Spaces /\ NoRepo \notin Repos
  /\ SpecsOf \in [Names -> SUBSET [space : Spaces, account : Accounts, source : Repos,
                                  tokens : SUBSET Repos, calendar : BOOLEAN,
                                  triggers : 0..MaxTriggers, app : BOOLEAN]]
  /\ \A spec, other \in Specs : spec.source \notin other.tokens
  /\ MaxEdits \in Nat /\ MaxFaults \in Nat

VARIABLES
  hooks,      \* the repository whose key the hook secret of a space holds
  codeRepos,  \* code repositories that still exist
  runtimes,   \* the objects in the api server
  late,       \* a request that was validated and is not yet written
  run,        \* the reconcile in progress
  recorded,   \* history: runtimes whose last write of the usage record succeeded
  abandoned,  \* history: runtimes deleted while they asked for an application,
              \* until it is deployed or deleted again
  left,       \* history: spaces a runtime was moved out of, until they are
              \* deleted and no cache names them
  calm,       \* history: users only changed something when all was quiet, and no
              \* write of the usage record was lost that took something off
  edits,      \* edits so far
  faults      \* faults left

objectVars == <<codeRepos, runtimes, late, left, calm, edits>>
history == <<recorded, abandoned>>
vars == <<clusterVars, listenerVars, hooks, objectVars, run, history, faults>>

NoSpec == [space |-> NoSpace, account |-> NoAccount, source |-> NoRepo, tokens |-> {},
           calendar |-> FALSE, triggers |-> 0, app |-> FALSE]

\* PipelineRuntimeSyncHistory.  id: UniqueID was recorded; app: App was.
NoCache == [account |-> NoAccount, space |-> NoSpace, perms |-> {}, hook |-> NoRepo,
            id |-> FALSE, app |-> FALSE]
Cache == [account : Accounts \cup {NoAccount}, space : Spaces \cup {NoSpace}, perms : SUBSET Repos,
          hook : Repos \cup {NoRepo}, id : BOOLEAN, app : BOOLEAN]

\* applied (history): the spec of the last deployment that succeeded and whose
\* success was saved.
NoRuntime == [phase |-> "none", finalizer |-> FALSE, spec |-> NoSpec,
              cache |-> NoCache, applied |-> NoSpec]
Runtime == [phase : {"none", "live", "deleting"}, finalizer : BOOLEAN,
            spec : Specs \cup {NoSpec}, cache : Cache, applied : Specs \cup {NoSpec}]

NoRequest == [rt |-> NoName, spec |-> NoSpec]

PC == {"idle", "addFinalizer", "validate", "getUsage", "createProduct", "createProject",
       "addProductUser", "revokeOld", "dropUser", "deleteRole", "deleteAccount", "createSpace",
       "createAccount", "addUser", "createRole", "grant", "revoke", "listen", "forgetRepos",
       "createEntry", "createSource", "createCalendar", "unlisten", "unlistenRepos",
       "deleteEntry", "deleteSource", "createHook", "removeHook", "createSensors",
       "surplusSensors", "deleteSensors", "app", "deleteSpace", "deleteProductUser",
       "deleteProduct", "deleteProject", "saveUsage", "saveStatus", "removeFinalizer"}

Idle == [pc |-> "idle", op |-> "none", rt |-> NoName, spec |-> NoSpec, old |-> NoCache,
         new |-> NoCache, usage |-> EmptyUsage(FALSE), repos |-> {}, todo |-> {}, kinds |-> {},
         surplus |-> {}, failed |-> FALSE, stale |-> FALSE]

TypeOK ==
  /\ ClusterTypeOK /\ ListenerTypeOK
  /\ hooks \in [Spaces -> Repos \cup {NoRepo}]
  /\ codeRepos \subseteq Repos
  /\ runtimes \in [Names -> Runtime]
  /\ late \in [rt : Names, spec : Specs] \cup {NoRequest}
  /\ run.pc \in PC /\ run.op \in {"none", "deploy", "delete"}
  /\ run.rt \in Names \cup {NoName}
  /\ run.spec \in Specs \cup {NoSpec}
  /\ run.old \in Cache /\ run.new \in Cache
  /\ run.usage \in Usage
  /\ run.repos \subseteq Repos /\ run.todo \subseteq Repos /\ run.kinds \subseteq Kinds
  /\ run.surplus \subseteq 0..MaxTriggers - 1
  /\ run.failed \in BOOLEAN /\ run.stale \in BOOLEAN
  /\ run.pc = "idle" <=> run.rt = NoName
  /\ recorded \subseteq Names /\ abandoned \subseteq Names /\ left \subseteq Spaces /\ calm \in BOOLEAN
  /\ edits \in 0..MaxEdits /\ faults \in 0..MaxFaults

Init ==
  /\ ClusterInit /\ ListenerInit
  /\ hooks = [s \in Spaces |-> NoRepo]
  /\ codeRepos = Repos
  /\ runtimes = [r \in Names |-> NoRuntime]
  /\ late = NoRequest
  /\ run = Idle
  /\ recorded = {} /\ abandoned = {} /\ left = {} /\ calm = TRUE
  /\ edits = 0 /\ faults = MaxFaults

-----------------------------------------------------------------------------
(* Users and the admission webhook.                                        *)

Live(r) == runtimes[r].phase = "live"

\* The spec of r was deployed with success and has not changed since.
Settled(r) == Live(r) /\ runtimes[r].applied = runtimes[r].spec

\* No reconcile is in progress, none of the runtimes needs one, and the usage
\* record has those that are deployed.
Quiet == run.pc = "idle" /\ late = NoRequest
         /\ \A r \in Names : runtimes[r].phase = "none" \/ (Settled(r) /\ r \in recorded)

\* Validate: the namespace is one the spec of another runtime names, be it
\* deployed there or not, also of one that is being deleted.
Conflicts(r, spec) ==
  \E q \in Names \ {r} : runtimes[q].phase # "none" /\ runtimes[q].spec.space = spec.space

\* Every change of the object the controller is working on makes the
\* controller's copy stale: its next update of the object is refused.
Touch(r) == run' = [run EXCEPT !.stale = @ \/ run.rt = r]

Edited == /\ edits < MaxEdits
          /\ edits' = edits + 1
          /\ calm' = (calm /\ Quiet)
          /\ UNCHANGED <<clusterVars, listenerVars, hooks, history>>

\* The write of a validated request: a creation, or the edit of a live object.
Write(r, spec) ==
  /\ runtimes[r].phase # "deleting"
  /\ runtimes' = [runtimes EXCEPT ![r] = IF @.phase = "none"
                                         THEN [NoRuntime EXCEPT !.phase = "live", !.spec = spec]
                                         ELSE [@ EXCEPT !.spec = spec]]
  /\ left' = IF runtimes[r].phase = "live" /\ runtimes[r].spec.space # spec.space
             THEN left \cup {runtimes[r].spec.space} ELSE left
  /\ Touch(r)

MayAsk(r, spec) ==
  /\ runtimes[r].phase # "deleting" /\ runtimes[r].spec # spec
  /\ {spec.source} \cup spec.tokens \subseteq codeRepos
  /\ ~Conflicts(r, spec)

Apply(r, spec) ==
  /\ MayAsk(r, spec)
  /\ Write(r, spec)
  /\ Edited /\ UNCHANGED <<codeRepos, late, faults>>

\* A request is validated, and written only after others have been.
Admit(r, spec) ==
  /\ late = NoRequest /\ MayAsk(r, spec)
  /\ late' = [rt |-> r, spec |-> spec]
  /\ faults > 0 /\ faults' = faults - 1
  /\ Edited /\ UNCHANGED <<codeRepos, runtimes, left, run>>

\* The object of a late request may be gone on its way by now.
WriteLate ==
  /\ late # NoRequest
  /\ late' = NoRequest
  /\ IF runtimes[late.rt].phase = "deleting"
     THEN UNCHANGED <<runtimes, left, run>>
     ELSE Write(late.rt, late.spec)
  /\ UNCHANGED <<clusterVars, listenerVars, hooks, codeRepos, history, calm, edits, faults>>

\* An object with a finalizer stays until the controller takes it off.
DeleteRuntime(r) ==
  /\ runtimes[r].phase = "live"
  /\ runtimes' = [runtimes EXCEPT ![r] = IF @.finalizer THEN [@ EXCEPT !.phase = "deleting"]
                                         ELSE NoRuntime]
  /\ Touch(r)
  /\ Edited /\ UNCHANGED <<codeRepos, late, left, faults>>

\* The webhook of code repositories refuses to delete one that a runtime has
\* its pipelines in; a repository that is listened to is not looked for.  The
\* references the api-server checks are those of live runtimes.
DeleteCodeRepo(p) ==
  /\ p \in codeRepos
  /\ \A r \in Names : runtimes[r].phase # "none" => runtimes[r].spec.source # p
  /\ \A r \in Names : runtimes[r].phase = "live" => p \notin runtimes[r].spec.tokens
  /\ late = NoRequest \/ p \notin {late.spec.source} \cup late.spec.tokens
  /\ \E r \in Names : p \in gitlab[r].repos  \* bound of the model: others do not matter
  /\ codeRepos' = codeRepos \ {p}
  /\ Edited /\ UNCHANGED <<runtimes, late, left, run, faults>>

-----------------------------------------------------------------------------
(* The course of a reconcile.                                              *)

At(pc) == run.pc = pc
Deploying == run.op = "deploy"
Deleting  == run.op = "delete"
Me == run.rt

GoTo(pc) == [run EXCEPT !.pc = pc]
Do(pc, todo) == [run EXCEPT !.pc = pc, !.todo = todo]
Failed == [run EXCEPT !.pc = "saveUsage", !.todo = {}, !.kinds = {}, !.surplus = {}, !.failed = TRUE]

Fault == faults > 0 /\ faults' = faults - 1

\* A call took effect; its answer may be lost on the way.
Answer(next) == \/ run' = next /\ UNCHANGED faults
                \/ run' = Failed /\ Fault

Refuse == run' = Failed /\ UNCHANGED <<clusterVars, listenerVars, hooks, faults>>
Goes(next) == run' = next /\ UNCHANGED <<clusterVars, listenerVars, hooks, faults>>

Calls == PC \ {"idle", "addFinalizer", "validate", "getUsage", "saveUsage", "saveStatus",
               "removeFinalizer"}

\* A call to a component fails without an effect.
CallFails ==
  /\ run.pc \in Calls
  /\ run' = Failed /\ Fault
  /\ UNCHANGED <<clusterVars, listenerVars, hooks, objectVars, history>>

Crash ==
  /\ run.pc # "idle"
  /\ run' = Idle /\ Fault
  /\ UNCHANGED <<clusterVars, listenerVars, hooks, objectVars, history>>

\* Reconcile reads the object and takes a snapshot of the resources around it.
Reconcile(r) ==
  /\ At("idle")
  /\ runtimes[r].phase # "none"
  /\ run' = [Idle EXCEPT !.rt = r,
                         !.pc = CASE ~runtimes[r].finalizer -> "addFinalizer"
                                  [] runtimes[r].finalizer /\ Live(r) -> "validate"
                                  [] OTHER -> "getUsage",
                         !.op = IF Live(r) THEN "deploy" ELSE "delete",
                         !.spec = runtimes[r].spec,
                         !.old = runtimes[r].cache,
                         !.new = runtimes[r].cache,
                         !.repos = codeRepos]
  /\ runtimes' = [runtimes EXCEPT ![r].applied = IF @ = runtimes[r].spec THEN @ ELSE NoSpec]
  /\ UNCHANGED <<clusterVars, listenerVars, hooks, codeRepos, late, left, calm, edits, history,
                 faults>>

\* An update of the object is refused when it is stale, and may fail.
AddFinalizer ==
  /\ At("addFinalizer")
  /\ \/ /\ ~run.stale
        /\ runtimes' = [runtimes EXCEPT ![Me].finalizer = TRUE]
        /\ run' = GoTo("validate")
        /\ UNCHANGED faults
     \/ /\ run.stale
        /\ run' = Idle
        /\ UNCHANGED <<runtimes, faults>>
     \/ /\ run' = Idle /\ Fault
        /\ UNCHANGED runtimes
  /\ UNCHANGED <<clusterVars, listenerVars, hooks, codeRepos, late, left, calm, edits, history>>

\* The validation of the webhook again.  When it fails, the status keeps the
\* cache and the reconcile ends.
Validate ==
  /\ At("validate")
  /\ run' = IF Conflicts(Me, run.spec) THEN Idle ELSE GoTo("getUsage")
  /\ UNCHANGED <<clusterVars, listenerVars, hooks, objectVars, history, faults>>

\* GetProductUsage.  Without a ConfigMap a deletion has nothing to clean up.  A
\* deletion begins with the event sources recorded for the unique ID in the
\* cache, none when there is no ID in it.
GetUsage ==
  /\ At("getUsage")
  /\ \/ /\ Deploying
        /\ run' = [run EXCEPT !.pc = "createProduct",
                              !.usage = [usage EXCEPT !.runtimes = @ \cup {Me}]]
        /\ UNCHANGED faults
     \/ /\ Deleting /\ ~usage.known
        /\ run' = GoTo("removeFinalizer")
        /\ UNCHANGED faults
     \/ /\ Deleting /\ usage.known
        /\ run' = [run EXCEPT !.pc = "unlisten",
                              !.usage = [usage EXCEPT !.runtimes = @ \ {Me}],
                              !.kinds = IF run.old.id THEN cached[Me] ELSE {}]
        /\ UNCHANGED faults
     \/ /\ run' = [run EXCEPT !.pc = "saveStatus", !.failed = TRUE]
        /\ Fault
  /\ UNCHANGED <<clusterVars, listenerVars, hooks, objectVars, history>>

-----------------------------------------------------------------------------
(* The product, and the account of the last deployment.                    *)

\* What the steps below leave alone.
Rest == UNCHANGED <<listenerVars, hooks, objectVars, history>>

CreateProduct ==
  /\ At("createProduct")
  /\ IF CanCreateNamespace(Product)
     THEN /\ CreateNamespace(Product)
          /\ Answer(GoTo("createProject"))
          /\ UNCHANGED <<users, accounts, project, apps, roles, usage, listenerVars, hooks>>
     ELSE Refuse
  /\ UNCHANGED <<objectVars, history>>

CreateProject ==
  /\ At("createProject")
  /\ project' = IF project = "none" THEN "created" ELSE project
  /\ Answer(GoTo("addProductUser"))
  /\ UNCHANGED <<ns, users, accounts, apps, roles, usage>> /\ Rest

Removable == AccountIsRemovable(run.usage, run.old.account, Me)

\* Mutant: the other runtimes with the account are not asked.
OldPermsOfAll == run.old.perms

\* Mutant: the runtime's own use of the account is not excluded.
OldPermsInclusive == run.old.perms \ PermsUsed(run.usage, run.old.account, {})

\* Permissions of the last deployment that no other runtime with the account is
\* recorded for.
OldPerms == run.old.perms \ PermsUsed(run.usage, run.old.account, {Me})

\* A deployment with another account than the last one leaves that first.
AddProductUser ==
  /\ At("addProductUser")
  /\ project' = "granted"
  /\ Answer(CASE run.old.account \in {NoAccount, run.spec.account} -> GoTo("createSpace")
              [] run.old.account \notin {NoAccount, run.spec.account} /\ Removable -> GoTo("deleteRole")
              [] OTHER -> Do("revokeOld", OldPerms))
  /\ UNCHANGED <<ns, users, accounts, apps, roles, usage>> /\ Rest

RevokeOld(p) ==
  /\ At("revokeOld") /\ p \in run.todo
  /\ RevokePermission(run.old.account, p)
  /\ Answer(Do("revokeOld", run.todo \ {p}))
  /\ UNCHANGED <<ns, users, accounts, project, apps, usage>> /\ Rest

\* The account is left: its use is taken off the record, and a deletion takes it
\* off the cache.
Left == [run EXCEPT !.pc = IF Deploying THEN "createSpace" ELSE "deleteSpace",
                    !.usage = ForgetAccount(@, run.old.account, Me),
                    !.new.account = IF Deploying THEN @ ELSE NoAccount]

OldRevoked ==
  /\ At("revokeOld") /\ run.todo = {}
  /\ Goes(CASE Deploying -> GoTo("dropUser")
            [] Deleting /\ Removable -> GoTo("deleteRole")
            [] OTHER -> Left)
  /\ UNCHANGED <<objectVars, history>>

\* A space without the annotation makes DeleteSpaceUser panic.  As after an error
\* the usage record is written and the object keeps the cache it has.
DropUser ==
  /\ At("dropUser")
  /\ IF CanDeleteSpaceUser(run.old.space)
     THEN /\ DeleteSpaceUser(run.old.space, run.old.account)
          /\ Answer(Left)
          /\ UNCHANGED <<ns, accounts, project, apps, roles, usage, listenerVars, hooks>>
     ELSE Refuse
  /\ UNCHANGED <<objectVars, history>>

DeleteProductRole ==
  /\ At("deleteRole")
  /\ DeleteRole(run.old.account)
  /\ Answer(GoTo("deleteAccount"))
  /\ UNCHANGED <<ns, users, accounts, project, apps, usage>> /\ Rest

DeleteProductAccount ==
  /\ At("deleteAccount")
  /\ DeleteAccount(run.old.account)
  /\ Answer(Left)
  /\ UNCHANGED <<ns, project, apps, roles, usage>> /\ Rest

-----------------------------------------------------------------------------
(* The space, the account and its permissions.                             *)

CreateSpace ==
  /\ At("createSpace")
  /\ IF CanCreateNamespace(run.spec.space)
     THEN /\ CreateNamespace(run.spec.space)
          /\ Answer([run EXCEPT !.pc = "createAccount", !.new.space = run.spec.space])
          /\ UNCHANGED <<users, accounts, project, apps, roles, usage, listenerVars, hooks>>
     ELSE Refuse
  /\ UNCHANGED <<objectVars, history>>

CreateProductAccount ==
  /\ At("createAccount")
  /\ IF CanCreateAccount
     THEN /\ CreateAccount(run.spec.account)
          /\ Answer(GoTo("addUser"))
          /\ UNCHANGED <<ns, users, project, apps, roles, usage, listenerVars, hooks>>
     ELSE Refuse
  /\ UNCHANGED <<objectVars, history>>

AddUser ==
  /\ At("addUser")
  /\ IF Operable(run.spec.space)
     THEN /\ AddSpaceUser(run.spec.space, run.spec.account)
          /\ Answer([run EXCEPT !.pc = "createRole",
                                !.usage = UpdateSpaces(@, run.spec.account, Me, {run.spec.space})])
          /\ UNCHANGED <<ns, accounts, project, apps, roles, usage, listenerVars, hooks>>
     ELSE Refuse
  /\ UNCHANGED <<objectVars, history>>

\* GetPermissionsFromRuntime.
Perms(spec) == {spec.source} \cup spec.tokens

CreateAccountRole ==
  /\ At("createRole")
  /\ IF HasAccount(run.spec.account)
     THEN /\ CreateRole(run.spec.account)
          /\ Answer(Do("grant", Perms(run.spec)))
          /\ UNCHANGED <<ns, users, accounts, project, apps, usage, listenerVars, hooks>>
     ELSE Refuse
  /\ UNCHANGED <<objectVars, history>>

Grant(p) ==
  /\ At("grant") /\ p \in run.todo
  /\ GrantPermission(run.spec.account, p)
  /\ Answer(Do("grant", run.todo \ {p}))
  /\ UNCHANGED <<ns, users, accounts, project, apps, usage>> /\ Rest

\* The permissions are recorded; what nobody with the account is recorded for
\* is revoked.
Granted ==
  /\ At("grant") /\ run.todo = {}
  /\ LET u == UpdatePermissions(run.usage, run.spec.account, Me, Perms(run.spec))
     IN  Goes([run EXCEPT !.pc = "revoke", !.usage = u,
                          !.todo = run.old.perms \ PermsUsed(u, run.spec.account, {})])
  /\ UNCHANGED <<objectVars, history>>

Revoke(p) ==
  /\ At("revoke") /\ p \in run.todo
  /\ RevokePermission(run.spec.account, p)
  /\ Answer(Do("revoke", run.todo \ {p}))
  /\ UNCHANGED <<ns, users, accounts, project, apps, usage>> /\ Rest

KindsOf(spec) == (IF spec.tokens # {} THEN {"gitlab"} ELSE {})
                 \cup (IF spec.calendar THEN {"calendar"} ELSE {})

\* Event sources of the recorded kinds that the spec has no longer.
Missing == cached[Me] \ KindsOf(run.spec)

\* After the GitLab event source: that of the calendar, then the missing kinds.
Onwards(next) == IF run.spec.calendar THEN [next EXCEPT !.pc = "createCalendar"]
                 ELSE [next EXCEPT !.pc = "unlisten", !.kinds = Missing]

\* An event source needs the code repositories it listens to; on an error, the
\* permissions and the account are in the cache already.
PermissionsSynced ==
  /\ At("revoke") /\ run.todo = {}
  /\ LET synced == [run EXCEPT !.new.perms = Perms(run.spec), !.new.account = run.spec.account]
         named  == [synced EXCEPT !.new.id = TRUE]
     IN  Goes(CASE ~(run.spec.tokens \subseteq run.repos) ->
                     [Failed EXCEPT !.new = synced.new]
                [] run.spec.tokens = {} -> Onwards(named)
                [] OTHER -> [named EXCEPT !.pc = "listen", !.todo = run.spec.tokens])
  /\ UNCHANGED <<objectVars, history>>

-----------------------------------------------------------------------------
(* Listening to events: the event sources.                                 *)

\* What the steps below leave alone.
ListenRest == UNCHANGED <<clusterVars, hooks, objectVars, history>>

\* Token and secrets of a repository; a failure may come after the grant.
ListenTo(p) ==
  /\ At("listen") /\ p \in run.todo
  /\ \/ CreateTokens(Me, p) /\ Answer(Do("listen", run.todo \ {p}))
     \/ GrantToken(Me, p) /\ run' = Failed /\ Fault
  /\ UNCHANGED <<entry, gitlab, calendar, sensors, cached>> /\ ListenRest

ListensToAll ==
  /\ At("listen") /\ run.todo = {}
  /\ Goes(Do("forgetRepos", gitlab[Me].repos \ run.spec.tokens))
  /\ UNCHANGED <<objectVars, history>>

\* Token and secrets of a repository of the existing event source are removed,
\* which takes the repository to name them.
ForgetRepo(p) ==
  /\ run.pc \in {"forgetRepos", "unlistenRepos"} /\ p \in run.todo
  /\ IF p \in run.repos
     THEN /\ \/ DeleteTokens(Me, p) /\ Answer(Do(run.pc, run.todo \ {p}))
             \/ RevokeToken(Me, p) /\ run' = Failed /\ Fault
          /\ UNCHANGED <<clusterVars, entry, gitlab, calendar, sensors, cached, hooks>>
     ELSE Refuse
  /\ UNCHANGED <<objectVars, history>>

ReposForgotten ==
  /\ run.todo = {}
  /\ \/ At("forgetRepos") /\ Goes(GoTo("createEntry"))
     \/ At("unlistenRepos") /\ Goes(GoTo("deleteEntry"))
  /\ UNCHANGED <<objectVars, history>>

CreateEntryPoint ==
  /\ At("createEntry")
  /\ entry' = entry \cup {Me}
  /\ Answer(GoTo("createSource"))
  /\ UNCHANGED <<listener, tokens, gitlab, calendar, sensors, cached>> /\ ListenRest

CreateGitlab ==
  /\ At("createSource")
  /\ CreateGitlabSource(Me, run.spec.tokens)
  /\ Answer(Onwards(run))
  /\ UNCHANGED <<listener, tokens, entry, calendar, sensors, cached>> /\ ListenRest

CreateCalendar ==
  /\ At("createCalendar")
  /\ calendar' = calendar \cup {Me}
  /\ Answer([run EXCEPT !.pc = "unlisten", !.kinds = Missing])
  /\ UNCHANGED <<listener, tokens, entry, gitlab, sensors, cached>> /\ ListenRest

\* Mutant: one that is gone is an error, as it is of the calendar generator.
UnlistenGitlabThere ==
  /\ At("unlisten") /\ "gitlab" \in run.kinds
  /\ Goes(IF gitlab[Me].exists THEN Do("unlistenRepos", gitlab[Me].repos) ELSE Failed)
  /\ UNCHANGED <<objectVars, history>>

\* DeleteEventSource of the GitLab generator; one that is gone is no error.
UnlistenGitlab ==
  /\ At("unlisten") /\ "gitlab" \in run.kinds
  /\ Goes(IF gitlab[Me].exists THEN Do("unlistenRepos", gitlab[Me].repos)
          ELSE [run EXCEPT !.kinds = @ \ {"gitlab"}])
  /\ UNCHANGED <<objectVars, history>>

DeleteEntryPoint ==
  /\ At("deleteEntry")
  /\ entry' = entry \ {Me}
  /\ Answer(GoTo("deleteSource"))
  /\ UNCHANGED <<listener, tokens, gitlab, calendar, sensors, cached>> /\ ListenRest

DeleteGitlab ==
  /\ At("deleteSource")
  /\ DeleteGitlabSource(Me)
  /\ Answer([run EXCEPT !.pc = "unlisten", !.kinds = @ \ {"gitlab"}])
  /\ UNCHANGED <<listener, tokens, entry, calendar, sensors, cached>> /\ ListenRest

\* A deletion takes the kinds in order.
DeleteCalendar ==
  /\ At("unlisten") /\ "calendar" \in run.kinds
  /\ Deleting => "gitlab" \notin run.kinds
  /\ IF CanDeleteCalendar(Me)
     THEN /\ calendar' = calendar \ {Me}
          /\ Answer([run EXCEPT !.kinds = @ \ {"calendar"}])
          /\ UNCHANGED <<clusterVars, listener, tokens, entry, gitlab, sensors, cached, hooks>>
     ELSE Refuse
  /\ UNCHANGED <<objectVars, history>>

\* updateCache and deleteCache: the record is written when all is done.
RecordKinds ==
  /\ At("unlisten") /\ run.kinds = {}
  /\ cached' = [cached EXCEPT ![Me] = IF Deploying THEN KindsOf(run.spec)
                                      ELSE IF run.old.id THEN {} ELSE @]
  /\ Answer(GoTo(IF Deploying THEN "createHook" ELSE "deleteSensors"))
  /\ UNCHANGED <<listener, tokens, entry, gitlab, calendar, sensors>> /\ ListenRest

-----------------------------------------------------------------------------
(* The hook secret and the sensors.                                        *)

\* The pipelines mount the read-only deploy key of their code repository.  The
\* secret has the same name whatever repository it is of.
HookOf(spec) == IF spec.triggers > 0 THEN spec.source ELSE NoRepo

HookRest == UNCHANGED <<clusterVars, listenerVars, objectVars, history>>

CreateHook ==
  /\ At("createHook")
  /\ IF Operable(run.spec.space)
     THEN /\ hooks' = IF run.spec.triggers > 0
                      THEN [hooks EXCEPT ![run.spec.space] = HookOf(run.spec)] ELSE hooks
          /\ Answer(GoTo("removeHook"))
          /\ UNCHANGED <<clusterVars, listenerVars>>
     ELSE Refuse
  /\ UNCHANGED <<objectVars, history>>

\* Mutant: what the new deployment still uses is not left out.
RemoveOldHook ==
  /\ At("removeHook")
  /\ hooks' = IF run.old.hook # NoRepo /\ run.old.space # NoSpace
              THEN [hooks EXCEPT ![run.old.space] = NoRepo] ELSE hooks
  /\ Answer([run EXCEPT !.pc = IF Deploying THEN "createSensors" ELSE "app",
                        !.new.hook = IF Deploying THEN HookOf(run.spec) ELSE NoRepo])
  /\ HookRest

\* removeUnusedHookResource: that of another space, or of another repository.
RemoveHook ==
  /\ At("removeHook")
  /\ LET unused == CASE Deleting -> run.old.hook # NoRepo /\ run.old.space # NoSpace
                     [] run.old.hook = NoRepo -> FALSE
                     [] OTHER -> \/ run.old.space # run.spec.space
                                 \/ run.old.hook # HookOf(run.spec)
     IN  hooks' = IF unused THEN [hooks EXCEPT ![run.old.space] = NoRepo] ELSE hooks
  /\ Answer([run EXCEPT !.pc = IF Deploying THEN "createSensors" ELSE "app",
                        !.new.hook = IF Deploying THEN HookOf(run.spec) ELSE NoRepo])
  /\ HookRest

SensorRest == UNCHANGED <<listener, tokens, entry, gitlab, calendar, cached>> /\ ListenRest

\* The sensors of the triggers are created in order; a failure may come after
\* some of them.
CreateSensorsOf ==
  /\ At("createSensors")
  /\ \/ /\ CreateSensors(Me, run.spec.triggers)
        /\ Answer([run EXCEPT !.pc = "surplusSensors",
                              !.surplus = SurplusSensors(Me, run.spec.triggers)])
     \/ /\ \E n \in 1..run.spec.triggers - 1 : CreateSensors(Me, n)
        /\ run' = Failed /\ Fault
  /\ SensorRest

DeleteSurplus(i) ==
  /\ At("surplusSensors") /\ i \in run.surplus /\ \A j \in run.surplus : i <= j
  /\ IF CanDeleteSensor(Me, i)
     THEN /\ DeleteSensor(Me, i)
          /\ Answer([run EXCEPT !.surplus = @ \ {i}])
          /\ UNCHANGED <<clusterVars, listener, tokens, entry, gitlab, calendar, cached, hooks>>
     ELSE Refuse
  /\ UNCHANGED <<objectVars, history>>

SensorsSynced ==
  /\ At("surplusSensors") /\ run.surplus = {}
  /\ Goes(GoTo("app"))
  /\ UNCHANGED <<objectVars, history>>

DeleteAllSensors ==
  /\ At("deleteSensors")
  /\ DeleteSensors(Me)
  /\ Answer(GoTo("removeHook"))
  /\ SensorRest

-----------------------------------------------------------------------------
(* The additional application, and what only a deletion does.              *)

AfterApp(next) == IF Deploying THEN [next EXCEPT !.pc = "saveUsage"]
                  ELSE IF run.old.account = NoAccount THEN [next EXCEPT !.pc = "deleteSpace"]
                  ELSE [next EXCEPT !.pc = "revokeOld", !.todo = OldPerms]

\* deployOrDeleteAdditionalResource, which a deletion calls, too: the
\* application is deployed when the spec asks for one.
SyncApp ==
  /\ At("app")
  /\ apps' = CASE run.spec.app -> [apps EXCEPT ![Me] = {run.spec.space}]
               [] ~run.spec.app /\ run.old.app -> [apps EXCEPT ![Me] = {}]
               [] OTHER -> apps
  /\ abandoned' = IF Deploying /\ (run.spec.app \/ run.old.app) THEN abandoned \ {Me}
                  ELSE abandoned
  /\ Answer(AfterApp([run EXCEPT !.new.app = @ \/ run.spec.app]))
  /\ UNCHANGED <<ns, users, accounts, project, roles, usage, listenerVars, hooks, objectVars,
                 recorded>>

\* The space of the last deployment, whoever uses it by now.  The last runtime
\* of the product takes the product with it.
DeleteSpace ==
  /\ At("deleteSpace")
  /\ IF run.old.space = NoSpace THEN UNCHANGED ns ELSE DeleteNamespace(run.old.space)
  /\ Answer([run EXCEPT !.pc = IF run.usage.runtimes = {} THEN "deleteProductUser" ELSE "saveUsage",
                        !.new.space = NoSpace])
  /\ UNCHANGED <<users, accounts, project, apps, roles, usage>> /\ Rest

DeleteProductUser ==
  /\ At("deleteProductUser")
  /\ project' = IF project = "granted" THEN "created" ELSE project
  /\ Answer(GoTo("deleteProduct"))
  /\ UNCHANGED <<ns, users, accounts, apps, roles, usage>> /\ Rest

DeleteProduct ==
  /\ At("deleteProduct")
  /\ IF CanDeleteProduct
     THEN /\ DeleteNamespace(Product)
          /\ Answer(GoTo("deleteProject"))
          /\ UNCHANGED <<users, accounts, project, apps, roles, usage, listenerVars, hooks>>
     ELSE Refuse
  /\ UNCHANGED <<objectVars, history>>

DeleteProject ==
  /\ At("deleteProject")
  /\ project' = "none"
  /\ Answer(GoTo("saveUsage"))
  /\ UNCHANGED <<ns, users, accounts, apps, roles, usage>> /\ Rest

-----------------------------------------------------------------------------
(* The end of a reconcile.                                                 *)

\* What u has no longer of the usage record: a runtime, or one's use of an account.
TakesOff(u) ==
  \/ ~(usage.runtimes \subseteq u.runtimes)
  \/ \E x \in usage.account :
       \A y \in u.account : ~(y.account = x.account /\ y.runtime = x.runtime)

\* The deferred UpdateProductUsage; its failure is logged and ignored.
SaveUsage ==
  /\ At("saveUsage")
  /\ \/ /\ UpdateProductUsage(run.usage)
        /\ recorded' = IF run.failed THEN recorded ELSE recorded \cup {Me}
        /\ UNCHANGED <<calm, faults>>
     \/ /\ Fault
        /\ recorded' = recorded \ {Me}
        /\ calm' = (calm /\ ~TakesOff(run.usage))
        /\ UNCHANGED usage
  /\ run' = GoTo(IF Deleting /\ ~run.failed THEN "removeFinalizer" ELSE "saveStatus")
  /\ UNCHANGED <<ns, users, accounts, project, apps, roles, listenerVars, hooks, codeRepos,
                 runtimes, late, left, edits, abandoned>>

SaveStatus ==
  /\ At("saveStatus")
  /\ run' = Idle
  /\ \/ /\ ~run.stale
        /\ runtimes' = [runtimes EXCEPT ![Me].cache = run.new,
                           ![Me].applied = IF Deploying /\ ~run.failed THEN run.spec ELSE @]
        /\ UNCHANGED faults
     \/ run.stale /\ UNCHANGED <<runtimes, faults>>
     \/ Fault /\ UNCHANGED runtimes
  /\ UNCHANGED <<clusterVars, listenerVars, hooks, codeRepos, late, left, calm, edits, history>>

\* Nobody changes an object that is being deleted.
RemoveFinalizer ==
  /\ At("removeFinalizer")
  /\ run' = Idle
  /\ \/ /\ runtimes' = [runtimes EXCEPT ![Me] = NoRuntime]
        /\ abandoned' = IF run.spec.app THEN abandoned \cup {Me} ELSE abandoned
        /\ UNCHANGED faults
     \/ Fault /\ UNCHANGED <<runtimes, abandoned>>
  /\ UNCHANGED <<clusterVars, listenerVars, hooks, codeRepos, late, left, calm, edits, recorded>>

-----------------------------------------------------------------------------
User ==
  \/ \E r \in Names : \E spec \in SpecsOf[r] : Apply(r, spec) \/ Admit(r, spec)
  \/ WriteLate
  \/ \E r \in Names : DeleteRuntime(r)
  \/ \E p \in Repos : DeleteCodeRepo(p)

\* The steps of a reconcile in progress, other than a failure or a crash.
Proceed ==
  \/ AddFinalizer \/ Validate \/ GetUsage
  \/ CreateProduct \/ CreateProject \/ AddProductUser
  \/ OldRevoked \/ DropUser \/ DeleteProductRole \/ DeleteProductAccount
  \/ CreateSpace \/ CreateProductAccount \/ AddUser \/ CreateAccountRole
  \/ Granted \/ PermissionsSynced
  \/ \E p \in Repos : RevokeOld(p) \/ Grant(p) \/ Revoke(p) \/ ListenTo(p) \/ ForgetRepo(p)
  \/ ListensToAll \/ ReposForgotten \/ CreateEntryPoint \/ CreateGitlab \/ CreateCalendar
  \/ UnlistenGitlab \/ DeleteEntryPoint \/ DeleteGitlab \/ DeleteCalendar \/ RecordKinds
  \/ CreateHook \/ RemoveHook \/ CreateSensorsOf \/ SensorsSynced \/ DeleteAllSensors
  \/ \E i \in 0..MaxTriggers - 1 : DeleteSurplus(i)
  \/ SyncApp \/ DeleteSpace \/ DeleteProductUser \/ DeleteProduct \/ DeleteProject
  \/ SaveUsage \/ SaveStatus \/ RemoveFinalizer

\* What is in a namespace goes with it.
Gone(s) ==
  /\ NamespaceGone(s)
  /\ hooks' = IF s = Product THEN hooks ELSE [hooks EXCEPT ![s] = NoRepo]
  /\ left' = left \ {t \in {s} : \A r \in Names : runtimes[r].cache.space # t}
  /\ UNCHANGED <<listenerVars, codeRepos, runtimes, late, calm, edits, run, history, faults>>

Next ==
  \/ User
  \/ \E r \in Names : Reconcile(r)
  \/ Proceed \/ CallFails \/ Crash
  \/ \E s \in Spaces \cup {Product} : Gone(s)

\* The worker goes on with what it began; every object comes up again and again
\* (back-off after a failure, reconcileFrequency after a success); the cluster
\* is done with deleting a namespace some day, the api server with a request.
Fairness ==
  /\ WF_vars(Proceed)
  /\ WF_vars(WriteLate)
  /\ \A r \in Names : SF_vars(Reconcile(r))
  /\ \A s \in Spaces \cup {Product} : WF_vars(Gone(s))

Spec == Init /\ [][Next]_vars /\ Fairness

-----------------------------------------------------------------------------
(* Properties.                                                             *)

\* The space of r, with the account at home in it.
SpaceInPlace(r) ==
  LET spec == runtimes[r].spec
  IN  /\ Operable(spec.space) /\ spec.account \in users[spec.space]
      /\ spec.space \in roles[spec.account].spaces

\* What it has of accounts it may share.
AccountInPlace(r) ==
  LET spec == runtimes[r].spec
      role == roles[spec.account]
  IN  /\ Operable(Product) /\ project = "granted" /\ spec.account \in accounts
      /\ role.exists /\ Perms(spec) \subseteq role.perms

AppInPlace(r) == runtimes[r].spec.app => apps[r] = {runtimes[r].spec.space}
HookInPlace(r) == runtimes[r].spec.triggers > 0 => hooks[runtimes[r].spec.space] = runtimes[r].spec.source

\* Its event sources and sensors, and the right to read the tokens.
Listening(r) ==
  LET spec == runtimes[r].spec
  IN  /\ spec.tokens # {} => gitlab[r] = [exists |-> TRUE, repos |-> spec.tokens] /\ r \in entry
      /\ spec.tokens \subseteq tokens[r] \cap listener
      /\ spec.calendar => r \in calendar
      /\ 0..spec.triggers - 1 \subseteq sensors[r]

\* What never ends by itself: a kind is recorded whose event source is gone; the
\* sensors have a gap, and a number is counted that does not exist; a repository
\* whose token has to be removed or created is gone.
CalendarLost(r) == "calendar" \in cached[r] /\ r \notin calendar
SensorGap(r) ==
  \E i \in runtimes[r].spec.triggers..Cardinality(sensors[r]) - 1 : i \notin sensors[r]
RepoGone(r) == ~(gitlab[r].repos \cup runtimes[r].spec.tokens \subseteq codeRepos)

\* Nor does the panic of an operator that takes the old account, which others
\* still use, from a space it created and never gave a user (hnc.go:418).
Panics(r) ==
  LET cache == runtimes[r].cache
  IN  /\ cache.account \notin {NoAccount, runtimes[r].spec.account}
      /\ ~AccountIsRemovable(usage, cache.account, r)
      /\ LacksUserList(cache.space)

\* What a deployed runtime uses of the product and of its account stays until
\* the runtime changes, whatever the other runtimes with the account do; so does
\* its space, unless it is one that another runtime was moved out of.
InUseIsKept ==
  \A r \in recorded : Settled(r) =>
    /\ AccountInPlace(r) /\ AppInPlace(r)
    /\ SpaceInPlace(r) \/ runtimes[r].spec.space \in left

LiveOnes == {r \in Names : Live(r)}

\* With users who wait, in spite of a failure or a crash (but for what a stale
\* usage record keeps in use): no permission and no account is left that no live
\* runtime asks for.  A space a runtime was moved out of stays, and the
\* application of one that was deleted while it asked for it; the hook secret in
\* such a space goes unless a call failed.
NothingLeftBehind ==
  Quiet /\ calm =>
    /\ \A s \in Spaces : Operable(s) => s \in left \/ \E r \in LiveOnes : runtimes[r].spec.space = s
    /\ \A a \in Accounts : HasAccount(a) \/ roles[a].exists
                            => \E r \in LiveOnes : runtimes[r].spec.account = a
    /\ \A a \in Accounts : \A p \in roles[a].perms :
          \E r \in LiveOnes : runtimes[r].spec.account = a /\ p \in Perms(runtimes[r].spec)
    /\ Operable(Product) \/ project # "none" => LiveOnes # {}
    /\ \A r \in Names : apps[r] # {} => runtimes[r].spec.app \/ r \in abandoned
    /\ \A s \in Spaces : hooks[s] # NoRepo =>
          \/ \E r \in LiveOnes : runtimes[r].spec.space = s /\ hooks[s] = HookOf(runtimes[r].spec)
          \/ s \in left /\ faults < MaxFaults

\* And no event source, sensor or token: each runtime has the tokens and sensors
\* of its spec and none else, GitLab and the calendar are listened to only where
\* its spec says so, and the shared account may read no token but those of live
\* runtimes, also when a reconcile ended between two of the calls that create or
\* delete them.
NoEventIsLeft ==
  Quiet /\ calm =>
    /\ listener \subseteq UNION {runtimes[r].spec.tokens : r \in LiveOnes}
    /\ \A r \in Names :
         LET spec == runtimes[r].spec
         IN  /\ tokens[r] = spec.tokens
             /\ gitlab[r].exists \/ r \in entry => spec.tokens # {}
             /\ r \in calendar => spec.calendar
             /\ sensors[r] = 0..spec.triggers - 1

\* A live runtime is in the end deployed, and deployed again when another one
\* revoked the shared right to a token, deleted its space or its hook secret:
\* other than when its namespace is disputed, its events cannot be synced or its
\* reconciles panic.
EventuallyDeployed ==
  \A r \in Names : []<>(Live(r) =>
    \/ Settled(r) /\ SpaceInPlace(r) /\ AccountInPlace(r)
       /\ AppInPlace(r) /\ HookInPlace(r) /\ Listening(r)
    \/ Conflicts(r, runtimes[r].spec) \/ CalendarLost(r) \/ SensorGap(r) \/ RepoGone(r)
    \/ Panics(r))

\* A space no object has in its cache: a runtime was moved out of it, or the
\* status of the reconcile that created it was not saved.
SpaceForgotten ==
  \E s \in Spaces : Operable(s) /\ \A q \in Names : runtimes[q].cache.space # s

\* A deleted runtime goes away in the end, other than when a forgotten space
\* keeps the product, or its events cannot be deleted.
EventuallyDeleted ==
  \A r \in Names : []<>(runtimes[r].phase = "deleting" =>
    SpaceForgotten \/ CalendarLost(r) \/ RepoGone(r))
=============================================================================
