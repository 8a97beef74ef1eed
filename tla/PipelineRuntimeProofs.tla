----------------------- MODULE PipelineRuntimeProofs -----------------------
(***************************************************************************)
(* Theorems about PipelineRuntime: type correctness, that what a runtime     *)
(* was deployed to stays as long as it is in use (InUseIsKept), and that     *)
(* nothing listens any more that no live runtime asks for (NoEventIsLeft),   *)
(* for any runtimes, spaces, accounts and repositories, and any number of    *)
(* edits, failures and crashes.                                             *)
(*                                                                         *)
(* For the product and the accounts the argument is that of                 *)
(* DeploymentRuntimeProofs: a kept runtime is named in the usage record     *)
(* (KeptIsRecorded) and in the copy a reconcile works with                  *)
(* (CopyIsRecorded), so nothing it uses is computed to be removed           *)
(* (TodoIsHarmless).  Of spaces there is no record.  Another runtime can    *)
(* take the space away only when its cache names it, and then the space is  *)
(* marked as left (SharedIsLeft): two runtimes never pass the validation    *)
(* for the same space, unless one of them has been moved out of it          *)
(* (ValidatedIsLeft), and what a cache names is the space of the object or  *)
(* one it was moved out of (MovedIsLeft).                                   *)
(*                                                                         *)
(* What a runtime listens to is its own, but for the tokens the shared      *)
(* account may read.  ObjectsListen says that whatever state a failed       *)
(* reconcile leaves, the next one finds what it has to delete: from the     *)
(* recorded kinds, the annotation of the GitLab source and the numbers of   *)
(* the sensors; ListeningProgress and SensorsProgress follow it there.      *)
(***************************************************************************)
EXTENDS PipelineRuntime, FiniteSetTheorems, TLAPS

-----------------------------------------------------------------------------
(* The inductive invariant. *)

RunType ==
  [pc : PC, op : {"none", "deploy", "delete"}, rt : Names \cup {NoName},
   spec : Specs \cup {NoSpec}, old : Cache, new : Cache, usage : Usage,
   repos : SUBSET Repos, todo : SUBSET Repos, kinds : SUBSET Kinds,
   surplus : SUBSET (0..MaxTriggers - 1), failed : BOOLEAN, stale : BOOLEAN]

\* Where the old account is being left, and where the product is.
Leaving == {"revokeOld", "dropUser", "deleteRole", "deleteAccount"}
Ending == {"deleteProductUser", "deleteProduct", "deleteProject"}

\* The event sources, the hook secret and the sensors.
Unlistening == {"unlisten", "unlistenRepos", "deleteEntry", "deleteSource"}
ListeningPCs == {"listen", "forgetRepos", "createEntry", "createSource", "createCalendar",
                 "createHook", "removeHook", "createSensors", "surplusSensors"}
                \cup Unlistening

\* The steps of a deployment from one of its stages on.
FromSaved == {"saveUsage", "saveStatus"}
FromSynced == ListeningPCs \cup {"app"} \cup FromSaved
FromGranted == {"revoke"} \cup FromSynced
FromRole == {"grant"} \cup FromGranted
FromUser == {"createRole"} \cup FromRole
FromAccount == {"addUser"} \cup FromUser
FromSpace == {"createAccount"} \cup FromAccount
FromProject == Leaving \cup {"createSpace"} \cup FromSpace
FromProduct == {"createProject", "addProductUser"} \cup FromProject
FromUsage == {"createProduct"} \cup FromProduct
FromValidated == {"getUsage"} \cup FromUsage

DeployPCs == {"addFinalizer", "validate"} \cup FromValidated
DeletePCs == {"getUsage", "deleteSensors", "removeHook", "app", "deleteSpace", "saveUsage",
              "saveStatus", "removeFinalizer"}
             \cup Unlistening \cup (Leaving \ {"dropUser"}) \cup Ending

\* A reconcile knows its runtime; it leaves an account only for another one, and
\* saves the space it had, or the one it was asked for.
RunIsSound ==
  /\ run \in RunType
  /\ run.pc = "idle" <=> run.rt = NoName
  /\ run.pc # "idle" =>
       /\ run.spec \in Specs
       /\ \/ Deploying /\ run.pc \in DeployPCs
          \/ Deleting /\ run.pc \in DeletePCs
       /\ run.new.space = run.old.space
          \/ run.new.space = IF Deploying THEN run.spec.space ELSE NoSpace
  /\ run.pc \in {"addFinalizer", "validate"} => run.new.space = run.old.space
  /\ run.pc \in Leaving =>
       run.old.account \in Accounts /\ (Deploying => run.old.account # run.spec.account)

\* The object a reconcile is about: what it has read of it is so unless its copy
\* is stale; the cache is so in any case.
ObjectIsRead ==
  run.rt \in Names =>
    LET object == runtimes[run.rt]
    IN  /\ run.old = object.cache
        /\ ~run.stale => object.phase # "none" /\ object.spec = run.spec
        /\ Deleting => object.phase = "deleting"
        /\ run.pc # "addFinalizer" => object.finalizer

\* An object without a finalizer was never reconciled, and goes at once.
UnheldIsNew ==
  \A r \in Names :
    LET object == runtimes[r]
    IN  /\ object.finalizer => object.phase # "none"
        /\ ~object.finalizer => object.cache = NoCache /\ object.phase # "deleting"
        /\ object.phase # "none" => object.spec \in Specs

\* The last deployment of r succeeded, and r has not been seen changed since.
Applied(r) == runtimes[r].phase = "live" /\ runtimes[r].applied # NoSpec
Kept(r) == r \in recorded /\ Applied(r)
SpecOf(r) == runtimes[r].applied

\* The status of such a runtime names its account and space; a reconcile of it
\* deploys the same again.
AppliedIsKnown ==
  /\ \A r \in Names : Applied(r) =>
       /\ runtimes[r].cache.account = SpecOf(r).account
       /\ runtimes[r].cache.space = SpecOf(r).space
  /\ run.rt \in Names /\ Applied(run.rt) =>
       /\ SpecOf(run.rt) = run.spec
       /\ run.new.account = run.spec.account /\ run.new.space = run.spec.space

\* Spaces that caches name.
MovedIsLeft ==
  \A r \in Names : runtimes[r].cache.space # NoSpace =>
    runtimes[r].cache.space = runtimes[r].spec.space \/ runtimes[r].cache.space \in left
SharedIsLeft ==
  \A r, q \in Names : Kept(r) /\ q # r /\ runtimes[q].cache.space = SpecOf(r).space =>
    SpecOf(r).space \in left
ValidatedIsLeft ==
  Deploying /\ run.pc \in FromValidated =>
    \A q \in Names \ {run.rt} : runtimes[q].cache.space = run.spec.space =>
      run.spec.space \in left

\* One use for each account and runtime.
UsesAreUnique(u) ==
  \A x, y \in u.account : x.account = y.account /\ x.runtime = y.runtime => x = y

RecordedPerms(u, r, spec) ==
  \E x \in u.account : x.account = spec.account /\ x.runtime = r /\ Perms(spec) \subseteq x.perms
InRecord(u, r, spec) == r \in u.runtimes /\ RecordedPerms(u, r, spec)

HasPerms(spec) == Perms(spec) \subseteq roles[spec.account].perms
HasSpace(spec) == /\ Operable(spec.space) /\ spec.account \in users[spec.space]
                  /\ spec.space \in roles[spec.account].spaces

\* What the deployment of r as spec consists of.
DeployedAs(r, spec) ==
  /\ Operable(Product) /\ project = "granted"
  /\ spec.account \in accounts /\ roles[spec.account].exists /\ HasPerms(spec)
  /\ spec.app => apps[r] = {spec.space}
  /\ HasSpace(spec) \/ spec.space \in left

KeptIsRecorded == UsesAreUnique(usage) /\ \A r \in Names : Kept(r) => InRecord(usage, r, SpecOf(r))
KeptIsDeployed == \A r \in Names : Kept(r) => DeployedAs(r, SpecOf(r))

\* What is kept is recorded in the copy of the usage record, too.
Copied == run.pc \in PC \ {"idle", "addFinalizer", "validate", "getUsage", "saveStatus",
                           "removeFinalizer"}
CopyIsRecorded ==
  Copied => /\ UsesAreUnique(run.usage)
            /\ \A r \in Names : Kept(r) => InRecord(run.usage, r, SpecOf(r))

\* What is left to remove is nothing that is kept.
TodoIsHarmless ==
  \A r \in Names : Kept(r) =>
    LET spec == SpecOf(r) IN
    /\ At("revokeOld") /\ spec.account = run.old.account => Perms(spec) \cap run.todo = {}
    /\ run.pc \in {"deleteRole", "deleteAccount"} => spec.account # run.old.account
    /\ At("revoke") /\ spec.account = run.spec.account => Perms(spec) \cap run.todo = {}
    /\ run.pc \notin Ending

\* How far a deployment has come that has not failed.
DeploymentProgress ==
  Deploying /\ ~run.failed =>
    LET spec == run.spec
        u == run.usage
    IN
    /\ run.pc \in FromUsage \ {"saveStatus"} => run.rt \in u.runtimes
    /\ run.pc \in FromProduct => Operable(Product)
    /\ run.pc \in FromProject => project = "granted"
    /\ run.pc \in FromSpace => Operable(spec.space) /\ run.new.space = spec.space
    /\ run.pc \in FromAccount => spec.account \in accounts
    /\ run.pc \in FromUser => spec.account \in users[spec.space]
    /\ run.pc \in FromRole => roles[spec.account].exists /\ spec.space \in roles[spec.account].spaces
    /\ At("grant") => Perms(spec) \ run.todo \subseteq roles[spec.account].perms
    /\ run.pc \in FromGranted => HasPerms(spec)
    /\ run.pc \in FromGranted \ {"saveStatus"} => RecordedPerms(u, run.rt, spec)
    /\ At("revoke") => Perms(spec) \cap run.todo = {}
    /\ run.pc \in FromSynced => run.new.account = spec.account
    /\ run.pc \in FromSaved => (spec.app => apps[run.rt] = {spec.space})
    /\ At("saveStatus") /\ run.rt \in recorded => InRecord(usage, run.rt, spec)

RestTyped ==
  /\ ClusterTypeOK /\ ListenerTypeOK
  /\ hooks \in [Spaces -> Repos \cup {NoRepo}]
  /\ codeRepos \subseteq Repos
  /\ runtimes \in [Names -> Runtime]
  /\ late \in [rt : Names, spec : Specs] \cup {NoRequest}
  /\ recorded \subseteq Names /\ abandoned \subseteq Names /\ left \subseteq Spaces /\ calm \in BOOLEAN
  /\ edits \in 0..MaxEdits /\ faults \in 0..MaxFaults

Inv ==
  /\ RestTyped /\ RunIsSound /\ ObjectIsRead /\ UnheldIsNew /\ AppliedIsKnown
  /\ MovedIsLeft /\ SharedIsLeft /\ ValidatedIsLeft
  /\ KeptIsRecorded /\ KeptIsDeployed /\ CopyIsRecorded /\ TodoIsHarmless
  /\ DeploymentProgress

-----------------------------------------------------------------------------
(* Constants. *)

LEMMA ConstantFacts ==
  /\ NoCache \in Cache /\ NoCache.space = NoSpace /\ NoSpec \notin Specs
  /\ \A spec \in Specs : /\ spec.space \in Spaces /\ spec.account \in Accounts
                         /\ spec.source \in Repos /\ spec.tokens \subseteq Repos
                         /\ spec.calendar \in BOOLEAN /\ spec.triggers \in 0..MaxTriggers
                         /\ spec.app \in BOOLEAN
                         /\ spec.space # NoSpace /\ spec.account # NoAccount
                         /\ Perms(spec) \subseteq Repos
  /\ EmptyUsage(FALSE) \in Usage /\ EmptyUsage(TRUE) \in Usage
  /\ NoRuntime \in Runtime /\ NoRuntime.phase = "none" /\ ~NoRuntime.finalizer
  /\ NoRuntime.applied = NoSpec /\ NoRuntime.cache = NoCache
<1>1. NoCache \in Cache /\ NoCache.space = NoSpace
  BY DEF NoCache, Cache
<1>2. ASSUME NEW spec \in Specs
      PROVE  /\ spec.space \in Spaces /\ spec.account \in Accounts
             /\ spec.source \in Repos /\ spec.tokens \subseteq Repos
             /\ spec.calendar \in BOOLEAN /\ spec.triggers \in 0..MaxTriggers
             /\ spec.app \in BOOLEAN
             /\ spec.space # NoSpace /\ spec.account # NoAccount
             /\ Perms(spec) \subseteq Repos
  <2>1. PICK r \in Names : spec \in SpecsOf[r]
    BY DEF Specs
  <2>2. spec \in [space : Spaces, account : Accounts, source : Repos, tokens : SUBSET Repos,
                  calendar : BOOLEAN, triggers : 0..MaxTriggers, app : BOOLEAN]
    BY <2>1, SpecsAssumption
  <2> QED BY <2>2, SpecsAssumption DEF Perms
<1>3. NoSpec \notin Specs
  BY <1>2 DEF NoSpec
<1>4. ASSUME NEW known \in BOOLEAN PROVE EmptyUsage(known) \in Usage
  BY DEF EmptyUsage, Usage
<1>5. /\ NoRuntime \in Runtime /\ NoRuntime.phase = "none" /\ ~NoRuntime.finalizer
      /\ NoRuntime.applied = NoSpec /\ NoRuntime.cache = NoCache
  BY <1>1 DEF NoRuntime, Runtime
<1> QED BY <1>1, <1>2, <1>3, <1>4, <1>5

LEMMA IdleFacts ==
  /\ Idle \in RunType /\ Idle.pc = "idle" /\ Idle.rt = NoName /\ Idle.op = "none"
  /\ NoName \notin Names
<1>1. NoCache \in Cache /\ EmptyUsage(FALSE) \in Usage
  BY ConstantFacts
<1>2. Idle \in RunType
  BY <1>1 DEF Idle, RunType, PC
<1> QED BY <1>2, SpecsAssumption DEF Idle

LEMMA TypedIsTypeOK == RestTyped /\ RunIsSound => TypeOK
<1> SUFFICES ASSUME RestTyped, RunIsSound PROVE TypeOK
  OBVIOUS
<1>1. /\ run.pc \in PC /\ run.op \in {"none", "deploy", "delete"}
      /\ run.rt \in Names \cup {NoName} /\ run.spec \in Specs \cup {NoSpec}
      /\ run.old \in Cache /\ run.new \in Cache /\ run.usage \in Usage
      /\ run.repos \subseteq Repos /\ run.todo \subseteq Repos /\ run.kinds \subseteq Kinds
      /\ run.surplus \subseteq 0..MaxTriggers - 1
      /\ run.failed \in BOOLEAN /\ run.stale \in BOOLEAN
  BY DEF RunIsSound, RunType
<1>2. run.pc = "idle" <=> run.rt = NoName
  BY DEF RunIsSound
<1> QED BY <1>1, <1>2 DEF TypeOK, RestTyped

-----------------------------------------------------------------------------
(* Steps of a reconcile in general. *)

\* The runtime a reconcile is about, and what it has read.
SameReconcile ==
  /\ run'.op = run.op /\ run'.rt = run.rt /\ run'.spec = run.spec /\ run'.old = run.old
  /\ run'.stale = run.stale

\* And what it will save.
SameResult ==
  /\ SameReconcile /\ run'.usage = run.usage /\ run'.failed = run.failed
  /\ run'.new.account = run.new.account /\ run'.new.space = run.new.space

LEMMA KeptIsSame ==
  ASSUME UNCHANGED <<runtimes, recorded>>, NEW r
  PROVE  /\ Kept(r)' <=> Kept(r)
         /\ Applied(r)' <=> Applied(r)
         /\ SpecOf(r)' = SpecOf(r)
  BY DEF Kept, Applied, SpecOf

LEMMA KeptHasSpec ==
  ASSUME Inv, NEW r \in Names, Applied(r)
  PROVE  SpecOf(r) \in Specs
  BY DEF Inv, RestTyped, Applied, SpecOf, Runtime

\* The run is about one of the runtimes.
LEMMA RunFacts ==
  ASSUME Inv, run.pc # "idle"
  PROVE  /\ run \in RunType /\ run.rt \in Names /\ run.rt # NoName /\ run.spec \in Specs
         /\ run.usage \in Usage /\ run.old \in Cache /\ run.new \in Cache
         /\ run.repos \subseteq Repos /\ run.todo \subseteq Repos /\ run.kinds \subseteq Kinds
         /\ runtimes \in [Names -> Runtime] /\ runtimes[run.rt] \in Runtime
         /\ run.old = runtimes[run.rt].cache
         /\ Deploying <=> ~Deleting
         /\ Deploying => run.pc \in DeployPCs
         /\ Deleting => run.pc \in DeletePCs
         /\ Deleting => runtimes[run.rt].phase = "deleting" /\ ~Applied(run.rt)
         /\ Applied(run.rt) =>
              /\ SpecOf(run.rt) = run.spec
              /\ run.old.account = run.spec.account /\ run.old.space = run.spec.space
              /\ run.new.account = run.spec.account /\ run.new.space = run.spec.space
         /\ run.pc # "addFinalizer" => runtimes[run.rt].finalizer
<1>1. run \in RunType /\ run.rt # NoName /\ run.spec \in Specs
  BY DEF Inv, RunIsSound
<1>2. run.rt \in Names /\ run.usage \in Usage /\ run.old \in Cache /\ run.new \in Cache
      /\ run.repos \subseteq Repos /\ run.todo \subseteq Repos /\ run.kinds \subseteq Kinds
  BY <1>1 DEF RunType
<1>3. runtimes \in [Names -> Runtime] /\ runtimes[run.rt] \in Runtime
  BY <1>2 DEF Inv, RestTyped
<1>4. /\ Deploying <=> ~Deleting
      /\ Deploying => run.pc \in DeployPCs
      /\ Deleting => run.pc \in DeletePCs
  BY DEF Inv, RunIsSound, Deploying, Deleting
<1>5. /\ run.old = runtimes[run.rt].cache
      /\ Deleting => runtimes[run.rt].phase = "deleting" /\ ~Applied(run.rt)
      /\ run.pc # "addFinalizer" => runtimes[run.rt].finalizer
  BY <1>2 DEF Inv, ObjectIsRead, Applied
<1>6. Applied(run.rt) =>
        /\ SpecOf(run.rt) = run.spec
        /\ run.old.account = run.spec.account /\ run.old.space = run.spec.space
        /\ run.new.account = run.spec.account /\ run.new.space = run.spec.space
  BY <1>2, <1>5 DEF Inv, AppliedIsKnown
<1> QED BY <1>1, <1>2, <1>3, <1>4, <1>5, <1>6

\* The reconcile goes on at another step of its course.
LEMMA GoesOn ==
  ASSUME Inv, run.pc # "idle", run' \in RunType, SameReconcile,
         run'.pc \in PC \ {"idle", "addFinalizer", "validate"},
         Deploying => run'.pc \in DeployPCs, Deleting => run'.pc \in DeletePCs,
         \/ run'.new.space = run.new.space \/ run'.new.space = run.old.space
         \/ run'.new.space = IF Deploying THEN run.spec.space ELSE NoSpace,
         run'.pc \in Leaving =>
           \/ run.pc \in Leaving
           \/ run.old.account \in Accounts /\ (Deploying => run.old.account # run.spec.account)
  PROVE  RunIsSound'
<1>1. run.rt # NoName /\ run.spec \in Specs /\ (Deploying \/ Deleting)
  BY RunFacts
<1>2. run'.pc \in Leaving =>
        run.old.account \in Accounts /\ (Deploying => run.old.account # run.spec.account)
  BY DEF Inv, RunIsSound
<1>3. run'.new.space = run.old.space
      \/ run'.new.space = IF Deploying THEN run.spec.space ELSE NoSpace
  BY DEF Inv, RunIsSound
<1> QED BY <1>1, <1>2, <1>3 DEF RunIsSound, SameReconcile, Deploying, Deleting

\* A call, which leaves the objects and the usage record alone.
LEMMA CallStep ==
  ASSUME Inv, run.pc \notin {"idle", "addFinalizer", "validate"}, UNCHANGED <<usage, objectVars, recorded>>,
         abandoned' \subseteq Names, faults' \in 0..MaxFaults, ClusterTypeOK', ListenerTypeOK',
         hooks' \in [Spaces -> Repos \cup {NoRepo}],
         KeptIsDeployed', SameReconcile, RunIsSound',
         run'.pc \in PC \ {"idle", "addFinalizer", "validate"},
         Applied(run.rt) =>
           run'.new.account = run.new.account /\ run'.new.space = run.new.space,
         CopyIsRecorded', TodoIsHarmless', DeploymentProgress'
  PROVE  Inv'
<1> USE DEF objectVars
<1>1. RestTyped'
  BY DEF Inv, RestTyped
<1>2. run.pc # "idle" /\ run.pc # "addFinalizer" /\ run.pc # "validate"
  OBVIOUS
<1>3. /\ run.rt \in Names /\ runtimes[run.rt].finalizer
      /\ Deploying => run.pc \in FromValidated
  BY <1>2, RunFacts DEF DeployPCs
<1>4. ObjectIsRead' /\ UnheldIsNew'
  BY <1>3 DEF Inv, ObjectIsRead, UnheldIsNew, SameReconcile, Deleting
<1>5. AppliedIsKnown'
  BY <1>3, KeptIsSame DEF Inv, AppliedIsKnown, SameReconcile
<1>6. MovedIsLeft' /\ SharedIsLeft'
  BY KeptIsSame DEF Inv, MovedIsLeft, SharedIsLeft
<1>7. ValidatedIsLeft'
  BY <1>3 DEF Inv, ValidatedIsLeft, SameReconcile, Deploying
<1>8. KeptIsRecorded'
  BY KeptIsSame DEF Inv, KeptIsRecorded, UsesAreUnique, InRecord, RecordedPerms
<1> QED BY <1>1, <1>4, <1>5, <1>6, <1>7, <1>8 DEF Inv

LEMMA FailedFacts ==
  ASSUME run \in RunType
  PROVE  /\ Failed \in RunType /\ Failed.pc = "saveUsage" /\ Failed.todo = {} /\ Failed.failed
         /\ Failed.op = run.op /\ Failed.rt = run.rt /\ Failed.spec = run.spec
         /\ Failed.old = run.old /\ Failed.new = run.new /\ Failed.usage = run.usage
         /\ Failed.stale = run.stale
<1>1. "saveUsage" \in PC /\ TRUE \in BOOLEAN
  BY DEF PC
<1>2. Failed \in RunType
  BY <1>1 DEF RunType, Failed
<1> QED BY <1>2 DEF RunType, Failed

LEMMA FaultFacts ==
  ASSUME Inv
  PROVE  /\ Fault => faults' \in 0..MaxFaults
         /\ UNCHANGED faults => faults' \in 0..MaxFaults
  BY SpecsAssumption DEF Inv, RestTyped, Fault

\* A reconcile that failed has nothing to do any more.
LEMMA FailureIsHarmless ==
  ASSUME run'.pc = "saveUsage", run'.failed
  PROVE  TodoIsHarmless' /\ DeploymentProgress'
  BY DEF TodoIsHarmless, DeploymentProgress, At, Ending

LEMMA SameCopy ==
  ASSUME Inv, Copied, UNCHANGED <<runtimes, recorded>>, run'.usage = run.usage
  PROVE  CopyIsRecorded'
  BY KeptIsSame DEF Inv, CopyIsRecorded, UsesAreUnique, InRecord, RecordedPerms

LEMMA FailedStep ==
  ASSUME Inv, run.pc \in Calls, run' = Failed, faults' \in 0..MaxFaults,
         UNCHANGED <<usage, objectVars, recorded>>, abandoned' \subseteq Names,
         ClusterTypeOK', ListenerTypeOK', hooks' \in [Spaces -> Repos \cup {NoRepo}],
         KeptIsDeployed'
  PROVE  Inv'
<1>1. Copied /\ run.pc \notin {"idle", "addFinalizer", "validate"}
  BY DEF Calls, Copied, PC
<1>2. /\ run' \in RunType /\ run'.pc = "saveUsage" /\ run'.failed
      /\ SameReconcile /\ run'.new = run.new /\ run'.usage = run.usage
  BY <1>1, RunFacts, FailedFacts DEF SameReconcile
<1>3. run'.pc \in PC \ {"idle", "addFinalizer", "validate", "getUsage", "removeFinalizer"}
  BY <1>2 DEF PC
<1>4. RunIsSound'
  <2>1. "saveUsage" \in DeployPCs /\ "saveUsage" \in DeletePCs /\ "saveUsage" \notin Leaving
    BY DEF DeployPCs, DeletePCs, FromValidated, FromUsage, FromProduct, FromProject, FromSpace,
           FromAccount, FromUser, FromRole, FromGranted, FromSynced, FromSaved, Leaving
  <2> QED BY <1>1, <1>2, <1>3, <2>1, GoesOn
<1>5. CopyIsRecorded'
  BY <1>1, <1>2, SameCopy DEF objectVars
<1> QED BY <1>1, <1>2, <1>3, <1>4, <1>5, FailureIsHarmless, CallStep

\* The answer of a call arrives or is lost.
LEMMA AnswerStep ==
  ASSUME Inv, run.pc \in Calls, NEW next, Answer(next),
         UNCHANGED <<usage, objectVars, recorded>>, abandoned' \subseteq Names,
         ClusterTypeOK', ListenerTypeOK', hooks' \in [Spaces -> Repos \cup {NoRepo}],
         KeptIsDeployed',
         run' = next => /\ SameReconcile /\ RunIsSound'
                        /\ run'.pc \in PC \ {"idle", "addFinalizer", "validate", "getUsage",
                                             "removeFinalizer"}
                        /\ Applied(run.rt) => /\ run'.new.account = run.new.account
                                              /\ run'.new.space = run.new.space
                        /\ CopyIsRecorded' /\ TodoIsHarmless' /\ DeploymentProgress'
  PROVE  Inv'
<1>1. faults' \in 0..MaxFaults
  BY FaultFacts DEF Answer
<1>2. CASE run' = next
  <2>1. run.pc \notin {"idle", "addFinalizer", "validate"}
    BY DEF Calls, PC
  <2> QED BY <1>1, <1>2, <2>1, CallStep
<1>3. CASE run' = Failed
  BY <1>1, <1>3, FailedStep
<1> QED BY <1>2, <1>3 DEF Answer

\* Nothing that is kept is touched.
LEMMA KeptStays ==
  ASSUME Inv, UNCHANGED <<runtimes, recorded>>,
         \A r \in Names : \A spec \in Specs :
           Kept(r) /\ SpecOf(r) = spec /\ DeployedAs(r, spec) => DeployedAs(r, spec)'
  PROVE  KeptIsDeployed'
<1> SUFFICES ASSUME NEW r \in Names, Kept(r)' PROVE DeployedAs(r, SpecOf(r))'
  BY DEF KeptIsDeployed
<1>1. Kept(r) /\ SpecOf(r)' = SpecOf(r)
  BY KeptIsSame
<1>2. DeployedAs(r, SpecOf(r))
  BY <1>1 DEF Inv, KeptIsDeployed
<1>3. PICK s \in Specs : s = SpecOf(r)
  BY <1>1, KeptHasSpec DEF Kept
<1>4. DeployedAs(r, s)'
  BY <1>1, <1>2, <1>3
<1> QED BY <1>1, <1>3, <1>4

\* Where the cluster is as it was, so are the deployments.
LEMMA SameCluster ==
  ASSUME Inv, UNCHANGED <<clusterVars, runtimes, left, recorded>>
  PROVE  KeptIsDeployed' /\ ClusterTypeOK'
  BY KeptIsSame
  DEF clusterVars, Inv, RestTyped, ClusterTypeOK, KeptIsDeployed, DeployedAs, Operable,
      HasPerms, HasSpace

LEMMA RestIsTyped ==
  ASSUME Inv
  PROVE  /\ UNCHANGED listenerVars => ListenerTypeOK'
         /\ UNCHANGED hooks => hooks' \in [Spaces -> Repos \cup {NoRepo}]
         /\ UNCHANGED abandoned => abandoned' \subseteq Names
         /\ ListenerTypeOK /\ ClusterTypeOK
         /\ hooks \in [Spaces -> Repos \cup {NoRepo}] /\ abandoned \subseteq Names
  BY DEF Inv, RestTyped, ListenerTypeOK, listenerVars

LEMMA RefuseKeepsInv ==
  ASSUME Inv, run.pc \in Calls, Refuse, UNCHANGED <<objectVars, history>>
  PROVE  Inv'
<1>1. UNCHANGED <<clusterVars, listenerVars, hooks, faults, runtimes, left, recorded, abandoned,
                  usage, objectVars>>
  BY DEF Refuse, objectVars, history, clusterVars
<1> QED BY <1>1, SameCluster, RestIsTyped, FaultFacts, FailedStep DEF Refuse

LEMMA CallFailsKeepsInv ==
  ASSUME Inv, CallFails
  PROVE  Inv'
<1>1. UNCHANGED <<clusterVars, listenerVars, hooks, runtimes, left, recorded, abandoned,
                  usage, objectVars>>
  BY DEF CallFails, objectVars, history, clusterVars
<1> QED BY <1>1, SameCluster, RestIsTyped, FaultFacts, FailedStep DEF CallFails

-----------------------------------------------------------------------------
(* Users. *)

\* A user may change the object of the reconcile in progress, which then is stale.
SameButStale ==
  /\ run' \in RunType /\ run'.pc = run.pc /\ run'.op = run.op /\ run'.rt = run.rt
  /\ run'.spec = run.spec /\ run'.old = run.old /\ run'.new = run.new /\ run'.usage = run.usage
  /\ run'.todo = run.todo /\ run'.failed = run.failed
  /\ run.stale => run'.stale

LEMMA TouchFacts ==
  ASSUME run \in RunType, NEW r, Touch(r)
  PROVE  SameButStale /\ (run.rt = r => run'.stale)
<1>1. (run.stale \/ run.rt = r) \in BOOLEAN
  BY DEF RunType
<1> QED BY <1>1 DEF Touch, RunType, SameButStale

\* A user changes the object of r to o, in a way that keeps its cache.
LEMMA UserStep ==
  ASSUME Inv, UNCHANGED <<clusterVars, listenerVars, hooks, history>>,
         codeRepos' \subseteq Repos, late' \in [rt : Names, spec : Specs] \cup {NoRequest},
         left \subseteq left', left' \subseteq Spaces,
         calm' \in BOOLEAN, edits' \in 0..MaxEdits, faults' \in 0..MaxFaults,
         SameButStale, NEW r \in Names, NEW o \in Runtime, runtimes' = [runtimes EXCEPT ![r] = o],
         o = runtimes[r] \/ (runtimes[r].phase # "deleting" /\ (run.rt = r => run'.stale)),
         o.cache = runtimes[r].cache, runtimes[r].finalizer => o.finalizer,
         o.finalizer => o.phase # "none",
         ~o.finalizer => o.cache = NoCache /\ o.phase # "deleting",
         o.phase # "none" => o.spec \in Specs,
         o.phase = "live" /\ o.applied # NoSpec =>
           runtimes[r].phase = "live" /\ o.applied = runtimes[r].applied,
         o.cache.space # NoSpace => o.cache.space = o.spec.space \/ o.cache.space \in left'
  PROVE  Inv'
<1> USE DEF clusterVars, history
<1>1. /\ runtimes' \in [Names -> Runtime] /\ runtimes'[r] = o
      /\ \A x \in Names \ {r} : runtimes'[x] = runtimes[x]
      /\ \A x \in Names : runtimes'[x].cache = runtimes[x].cache
  BY DEF Inv, RestTyped
<1>2. \A x \in Names : /\ Applied(x)' => Applied(x) /\ SpecOf(x)' = SpecOf(x)
                       /\ Kept(x)' => Kept(x) /\ SpecOf(x)' = SpecOf(x)
  BY <1>1 DEF Kept, Applied, SpecOf
<1>3. RestTyped'
  BY <1>1, RestIsTyped DEF Inv, RestTyped, ClusterTypeOK
<1>4. RunIsSound'
  BY DEF Inv, RunIsSound, SameButStale, Deploying, Deleting
<1>5. ObjectIsRead'
  BY <1>1 DEF Inv, ObjectIsRead, SameButStale, Deleting
<1>6. UnheldIsNew'
  BY <1>1 DEF Inv, UnheldIsNew
<1>7. AppliedIsKnown'
  BY <1>1, <1>2 DEF Inv, AppliedIsKnown, SameButStale
<1>8. MovedIsLeft'
  BY <1>1 DEF Inv, MovedIsLeft
<1>9. SharedIsLeft'
  BY <1>1, <1>2 DEF Inv, SharedIsLeft
<1>10. ValidatedIsLeft'
  BY <1>1 DEF Inv, ValidatedIsLeft, SameButStale, Deploying
<1>11. KeptIsRecorded'
  BY <1>2 DEF Inv, KeptIsRecorded, UsesAreUnique, InRecord, RecordedPerms, Kept
<1>12. KeptIsDeployed'
  BY <1>2 DEF Inv, KeptIsDeployed, DeployedAs, Operable, HasPerms, HasSpace, Kept
<1>13. CopyIsRecorded'
  BY <1>2
  DEF Inv, CopyIsRecorded, Copied, UsesAreUnique, InRecord, RecordedPerms, SameButStale, Kept
<1>14. TodoIsHarmless'
  BY <1>2 DEF Inv, TodoIsHarmless, At, SameButStale, Kept
<1>15. DeploymentProgress'
  BY DEF Inv, DeploymentProgress, At, SameButStale, Deploying, Operable, HasPerms,
         InRecord, RecordedPerms
<1> QED BY <1>3, <1>4, <1>5, <1>6, <1>7, <1>8, <1>9, <1>10, <1>11, <1>12, <1>13, <1>14, <1>15
        DEF Inv

\* A user changes nothing of the objects.
LEMMA OtherUserStep ==
  ASSUME Inv, UNCHANGED <<clusterVars, listenerVars, hooks, history, runtimes, left, run>>,
         codeRepos' \subseteq Repos, late' \in [rt : Names, spec : Specs] \cup {NoRequest},
         calm' \in BOOLEAN, edits' \in 0..MaxEdits, faults' \in 0..MaxFaults, NEW r \in Names
  PROVE  Inv'
<1>1. /\ runtimes' = [runtimes EXCEPT ![r] = runtimes[r]] /\ runtimes[r] \in Runtime
      /\ left' \subseteq Spaces /\ left' = left
      /\ UNCHANGED <<clusterVars, listenerVars, hooks, history>>
  BY DEF Inv, RestTyped
<1>2. SameButStale
  BY DEF Inv, RunIsSound, SameButStale
<1>3. /\ runtimes[r].finalizer => runtimes[r].phase # "none"
      /\ ~runtimes[r].finalizer => runtimes[r].cache = NoCache /\ runtimes[r].phase # "deleting"
      /\ runtimes[r].phase # "none" => runtimes[r].spec \in Specs
      /\ runtimes[r].cache.space # NoSpace =>
           runtimes[r].cache.space = runtimes[r].spec.space \/ runtimes[r].cache.space \in left
  BY DEF Inv, UnheldIsNew, MovedIsLeft
<1>4. left \subseteq left'
  BY <1>1
<1> QED BY <1>1, <1>2, <1>3, <1>4, UserStep

LEMMA EditedFacts ==
  ASSUME Inv, Edited
  PROVE  edits' \in 0..MaxEdits /\ calm' \in BOOLEAN
         /\ UNCHANGED <<clusterVars, listenerVars, hooks, history>>
<1>1. calm \in BOOLEAN /\ edits \in 0..MaxEdits
  BY DEF Inv, RestTyped
<1>2. Quiet \in BOOLEAN
  BY DEF Quiet
<1> QED BY <1>1, <1>2, SpecsAssumption DEF Edited

LEMMA WorldIsTyped ==
  ASSUME Inv
  PROVE  /\ codeRepos \subseteq Repos /\ late \in [rt : Names, spec : Specs] \cup {NoRequest}
         /\ left \subseteq Spaces /\ calm \in BOOLEAN /\ edits \in 0..MaxEdits
         /\ runtimes \in [Names -> Runtime] /\ recorded \subseteq Names
         /\ run \in RunType
  BY DEF Inv, RestTyped, RunIsSound

LEMMA WriteKeepsInv ==
  ASSUME Inv, NEW r \in Names, NEW spec \in Specs, Write(r, spec),
         UNCHANGED <<clusterVars, listenerVars, hooks, history, codeRepos>>,
         late' \in [rt : Names, spec : Specs] \cup {NoRequest},
         calm' \in BOOLEAN, edits' \in 0..MaxEdits, faults' \in 0..MaxFaults
  PROVE  Inv'
<1> DEFINE old == runtimes[r]
           o == IF old.phase = "none" THEN [NoRuntime EXCEPT !.phase = "live", !.spec = spec]
                ELSE [old EXCEPT !.spec = spec]
<1>1. old \in Runtime /\ old.phase \in {"none", "live"}
  BY WorldIsTyped DEF Write, Runtime
<1>2. runtimes' = [runtimes EXCEPT ![r] = o] /\ Touch(r)
  BY DEF Write
<1>3. /\ old.finalizer => old.phase # "none"
      /\ ~old.finalizer => old.cache = NoCache
      /\ old.phase # "none" => old.spec \in Specs
      /\ old.cache.space # NoSpace => old.cache.space = old.spec.space \/ old.cache.space \in left
  BY DEF Inv, UnheldIsNew, MovedIsLeft
<1>4. /\ o \in Runtime /\ o.phase = "live" /\ o.spec = spec
      /\ o.cache = old.cache /\ o.finalizer = old.finalizer
      /\ o.applied # NoSpec => old.phase = "live" /\ o.applied = old.applied
  <2>1. CASE old.phase = "none"
    <3>1. [NoRuntime EXCEPT !.phase = "live", !.spec = spec] \in Runtime
      BY ConstantFacts DEF Runtime
    <3> QED BY <1>1, <1>3, <2>1, <3>1, ConstantFacts DEF Runtime
  <2>2. CASE old.phase = "live"
    BY <1>1, <2>2 DEF Runtime
  <2> QED BY <1>1, <2>1, <2>2
<1>5. /\ left \subseteq left' /\ left' \subseteq Spaces
      /\ old.phase = "live" /\ old.spec.space # spec.space => old.spec.space \in left'
  BY <1>3, WorldIsTyped, ConstantFacts DEF Write
<1>6. old.cache.space # NoSpace => old.cache.space = spec.space \/ old.cache.space \in left'
  <2>1. CASE old.phase = "none"
    BY <1>3, <2>1, ConstantFacts
  <2>2. CASE old.phase = "live"
    BY <1>3, <1>5, <2>2
  <2> QED BY <1>1, <2>1, <2>2
<1>7. SameButStale /\ (run.rt = r => run'.stale)
  BY <1>2, TouchFacts, WorldIsTyped
<1>8. old.phase # "deleting"
  BY <1>1
<1>9. codeRepos' \subseteq Repos
  BY WorldIsTyped
<1> HIDE DEF o
<1>10. /\ runtimes[r].finalizer => o.finalizer
       /\ o.finalizer => o.phase # "none"
       /\ ~o.finalizer => o.cache = NoCache /\ o.phase # "deleting"
       /\ o.cache.space # NoSpace => o.cache.space = o.spec.space \/ o.cache.space \in left'
  BY <1>3, <1>4, <1>6
<1> QED BY <1>2, <1>4, <1>5, <1>7, <1>8, <1>9, <1>10, UserStep

LEMMA DeleteRuntimeKeepsInv ==
  ASSUME Inv, NEW r \in Names, DeleteRuntime(r)
  PROVE  Inv'
<1> DEFINE old == runtimes[r]
           o == IF old.finalizer THEN [old EXCEPT !.phase = "deleting"] ELSE NoRuntime
<1>1. old \in Runtime /\ old.phase = "live"
  BY WorldIsTyped DEF DeleteRuntime
<1>2. runtimes' = [runtimes EXCEPT ![r] = o] /\ Touch(r) /\ Edited
      /\ UNCHANGED <<codeRepos, late, left, faults>>
  BY DEF DeleteRuntime
<1>3. /\ ~old.finalizer => old.cache = NoCache
      /\ old.phase # "none" => old.spec \in Specs
      /\ old.cache.space # NoSpace => old.cache.space = old.spec.space \/ old.cache.space \in left
  BY DEF Inv, UnheldIsNew, MovedIsLeft
<1>4. /\ o \in Runtime /\ o.phase # "live" /\ o.cache = old.cache
      /\ o.finalizer => o.phase = "deleting" /\ o.spec = old.spec
      /\ o.finalizer = old.finalizer /\ (~o.finalizer => o.phase = "none" /\ o.cache = NoCache)
  BY <1>1, <1>3, ConstantFacts DEF Runtime
<1>5. SameButStale /\ (run.rt = r => run'.stale)
  BY <1>2, TouchFacts, WorldIsTyped
<1>6. edits' \in 0..MaxEdits /\ calm' \in BOOLEAN
      /\ UNCHANGED <<clusterVars, listenerVars, hooks, history>>
  BY <1>2, EditedFacts
<1>7. /\ codeRepos' \subseteq Repos /\ late' \in [rt : Names, spec : Specs] \cup {NoRequest}
      /\ left' \subseteq Spaces /\ left \subseteq left' /\ faults' \in 0..MaxFaults
  BY <1>2, WorldIsTyped, FaultFacts
<1> HIDE DEF o
<1>8. /\ runtimes[r].phase # "deleting" /\ (run.rt = r => run'.stale)
      /\ o.cache = runtimes[r].cache /\ (runtimes[r].finalizer => o.finalizer)
      /\ o.finalizer => o.phase # "none"
      /\ ~o.finalizer => o.cache = NoCache /\ o.phase # "deleting"
      /\ o.phase # "none" => o.spec \in Specs
      /\ o.phase = "live" /\ o.applied # NoSpec =>
           runtimes[r].phase = "live" /\ o.applied = runtimes[r].applied
      /\ o.cache.space # NoSpace => o.cache.space = o.spec.space \/ o.cache.space \in left'
  BY <1>1, <1>2, <1>3, <1>4, <1>5, ConstantFacts
<1> QED BY <1>2, <1>4, <1>5, <1>6, <1>7, <1>8, UserStep

LEMMA UserKeepsInv ==
  ASSUME Inv, User
  PROVE  Inv'
<1>0. \A r \in Names : SpecsOf[r] \subseteq Specs
  BY DEF Specs
<1>1. ASSUME NEW r \in Names, NEW spec \in Specs, Apply(r, spec) PROVE Inv'
  <2>1. Write(r, spec) /\ Edited /\ UNCHANGED <<codeRepos, late, faults>>
    BY <1>1 DEF Apply
  <2> QED BY <2>1, EditedFacts, WorldIsTyped, FaultFacts, WriteKeepsInv
<1>2. ASSUME NEW r \in Names, NEW spec \in Specs, Admit(r, spec) PROVE Inv'
  <2>1. /\ late' = [rt |-> r, spec |-> spec] /\ Fault /\ Edited
        /\ UNCHANGED <<codeRepos, runtimes, left, run>>
    BY <1>2 DEF Admit, Fault
  <2>2. late' \in [rt : Names, spec : Specs] \cup {NoRequest}
    BY <2>1
  <2> QED BY <2>1, <2>2, EditedFacts, WorldIsTyped, FaultFacts, OtherUserStep
<1>3. CASE WriteLate
  <2>1. late # NoRequest /\ late' = NoRequest
        /\ UNCHANGED <<clusterVars, listenerVars, hooks, codeRepos, history, calm, edits, faults>>
    BY <1>3 DEF WriteLate
  <2>2. late.rt \in Names /\ late.spec \in Specs
    BY <2>1, WorldIsTyped
  <2>3. CASE UNCHANGED <<runtimes, left, run>>
    BY <2>1, <2>2, <2>3, WorldIsTyped, FaultFacts, OtherUserStep
  <2>4. CASE Write(late.rt, late.spec)
    BY <2>1, <2>2, <2>4, WorldIsTyped, FaultFacts, WriteKeepsInv
  <2> QED BY <1>3, <2>3, <2>4 DEF WriteLate
<1>4. ASSUME NEW p \in Repos, DeleteCodeRepo(p) PROVE Inv'
  <2>1. /\ \E r \in Names : p \in gitlab[r].repos
        /\ codeRepos' = codeRepos \ {p} /\ Edited
        /\ UNCHANGED <<runtimes, late, left, run, faults>>
    BY <1>4 DEF DeleteCodeRepo
  <2>2. PICK r \in Names : p \in gitlab[r].repos
    BY <2>1
  <2> QED BY <2>1, EditedFacts, WorldIsTyped, FaultFacts, OtherUserStep
<1> QED BY <1>0, <1>1, <1>2, <1>3, <1>4, DeleteRuntimeKeepsInv DEF User

-----------------------------------------------------------------------------
(* The steps around the calls. *)

LEMMA InitInv == Init => Inv
<1> SUFFICES ASSUME Init PROVE Inv
  OBVIOUS
<1>1. run = Idle /\ run \in RunType /\ run.pc = "idle" /\ run.rt = NoName /\ run.op = "none"
      /\ NoName \notin Names
  BY IdleFacts DEF Init
<1>2. \A r \in Names : runtimes[r].phase = "none" /\ ~runtimes[r].finalizer
                       /\ runtimes[r].cache = NoCache
  BY ConstantFacts DEF Init
<1>3. RestTyped
  <2>1. NoRole \in Role /\ EmptyUsage(FALSE) \in Usage /\ NoRuntime \in Runtime
        /\ NoSource \in [exists : BOOLEAN, repos : SUBSET Repos]
    BY ConstantFacts DEF NoRole, Role, NoSource
  <2>2. 0 \in 0..MaxEdits /\ MaxFaults \in 0..MaxFaults
    BY SpecsAssumption
  <2>3. ClusterTypeOK
    BY <2>1 DEF Init, ClusterInit, ClusterTypeOK
  <2>4. ListenerTypeOK
    BY <2>1 DEF Init, ListenerInit, ListenerTypeOK
  <2> QED BY <2>1, <2>2, <2>3, <2>4 DEF Init, RestTyped
<1>4. RunIsSound
  BY <1>1 DEF RunIsSound, Leaving
<1>5. \A r \in Names : ~Applied(r) /\ ~Kept(r)
  BY <1>2 DEF Applied, Kept
<1>6. ObjectIsRead /\ UnheldIsNew
  BY <1>1, <1>2 DEF ObjectIsRead, UnheldIsNew
<1>7. AppliedIsKnown /\ MovedIsLeft /\ SharedIsLeft /\ ValidatedIsLeft
  BY <1>1, <1>2, <1>5, ConstantFacts
  DEF AppliedIsKnown, MovedIsLeft, SharedIsLeft, ValidatedIsLeft, Deploying
<1>8. KeptIsDeployed /\ CopyIsRecorded /\ TodoIsHarmless /\ DeploymentProgress
  BY <1>1, <1>5
  DEF KeptIsDeployed, CopyIsRecorded, Copied, TodoIsHarmless, DeploymentProgress, Deploying
<1>9. KeptIsRecorded
  BY <1>5 DEF Init, ClusterInit, EmptyUsage, KeptIsRecorded, UsesAreUnique
<1> QED BY <1>3, <1>4, <1>6, <1>7, <1>8, <1>9 DEF Inv

\* A step outside the calls, which may change the object of r to o: what it does
\* not leave as it was is not applied, and names no space.
LEMMA OutsideStep ==
  ASSUME Inv, faults' \in 0..MaxFaults, abandoned' \subseteq Names,
         UNCHANGED <<clusterVars, listenerVars, hooks, codeRepos, late, left, calm, edits,
                     recorded>>,
         NEW r \in Names, NEW o \in Runtime, runtimes' = [runtimes EXCEPT ![r] = o],
         RunIsSound', ObjectIsRead', ValidatedIsLeft',
         run'.pc \in {"idle", "addFinalizer", "validate", "getUsage", "removeFinalizer"},
         o.finalizer => o.phase # "none",
         ~o.finalizer => o.cache = NoCache /\ o.phase # "deleting",
         o.phase # "none" => o.spec \in Specs,
         o.cache = NoCache \/ (o.cache = runtimes[r].cache /\ o.spec = runtimes[r].spec),
         o.phase = "live" /\ o.applied # NoSpec =>
           Applied(r) /\ o.applied = SpecOf(r) /\ o.cache = runtimes[r].cache,
         \A x \in Names : run'.rt = x /\ Applied(x)' =>
           /\ SpecOf(x)' = run'.spec
           /\ run'.new.account = run'.spec.account /\ run'.new.space = run'.spec.space
  PROVE  Inv'
<1> USE DEF clusterVars
<1>1. /\ runtimes' \in [Names -> Runtime] /\ runtimes'[r] = o
      /\ \A x \in Names \ {r} : runtimes'[x] = runtimes[x]
  BY DEF Inv, RestTyped
<1>2. \A x \in Names : /\ Applied(x)' => Applied(x) /\ SpecOf(x)' = SpecOf(x)
                                         /\ runtimes'[x].cache = runtimes[x].cache
                       /\ Kept(x)' => Kept(x) /\ SpecOf(x)' = SpecOf(x)
  BY <1>1 DEF Kept, Applied, SpecOf
<1>3. \A x \in Names : \/ runtimes'[x].cache = NoCache
                       \/ /\ runtimes'[x].cache = runtimes[x].cache
                          /\ runtimes'[x].spec = runtimes[x].spec
  BY <1>1
<1>4. RestTyped'
  BY <1>1, RestIsTyped DEF Inv, RestTyped, ClusterTypeOK
<1>5. UnheldIsNew'
  BY <1>1 DEF Inv, UnheldIsNew
<1>6. AppliedIsKnown'
  <2>1. \A x \in Names : Applied(x)' => /\ runtimes'[x].cache.account = SpecOf(x)'.account
                                        /\ runtimes'[x].cache.space = SpecOf(x)'.space
    BY <1>2 DEF Inv, AppliedIsKnown
  <2> QED BY <2>1 DEF AppliedIsKnown, SpecOf, Applied
<1>7. MovedIsLeft'
  BY <1>3, ConstantFacts DEF Inv, MovedIsLeft
<1>8. SharedIsLeft'
  <2> SUFFICES ASSUME NEW x \in Names, NEW q \in Names, Kept(x)', q # x,
                      runtimes'[q].cache.space = SpecOf(x)'.space
               PROVE  SpecOf(x)'.space \in left'
    BY DEF SharedIsLeft
  <2>1. Kept(x) /\ SpecOf(x)' = SpecOf(x) /\ SpecOf(x) \in Specs
    BY <1>2, KeptHasSpec DEF Kept
  <2>2. runtimes'[q].cache.space # NoSpace
    BY <2>1, ConstantFacts
  <2>3. runtimes'[q].cache = runtimes[q].cache
    BY <1>3, <2>2, ConstantFacts
  <2> QED BY <2>1, <2>3 DEF Inv, SharedIsLeft
<1>9. KeptIsRecorded'
  BY <1>2 DEF Inv, KeptIsRecorded, UsesAreUnique, InRecord, RecordedPerms
<1>10. KeptIsDeployed'
  BY <1>2 DEF Inv, KeptIsDeployed, DeployedAs, Operable, HasPerms, HasSpace
<1>11. CopyIsRecorded' /\ TodoIsHarmless'
  BY DEF CopyIsRecorded, Copied, TodoIsHarmless, At, Ending
<1>12. DeploymentProgress'
  BY DEF DeploymentProgress, At, FromUsage, FromProduct, FromProject, FromSpace, FromAccount,
         FromUser, FromRole, FromGranted, FromSynced, FromSaved, Leaving, ListeningPCs, Unlistening
<1> QED BY <1>4, <1>5, <1>6, <1>7, <1>8, <1>9, <1>10, <1>11, <1>12 DEF Inv

\* The reconcile ends, or is lost: nothing is in progress.
LEMMA IdleFollows ==
  ASSUME run' = Idle
  PROVE  /\ run' \in RunType /\ run'.pc = "idle" /\ run'.rt = NoName /\ NoName \notin Names
         /\ RunIsSound' /\ ObjectIsRead' /\ ValidatedIsLeft'
         /\ CopyIsRecorded' /\ TodoIsHarmless' /\ DeploymentProgress'
<1>1. run' \in RunType /\ run'.pc = "idle" /\ run'.rt = NoName /\ run'.op = "none"
      /\ NoName \notin Names
  BY IdleFacts
<1>2. RunIsSound' /\ ObjectIsRead' /\ ValidatedIsLeft'
  BY <1>1 DEF RunIsSound, Leaving, ObjectIsRead, ValidatedIsLeft, Deploying
<1>3. CopyIsRecorded' /\ TodoIsHarmless' /\ DeploymentProgress'
  BY <1>1 DEF CopyIsRecorded, Copied, TodoIsHarmless, At, Ending, DeploymentProgress, Deploying
<1> QED BY <1>1, <1>2, <1>3

\* What the invariant says of any one object.
LEMMA ObjectFacts ==
  ASSUME Inv, NEW r \in Names
  PROVE  LET o == runtimes[r] IN
         /\ o \in Runtime
         /\ o.finalizer => o.phase # "none"
         /\ ~o.finalizer => o.cache = NoCache /\ o.phase # "deleting"
         /\ o.phase # "none" => o.spec \in Specs
         /\ o.phase = "live" /\ o.applied # NoSpec => Applied(r) /\ o.applied = SpecOf(r)
  BY DEF Inv, RestTyped, UnheldIsNew, Applied, SpecOf

LEMMA IdleStep ==
  ASSUME Inv, run' = Idle, faults' \in 0..MaxFaults,
         UNCHANGED <<clusterVars, listenerVars, hooks, objectVars, history>>
  PROVE  Inv'
<1> USE DEF objectVars, history
<1>1. /\ run'.pc = "idle" /\ run'.rt \notin Names
      /\ RunIsSound' /\ ObjectIsRead' /\ ValidatedIsLeft'
  BY IdleFollows
<1>2. CASE Names = {}
  <2>1. /\ RestTyped' /\ CopyIsRecorded' /\ TodoIsHarmless' /\ DeploymentProgress'
    BY IdleFollows, RestIsTyped, SameCluster DEF Inv, RestTyped
  <2>2. /\ UnheldIsNew' /\ AppliedIsKnown' /\ MovedIsLeft' /\ SharedIsLeft' /\ KeptIsDeployed'
    BY <1>2, <1>1 DEF UnheldIsNew, AppliedIsKnown, MovedIsLeft, SharedIsLeft, KeptIsDeployed
  <2>3. KeptIsRecorded'
    BY <1>2 DEF Inv, KeptIsRecorded, UsesAreUnique, clusterVars
  <2> QED BY <1>1, <2>1, <2>2, <2>3 DEF Inv
<1>3. CASE Names # {}
  <2>1. PICK r \in Names : TRUE
    BY <1>3
  <2>2. PICK o \in Runtime : o = runtimes[r]
    BY ObjectFacts
  <2>3. runtimes' = [runtimes EXCEPT ![r] = o]
    BY <2>2, WorldIsTyped
  <2>4. abandoned' \subseteq Names
    BY RestIsTyped
  <2> QED BY <1>1, <2>2, <2>3, <2>4, ObjectFacts, OutsideStep
<1> QED BY <1>2, <1>3

LEMMA CrashKeepsInv ==
  ASSUME Inv, Crash
  PROVE  Inv'
  BY FaultFacts, IdleStep DEF Crash

LEMMA ReconcileKeepsInv ==
  ASSUME Inv, NEW r \in Names, Reconcile(r)
  PROVE  Inv'
<1> DEFINE old == runtimes[r]
           o == [old EXCEPT !.applied = IF @ = old.spec THEN @ ELSE NoSpec]
<1>1. /\ old \in Runtime /\ old.phase \in {"live", "deleting"} /\ old.spec \in Specs
      /\ old.cache \in Cache /\ old.finalizer \in BOOLEAN
      /\ ~old.finalizer => old.cache = NoCache /\ old.phase # "deleting"
      /\ old.phase = "live" /\ old.applied # NoSpec => Applied(r) /\ old.applied = SpecOf(r)
  BY ObjectFacts DEF Reconcile, Runtime
<1>2. /\ run'.rt = r
      /\ run'.pc = CASE ~old.finalizer -> "addFinalizer"
                     [] old.finalizer /\ old.phase = "live" -> "validate"
                     [] OTHER -> "getUsage"
      /\ run'.op = IF old.phase = "live" THEN "deploy" ELSE "delete"
      /\ run'.spec = old.spec /\ run'.old = old.cache /\ run'.new = old.cache
      /\ run' \in RunType
  <2>1. Idle \in RunType
    BY IdleFacts
  <2>2. "getUsage" \in PC /\ "addFinalizer" \in PC /\ "validate" \in PC
    BY DEF PC
  <2>3. codeRepos \subseteq Repos
    BY WorldIsTyped
  <2> QED BY <1>1, <2>1, <2>2, <2>3 DEF Reconcile, Live, Idle, RunType
<1>3. \/ run'.op = "deploy" /\ run'.pc \in {"addFinalizer", "validate"} /\ old.phase = "live"
      \/ run'.op = "delete" /\ run'.pc = "getUsage" /\ old.phase = "deleting" /\ old.finalizer
  BY <1>1, <1>2
<1>4. ~old.finalizer => run'.pc = "addFinalizer"
  BY <1>2
<1>5. RunIsSound'
  <2>1. run'.pc \notin Leaving /\ run'.pc # "idle" /\ run'.rt # NoName
    BY <1>2, <1>3, IdleFacts DEF Leaving
  <2>2. \/ Deploying' /\ run'.pc \in DeployPCs
        \/ Deleting' /\ run'.pc \in DeletePCs
    BY <1>3 DEF Deploying, Deleting, DeployPCs, DeletePCs
  <2> QED BY <1>1, <1>2, <2>1, <2>2 DEF RunIsSound
<1>6. /\ o \in Runtime /\ o.phase = old.phase /\ o.spec = old.spec /\ o.cache = old.cache
      /\ o.finalizer = old.finalizer
      /\ o.applied # NoSpec => o.applied = old.applied /\ o.applied = old.spec
  BY <1>1 DEF Runtime
<1>7. runtimes' = [runtimes EXCEPT ![r] = o]
  BY DEF Reconcile
<1> HIDE DEF o
<1>8. runtimes'[r] = o
  BY <1>6, <1>7, WorldIsTyped
<1>9. ObjectIsRead'
  BY <1>2, <1>3, <1>4, <1>6, <1>8, <1>1 DEF ObjectIsRead, Deleting
<1>10. ValidatedIsLeft'
  <2>1. run'.pc \in {"addFinalizer", "validate"} => run'.pc \notin FromValidated
    BY DEF FromValidated, FromUsage, FromProduct, FromProject, FromSpace, FromAccount,
         FromUser, FromRole, FromGranted, FromSynced, FromSaved, Leaving, ListeningPCs, Unlistening
  <2> QED BY <1>3, <2>1 DEF ValidatedIsLeft, Deploying
<1>11. o.phase = "live" /\ o.applied # NoSpec =>
         Applied(r) /\ o.applied = SpecOf(r) /\ o.applied = old.spec /\ o.cache = old.cache
  BY <1>1, <1>6
<1>12. Applied(r)' =>
        /\ SpecOf(r)' = run'.spec
        /\ run'.new.account = run'.spec.account /\ run'.new.space = run'.spec.space
  <2> SUFFICES ASSUME Applied(r)'
               PROVE  /\ SpecOf(r)' = run'.spec
                      /\ run'.new.account = run'.spec.account /\ run'.new.space = run'.spec.space
    OBVIOUS
  <2>1. o.phase = "live" /\ o.applied # NoSpec /\ SpecOf(r)' = o.applied
    BY <1>8 DEF Applied, SpecOf
  <2>2. old.cache.account = SpecOf(r).account /\ old.cache.space = SpecOf(r).space
    BY <1>11, <2>1 DEF Inv, AppliedIsKnown
  <2> QED BY <1>2, <1>11, <2>1, <2>2
<1>13. /\ UNCHANGED <<clusterVars, listenerVars, hooks, codeRepos, late, left, calm, edits,
                      recorded>>
       /\ faults' \in 0..MaxFaults /\ abandoned' \subseteq Names
  BY FaultFacts, RestIsTyped DEF Reconcile, history
<1>14. run'.pc \in {"idle", "addFinalizer", "validate", "getUsage", "removeFinalizer"}
  BY <1>3
<1>15. /\ o.finalizer => o.phase # "none"
       /\ ~o.finalizer => o.cache = NoCache /\ o.phase # "deleting"
       /\ o.phase # "none" => o.spec \in Specs
       /\ o.cache = runtimes[r].cache /\ o.spec = runtimes[r].spec
  BY <1>1, <1>6
<1> QED BY <1>2, <1>5, <1>6, <1>7, <1>9, <1>10, <1>11, <1>12, <1>13, <1>14, <1>15, OutsideStep

LEMMA AddFinalizerKeepsInv ==
  ASSUME Inv, AddFinalizer
  PROVE  Inv'
<1>1. run.pc = "addFinalizer" /\ run.rt \in Names
  BY RunFacts DEF AddFinalizer, At
<1>2. CASE run' = Idle /\ UNCHANGED runtimes
  BY <1>2, FaultFacts, IdleStep DEF AddFinalizer, objectVars
<1>3. CASE /\ ~run.stale /\ runtimes' = [runtimes EXCEPT ![run.rt].finalizer = TRUE]
           /\ run' = GoTo("validate") /\ UNCHANGED faults
  <2>1. PICK r \in Names : r = run.rt
    BY <1>1
  <2> DEFINE o == [runtimes[r] EXCEPT !.finalizer = TRUE]
  <2>2. /\ o \in Runtime /\ o.phase = runtimes[r].phase /\ o.spec = runtimes[r].spec
        /\ o.cache = runtimes[r].cache /\ o.applied = runtimes[r].applied /\ o.finalizer
    BY <2>1, WorldIsTyped DEF Runtime
  <2>3. runtimes' = [runtimes EXCEPT ![r] = o]
    BY <1>3, <2>1
  <2> HIDE DEF o
  <2>4. runtimes'[r] = o
    BY <2>2, <2>3, WorldIsTyped
  <2>5. /\ run' \in RunType /\ run'.pc = "validate" /\ SameReconcile /\ run'.new = run.new
    BY <1>3, WorldIsTyped DEF SameReconcile, GoTo, RunType, PC
  <2>6. RunIsSound'
    BY <1>1, <2>5, SpecsAssumption
    DEF Inv, RunIsSound, SameReconcile, Deploying, Deleting, DeployPCs, DeletePCs, Leaving,
        Unlistening, Ending
  <2>7. ObjectIsRead'
    BY <1>1, <1>3, <2>1, <2>2, <2>4, <2>5 DEF Inv, ObjectIsRead, SameReconcile, Deleting
  <2>8. ValidatedIsLeft'
    BY <2>5
    DEF ValidatedIsLeft, FromValidated, FromUsage, FromProduct, FromProject, FromSpace,
        FromAccount, FromUser, FromRole, FromGranted, FromSynced, FromSaved, Leaving,
        ListeningPCs, Unlistening
  <2>9. /\ o.phase # "none"
        /\ o.spec \in Specs
        /\ o.phase = "live" /\ o.applied # NoSpec => Applied(r) /\ o.applied = SpecOf(r)
    BY <1>1, <1>3, <2>1, <2>2, ObjectFacts DEF Inv, ObjectIsRead
  <2>10. Applied(r)' =>
           /\ SpecOf(r)' = run'.spec
           /\ run'.new.account = run'.spec.account /\ run'.new.space = run'.spec.space
    <3>1. Applied(r)' => Applied(r) /\ SpecOf(r)' = SpecOf(r)
      BY <2>4, <2>9 DEF Applied, SpecOf
    <3> QED BY <1>1, <2>1, <2>5, <3>1, RunFacts DEF SameReconcile
  <2>11. /\ run'.rt = r
         /\ faults' \in 0..MaxFaults /\ abandoned' \subseteq Names
         /\ UNCHANGED <<clusterVars, listenerVars, hooks, codeRepos, late, left, calm, edits,
                        recorded>>
    BY <1>3, <2>1, <2>5, FaultFacts, RestIsTyped DEF AddFinalizer, history, SameReconcile
  <2>12. /\ o.finalizer => o.phase # "none"
         /\ ~o.finalizer => o.cache = NoCache /\ o.phase # "deleting"
         /\ o.phase # "none" => o.spec \in Specs
         /\ o.cache = runtimes[r].cache /\ o.spec = runtimes[r].spec
         /\ o.phase = "live" /\ o.applied # NoSpec =>
              Applied(r) /\ o.applied = SpecOf(r) /\ o.cache = runtimes[r].cache
    BY <2>2, <2>9
  <2>13. o \in Runtime /\ run'.pc = "validate"
    BY <2>2, <2>5
  <2> QED BY <2>3, <2>6, <2>7, <2>8, <2>10, <2>11, <2>12, <2>13, OutsideStep
<1> QED BY <1>2, <1>3 DEF AddFinalizer, Me

\* A space that passes the validation, and that another cache names, is one the
\* other runtime was moved out of.
LEMMA ValidateKeepsInv ==
  ASSUME Inv, Validate
  PROVE  Inv'
<1>1. /\ run.pc = "validate" /\ run.rt \in Names /\ run.spec \in Specs /\ run \in RunType
      /\ UNCHANGED <<clusterVars, listenerVars, hooks, objectVars, history, faults>>
  BY RunFacts DEF Validate, At
<1>2. CASE run' = Idle
  BY <1>1, <1>2, FaultFacts, IdleStep
<1>3. CASE ~Conflicts(run.rt, run.spec) /\ run' = GoTo("getUsage")
  <2>1. PICK r \in Names : r = run.rt
    BY <1>1
  <2>2. PICK o \in Runtime : o = runtimes[r]
    BY ObjectFacts
  <2>3. runtimes' = [runtimes EXCEPT ![r] = o]
    BY <1>1, <2>2, WorldIsTyped DEF objectVars
  <2>4. /\ run' \in RunType /\ run'.pc = "getUsage" /\ SameReconcile /\ run'.new = run.new
    BY <1>1, <1>3 DEF SameReconcile, GoTo, RunType, PC
  <2>5. RunIsSound'
    BY <1>1, <2>4
    DEF Inv, RunIsSound, SameReconcile, Deploying, Deleting, DeployPCs, FromValidated, DeletePCs,
        Leaving
  <2>6. ObjectIsRead'
    BY <1>1, <2>4 DEF Inv, ObjectIsRead, SameReconcile, Deleting, objectVars
  <2>7. ValidatedIsLeft'
    <3> SUFFICES ASSUME NEW q \in Names \ {run.rt}, runtimes[q].cache.space = run.spec.space
                 PROVE  run.spec.space \in left
      BY <1>1, <2>4 DEF ValidatedIsLeft, SameReconcile, objectVars
    <3>1. runtimes[q].cache.space # NoSpace
      BY <1>1, ConstantFacts
    <3>2. runtimes[q].phase # "none"
      BY <3>1, ObjectFacts, ConstantFacts
    <3>3. runtimes[q].spec.space # run.spec.space
      BY <1>3, <3>2 DEF Conflicts
    <3> QED BY <3>1, <3>3 DEF Inv, MovedIsLeft
  <2>8. Applied(r)' =>
           /\ SpecOf(r)' = run'.spec
           /\ run'.new.account = run'.spec.account /\ run'.new.space = run'.spec.space
    BY <1>1, <2>1, <2>4, RunFacts DEF SameReconcile, objectVars, Applied, SpecOf
  <2>9. /\ run'.rt = r
        /\ faults' \in 0..MaxFaults /\ abandoned' \subseteq Names
        /\ UNCHANGED <<clusterVars, listenerVars, hooks, codeRepos, late, left, calm, edits,
                       recorded>>
    BY <1>1, <2>1, <2>4, FaultFacts, RestIsTyped DEF history, objectVars, SameReconcile
  <2>10. /\ o.cache = runtimes[r].cache /\ o.spec = runtimes[r].spec
         /\ o.finalizer => o.phase # "none"
         /\ ~o.finalizer => o.cache = NoCache /\ o.phase # "deleting"
         /\ o.phase # "none" => o.spec \in Specs
         /\ o.phase = "live" /\ o.applied # NoSpec => Applied(r) /\ o.applied = SpecOf(r)
    BY <2>2, ObjectFacts
  <2> QED BY <2>2, <2>3, <2>4, <2>5, <2>6, <2>7, <2>8, <2>9, <2>10, OutsideStep
<1> QED BY <1>2, <1>3 DEF Validate, Me

LEMMA RemoveFinalizerKeepsInv ==
  ASSUME Inv, RemoveFinalizer
  PROVE  Inv'
<1>1. run.pc = "removeFinalizer" /\ run.rt \in Names /\ run' = Idle
  BY RunFacts DEF RemoveFinalizer, At
<1>2. CASE UNCHANGED <<runtimes, abandoned>> /\ Fault
  BY <1>1, <1>2, FaultFacts, IdleStep DEF RemoveFinalizer, objectVars, history
<1>3. CASE /\ runtimes' = [runtimes EXCEPT ![run.rt] = NoRuntime] /\ UNCHANGED faults
           /\ abandoned' = IF run.spec.app THEN abandoned \cup {run.rt} ELSE abandoned
  <2>1. PICK r \in Names : r = run.rt
    BY <1>1
  <2>2. /\ NoRuntime \in Runtime /\ NoRuntime.phase = "none" /\ NoRuntime.cache = NoCache
        /\ ~NoRuntime.finalizer
    BY ConstantFacts
  <2>3. /\ run'.pc = "idle" /\ run'.rt \notin Names
        /\ RunIsSound' /\ ObjectIsRead' /\ ValidatedIsLeft'
    BY <1>1, IdleFollows
  <2>4. /\ UNCHANGED <<clusterVars, listenerVars, hooks, codeRepos, late, left, calm, edits,
                       recorded>>
        /\ faults' \in 0..MaxFaults /\ abandoned' \subseteq Names
    BY <1>1, <1>3, FaultFacts, RestIsTyped DEF RemoveFinalizer
  <2> QED BY <1>3, <2>1, <2>2, <2>3, <2>4, OutsideStep
<1> QED BY <1>2, <1>3 DEF RemoveFinalizer, Me

LEMMA GetUsageKeepsInv ==
  ASSUME Inv, GetUsage
  PROVE  Inv'
<1>1. run.pc = "getUsage" /\ faults' \in 0..MaxFaults
      /\ UNCHANGED <<clusterVars, listenerVars, hooks, objectVars, history>>
  BY FaultFacts DEF GetUsage, At
<1>2. /\ run \in RunType /\ run.rt \in Names
      /\ Deleting => ~Applied(run.rt)
  BY <1>1, RunFacts
<1>3. usage \in Usage /\ cached \in [Names -> SUBSET Kinds]
  BY DEF Inv, RestTyped, ClusterTypeOK, ListenerTypeOK
<1>4. UsesAreUnique(usage) /\ \A r \in Names : Kept(r) => InRecord(usage, r, SpecOf(r))
  BY DEF Inv, KeptIsRecorded
<1>5. /\ run.pc \notin {"idle", "addFinalizer", "validate"} /\ run.pc # "idle"
      /\ UNCHANGED <<usage, objectVars, recorded, runtimes>> /\ abandoned' \subseteq Names
      /\ ClusterTypeOK' /\ ListenerTypeOK' /\ hooks' \in [Spaces -> Repos \cup {NoRepo}]
      /\ KeptIsDeployed'
  BY <1>1, RestIsTyped, SameCluster DEF clusterVars, history, objectVars
<1>6. CASE Deploying /\ run' = [run EXCEPT !.pc = "createProduct",
                                           !.usage = [usage EXCEPT !.runtimes = @ \cup {run.rt}]]
  <2> DEFINE u == [usage EXCEPT !.runtimes = @ \cup {run.rt}]
  <2>1. u \in Usage /\ u.runtimes = usage.runtimes \cup {run.rt} /\ u.account = usage.account
    BY <1>2, <1>3 DEF Usage
  <2>2. run' = [run EXCEPT !.pc = "createProduct", !.usage = u]
    BY <1>6
  <2> HIDE DEF u
  <2>3. "createProduct" \in PC \ {"idle", "addFinalizer", "validate"}
    BY DEF PC
  <2>4. /\ run' \in RunType /\ SameReconcile /\ run'.pc = "createProduct" /\ run'.usage = u
        /\ run'.new = run.new /\ run'.failed = run.failed /\ run'.todo = run.todo
    BY <1>2, <2>1, <2>2, <2>3 DEF RunType, SameReconcile
  <2>5. RunIsSound'
    BY <1>5, <1>6, <2>3, <2>4, GoesOn
    DEF DeployPCs, FromValidated, FromUsage, Leaving, Deploying, Deleting
  <2>6. CopyIsRecorded'
    BY <1>4, <1>5, <2>1, <2>4, KeptIsSame
    DEF CopyIsRecorded, UsesAreUnique, InRecord, RecordedPerms
  <2>7. TodoIsHarmless'
    BY <2>4 DEF TodoIsHarmless, At, Ending
  <2>8. DeploymentProgress'
    BY <2>1, <2>4
    DEF DeploymentProgress, At, SameReconcile, FromUsage, FromProduct, FromProject, FromSpace,
        FromAccount, FromUser, FromRole, FromGranted, FromSynced, FromSaved, Leaving,
        ListeningPCs, Unlistening
  <2> QED BY <1>1, <1>5, <2>3, <2>4, <2>5, <2>6, <2>7, <2>8, CallStep
<1>7. CASE Deleting /\ run' = [run EXCEPT !.pc = "unlisten",
                                 !.usage = [usage EXCEPT !.runtimes = @ \ {run.rt}],
                                 !.kinds = IF run.old.id THEN cached[run.rt] ELSE {}]
  <2> DEFINE u == [usage EXCEPT !.runtimes = @ \ {run.rt}]
             k == IF run.old.id THEN cached[run.rt] ELSE {}
  <2>1. /\ u \in Usage /\ u.runtimes = usage.runtimes \ {run.rt} /\ u.account = usage.account
        /\ k \subseteq Kinds
    BY <1>2, <1>3 DEF Usage
  <2>2. run' = [run EXCEPT !.pc = "unlisten", !.usage = u, !.kinds = k]
    BY <1>7
  <2> HIDE DEF u, k
  <2>3. "unlisten" \in PC \ {"idle", "addFinalizer", "validate"}
    BY DEF PC
  <2>4. /\ run' \in RunType /\ SameReconcile /\ run'.pc = "unlisten" /\ run'.usage = u
        /\ run'.new = run.new
    BY <1>2, <2>1, <2>2, <2>3 DEF RunType, SameReconcile
  <2>5. RunIsSound'
    BY <1>5, <1>7, <2>3, <2>4, GoesOn DEF DeletePCs, Unlistening, Leaving, Deploying, Deleting
  <2>6. CopyIsRecorded'
    <3>1. \A r \in Names : Kept(r) => r # run.rt
      BY <1>2, <1>7 DEF Kept
    <3>2. UsesAreUnique(u)
      BY <1>4, <2>1 DEF UsesAreUnique
    <3>3. \A r \in Names : Kept(r) => InRecord(u, r, SpecOf(r))
      BY <1>4, <2>1, <3>1 DEF InRecord, RecordedPerms
    <3> QED BY <1>5, <2>4, <3>2, <3>3, KeptIsSame
        DEF CopyIsRecorded, UsesAreUnique, InRecord, RecordedPerms
  <2>7. TodoIsHarmless'
    BY <2>4 DEF TodoIsHarmless, At, Ending
  <2>8. DeploymentProgress'
    BY <1>7, <2>4 DEF DeploymentProgress, SameReconcile, Deleting, Deploying
  <2> QED BY <1>1, <1>5, <2>3, <2>4, <2>5, <2>6, <2>7, <2>8, CallStep
<1>8. CASE Deleting /\ run' = GoTo("removeFinalizer")
  <2>1. "removeFinalizer" \in PC \ {"idle", "addFinalizer", "validate"}
    BY DEF PC
  <2>2. /\ run' \in RunType /\ SameReconcile /\ run'.pc = "removeFinalizer" /\ run'.new = run.new
    BY <1>2, <1>8, <2>1 DEF SameReconcile, GoTo, RunType
  <2>3. RunIsSound'
    BY <1>5, <1>8, <2>1, <2>2, GoesOn DEF DeletePCs, Leaving, Deploying, Deleting
  <2>4. CopyIsRecorded' /\ TodoIsHarmless'
    BY <2>2 DEF CopyIsRecorded, Copied, TodoIsHarmless, At, Ending
  <2>5. DeploymentProgress'
    BY <1>8, <2>2 DEF DeploymentProgress, SameReconcile, Deleting, Deploying
  <2> QED BY <1>1, <1>5, <2>1, <2>2, <2>3, <2>4, <2>5, CallStep
<1>9. CASE run' = [run EXCEPT !.pc = "saveStatus", !.failed = TRUE]
  <2>1. "saveStatus" \in PC \ {"idle", "addFinalizer", "validate"}
    BY DEF PC
  <2>2. /\ run' \in RunType /\ SameReconcile /\ run'.pc = "saveStatus" /\ run'.new = run.new
        /\ run'.failed
    BY <1>2, <1>9, <2>1 DEF RunType, SameReconcile
  <2>3. RunIsSound'
    BY <1>5, <2>1, <2>2, GoesOn
    DEF DeployPCs, DeletePCs, Leaving, FromValidated, FromUsage, FromProduct, FromProject,
        FromSpace, FromAccount, FromUser, FromRole, FromGranted, FromSynced, FromSaved
  <2>4. CopyIsRecorded' /\ TodoIsHarmless' /\ DeploymentProgress'
    BY <2>2 DEF CopyIsRecorded, Copied, TodoIsHarmless, At, Ending, DeploymentProgress
  <2> QED BY <1>1, <1>5, <2>1, <2>2, <2>3, <2>4, CallStep
<1> QED BY <1>6, <1>7, <1>8, <1>9 DEF GetUsage, Me

\* What a deployment that has not failed has come to when it is saved.
LEMMA SavedFacts ==
  ASSUME Inv, run.pc \in FromSaved, Deploying, ~run.failed
  PROVE  /\ DeployedAs(run.rt, run.spec)
         /\ run.new.account = run.spec.account /\ run.new.space = run.spec.space
         /\ run.pc = "saveUsage" => InRecord(run.usage, run.rt, run.spec)
         /\ run.pc = "saveStatus" /\ run.rt \in recorded => InRecord(usage, run.rt, run.spec)
         /\ \A q \in Names \ {run.rt} : runtimes[q].cache.space = run.spec.space =>
              run.spec.space \in left
<1>1. run.pc \in FromValidated
  BY DEF FromValidated, FromUsage, FromProduct, FromProject, FromSpace, FromAccount, FromUser,
         FromRole, FromGranted, FromSynced
<1>2. /\ Operable(Product) /\ project = "granted" /\ Operable(run.spec.space)
      /\ run.new.space = run.spec.space /\ run.spec.account \in accounts
      /\ run.spec.account \in users[run.spec.space]
      /\ roles[run.spec.account].exists /\ run.spec.space \in roles[run.spec.account].spaces
      /\ HasPerms(run.spec) /\ run.new.account = run.spec.account
      /\ run.spec.app => apps[run.rt] = {run.spec.space}
  BY DEF Inv, DeploymentProgress, FromProduct, FromProject, FromSpace, FromAccount, FromUser,
         FromRole, FromGranted, FromSynced
<1>3. run.pc = "saveUsage" => InRecord(run.usage, run.rt, run.spec)
  BY DEF Inv, DeploymentProgress, InRecord, FromUsage, FromProduct, FromProject, FromSpace,
         FromAccount, FromUser, FromRole, FromGranted, FromSynced, FromSaved
<1>4. run.pc = "saveStatus" /\ run.rt \in recorded => InRecord(usage, run.rt, run.spec)
  BY DEF Inv, DeploymentProgress, At
<1> QED BY <1>1, <1>2, <1>3, <1>4 DEF DeployedAs, HasSpace, Inv, ValidatedIsLeft

\* The last write of the status: a deployment that has not failed is applied.
LEMMA SaveStatusKeepsInv ==
  ASSUME Inv, SaveStatus
  PROVE  Inv'
<1> USE DEF clusterVars, history
<1>1. run.pc = "saveStatus" /\ run' = Idle
  BY DEF SaveStatus, At
<1>2. CASE UNCHANGED runtimes
  BY <1>1, <1>2, FaultFacts, IdleStep DEF SaveStatus, objectVars
<1>3. CASE ~UNCHANGED runtimes
  <2>0. PICK r \in Names : r = run.rt
    BY <1>1, RunFacts
  <2> DEFINE o == [runtimes[r] EXCEPT !.cache = run.new,
                       !.applied = IF Deploying /\ ~run.failed THEN run.spec ELSE @]
  <2>1. /\ RunIsSound' /\ ObjectIsRead' /\ ValidatedIsLeft' /\ run'.rt \notin Names
        /\ CopyIsRecorded' /\ TodoIsHarmless' /\ DeploymentProgress'
    BY <1>1, IdleFollows
  <2>2. /\ run.spec \in Specs /\ run.new \in Cache /\ run.old = runtimes[r].cache
        /\ runtimes[r] \in Runtime /\ runtimes \in [Names -> Runtime] /\ runtimes[r].finalizer
        /\ Deploying <=> ~Deleting
        /\ Applied(r) => /\ SpecOf(r) = run.spec /\ run.new.account = run.spec.account
                         /\ run.new.space = run.spec.space
    BY <1>1, <2>0, RunFacts
  <2>3. runtimes' = [runtimes EXCEPT ![r] = o] /\ UNCHANGED faults /\ ~run.stale
    BY <1>3, <2>0 DEF SaveStatus, Me
  <2>4. /\ o \in Runtime /\ o.phase = runtimes[r].phase /\ o.spec = runtimes[r].spec
        /\ o.cache = run.new /\ o.finalizer = runtimes[r].finalizer
        /\ o.applied = IF Deploying /\ ~run.failed THEN run.spec ELSE runtimes[r].applied
    BY <2>2 DEF Runtime
  <2> HIDE DEF o
  <2>5. /\ runtimes' \in [Names -> Runtime] /\ runtimes'[r] = o
        /\ \A x \in Names \ {r} : runtimes'[x] = runtimes[x]
    BY <2>2, <2>3, <2>4
  <2>6. \A x \in Names \ {r} : (Kept(x)' <=> Kept(x)) /\ (Applied(x)' <=> Applied(x))
                                    /\ SpecOf(x)' = SpecOf(x)
    BY <2>5 DEF SaveStatus, Kept, Applied, SpecOf
  <2>7. RestTyped'
    BY <2>3, <2>5, RestIsTyped DEF SaveStatus, Inv, RestTyped, ClusterTypeOK
  <2>8. UnheldIsNew'
    BY <2>2, <2>4, <2>5 DEF Inv, UnheldIsNew
  <2>9. /\ runtimes[r].phase # "none" /\ runtimes[r].spec = run.spec
        /\ run.new.space = run.old.space
           \/ run.new.space = IF Deploying THEN run.spec.space ELSE NoSpace
    BY <1>1, <2>0, <2>3 DEF Inv, ObjectIsRead, RunIsSound
  <2>10. MovedIsLeft'
    <3>1. run.new.space # NoSpace => run.new.space = run.spec.space \/ run.new.space \in left
      BY <2>2, <2>9 DEF Inv, MovedIsLeft
    <3>2. left' = left
      BY DEF SaveStatus
    <3>3. \A x \in Names \ {r} : runtimes[x].cache.space # NoSpace =>
            runtimes[x].cache.space = runtimes[x].spec.space \/ runtimes[x].cache.space \in left
      BY DEF Inv, MovedIsLeft
    <3> QED BY <2>4, <2>5, <2>9, <3>1, <3>2, <3>3 DEF MovedIsLeft
  <2>11. \A q \in Names \ {r} : Kept(q) /\ run.new.space = SpecOf(q).space => SpecOf(q).space \in left
    <3> SUFFICES ASSUME NEW q \in Names \ {r}, Kept(q), run.new.space = SpecOf(q).space
                 PROVE  SpecOf(q).space \in left
      OBVIOUS
    <3>1. SpecOf(q).space # NoSpace
      BY KeptHasSpec, ConstantFacts DEF Kept
    <3>2. CASE run.new.space = run.old.space
      BY <2>2, <3>2 DEF Inv, SharedIsLeft
    <3>3. CASE Deploying /\ run.new.space = run.spec.space
      <4>1. runtimes[q].cache.space = run.spec.space
        BY <3>3 DEF Inv, AppliedIsKnown, Kept
      <4>2. run.pc \in FromValidated
        BY <1>1 DEF FromValidated, FromUsage, FromProduct, FromProject, FromSpace, FromAccount,
                    FromUser, FromRole, FromGranted, FromSynced, FromSaved
      <4> QED BY <2>0, <3>3, <4>1, <4>2 DEF Inv, ValidatedIsLeft
    <3> QED BY <2>9, <3>1, <3>2, <3>3
  <2>12. UNCHANGED <<left, recorded>>
    BY DEF SaveStatus
  <2>13. CASE Deploying /\ ~run.failed
    <3>1. SpecOf(r)' = run.spec
      BY <2>4, <2>5, <2>13 DEF SpecOf
    <3>2. /\ run.new.account = run.spec.account /\ run.new.space = run.spec.space
          /\ DeployedAs(r, run.spec)
          /\ r \in recorded => InRecord(usage, r, run.spec)
          /\ \A q \in Names \ {r} : runtimes[q].cache.space = run.spec.space =>
               run.spec.space \in left
      BY <1>1, <2>0, <2>13, SavedFacts DEF FromSaved
    <3>3. AppliedIsKnown'
      <4>1. ASSUME NEW x \in Names \ {r}, Applied(x)'
            PROVE  /\ runtimes'[x].cache.account = SpecOf(x)'.account
                   /\ runtimes'[x].cache.space = SpecOf(x)'.space
        BY <4>1, <2>5, <2>6 DEF Inv, AppliedIsKnown
      <4>2. /\ runtimes'[r].cache.account = SpecOf(r)'.account
            /\ runtimes'[r].cache.space = SpecOf(r)'.space
        BY <2>4, <2>5, <3>1, <3>2
      <4> QED BY <2>1, <4>1, <4>2 DEF AppliedIsKnown
    <3>4. SharedIsLeft'
      <4> SUFFICES ASSUME NEW x \in Names, NEW q \in Names, Kept(x)', q # x,
                          runtimes'[q].cache.space = SpecOf(x)'.space
                   PROVE  SpecOf(x)'.space \in left
        BY <2>12 DEF SharedIsLeft
      <4>1. CASE x = r
        BY <4>1, <2>5, <3>1, <3>2
      <4>2. CASE x # r /\ q = r
        BY <4>2, <2>4, <2>5, <2>6, <2>11
      <4>3. CASE x # r /\ q # r
        BY <4>3, <2>5, <2>6 DEF Inv, SharedIsLeft
      <4> QED BY <4>1, <4>2, <4>3
    <3>5. KeptIsRecorded'
      <4>1. \A x \in Names : Kept(x)' => InRecord(usage, x, SpecOf(x)')
        <5>1. ASSUME NEW x \in Names \ {r}, Kept(x)' PROVE InRecord(usage, x, SpecOf(x)')
          BY <5>1, <2>6 DEF Inv, KeptIsRecorded
        <5>2. ASSUME Kept(r)' PROVE InRecord(usage, r, SpecOf(r)')
          BY <5>2, <3>1, <3>2 DEF Kept, SaveStatus
        <5> QED BY <5>1, <5>2
      <4> QED BY <4>1
          DEF Inv, KeptIsRecorded, SaveStatus, UsesAreUnique, InRecord, RecordedPerms
    <3>6. KeptIsDeployed'
      <4>1. \A x \in Names : Kept(x)' => DeployedAs(x, SpecOf(x)')
        <5>1. ASSUME NEW x \in Names \ {r}, Kept(x)' PROVE DeployedAs(x, SpecOf(x)')
          BY <5>1, <2>6 DEF Inv, KeptIsDeployed
        <5>2. DeployedAs(r, SpecOf(r)')
          BY <3>1, <3>2
        <5> QED BY <5>1, <5>2
      <4> QED BY <4>1 DEF KeptIsDeployed, SaveStatus, DeployedAs, Operable, HasPerms, HasSpace
    <3> QED BY <2>1, <2>7, <2>8, <2>10, <3>3, <3>4, <3>5, <3>6 DEF Inv
  <2>14. CASE ~(Deploying /\ ~run.failed)
    <3>1. (Applied(r)' <=> Applied(r)) /\ SpecOf(r)' = SpecOf(r)
      BY <2>4, <2>5, <2>14 DEF Applied, SpecOf
    <3>2. AppliedIsKnown'
      <4>1. ASSUME NEW x \in Names \ {r}, Applied(x)'
            PROVE  /\ runtimes'[x].cache.account = SpecOf(x)'.account
                   /\ runtimes'[x].cache.space = SpecOf(x)'.space
        BY <4>1, <2>5, <2>6 DEF Inv, AppliedIsKnown
      <4>2. Applied(r)' => /\ runtimes'[r].cache.account = SpecOf(r)'.account
                           /\ runtimes'[r].cache.space = SpecOf(r)'.space
        BY <2>2, <2>4, <2>5, <3>1
      <4> QED BY <2>1, <4>1, <4>2 DEF AppliedIsKnown
    <3>3. \A x \in Names : (Kept(x)' => Kept(x)) /\ SpecOf(x)' = SpecOf(x)
      BY <2>6, <3>1 DEF Kept, SaveStatus
    <3>4. SharedIsLeft'
      <4> SUFFICES ASSUME NEW x \in Names, NEW q \in Names, Kept(x), q # x,
                          runtimes'[q].cache.space = SpecOf(x).space
                   PROVE  SpecOf(x).space \in left
        BY <2>12, <3>3 DEF SharedIsLeft
      <4>1. CASE q = r
        BY <4>1, <2>4, <2>5, <2>11
      <4>2. CASE q # r
        BY <4>2, <2>5 DEF Inv, SharedIsLeft
      <4> QED BY <4>1, <4>2
    <3>5. KeptIsRecorded'
      BY <3>3 DEF Inv, KeptIsRecorded, SaveStatus, UsesAreUnique, InRecord, RecordedPerms
    <3>6. KeptIsDeployed'
      BY <3>3 DEF Inv, KeptIsDeployed, SaveStatus, DeployedAs, Operable, HasPerms, HasSpace
    <3> QED BY <2>1, <2>7, <2>8, <2>10, <3>2, <3>4, <3>5, <3>6 DEF Inv
  <2> QED BY <2>13, <2>14
<1> QED BY <1>2, <1>3

\* The copy is written back: what it says of the run's own runtime counts from
\* then on, what it says of the others was so before.
LEMMA SaveUsageKeepsInv ==
  ASSUME Inv, SaveUsage
  PROVE  Inv'
<1>1. PICK r \in Names : r = run.rt
  BY RunFacts DEF SaveUsage, At
<1>2. /\ run.pc = "saveUsage" /\ UNCHANGED <<ns, users, accounts, project, apps, roles>>
      /\ UNCHANGED <<runtimes, listenerVars, hooks, codeRepos, late, left, edits, abandoned>>
      /\ faults' \in 0..MaxFaults /\ calm' \in BOOLEAN
  <2>1. (calm /\ ~TakesOff(run.usage)) \in BOOLEAN
    BY WorldIsTyped
  <2> QED BY <2>1, FaultFacts, WorldIsTyped DEF SaveUsage, At
<1>3. /\ run \in RunType /\ run.usage \in Usage /\ usage \in Usage /\ recorded \subseteq Names
      /\ Deploying <=> ~Deleting
      /\ Deleting => ~Applied(r)
      /\ Applied(r) => SpecOf(r) = run.spec
      /\ runtimes[r].finalizer
  BY <1>1, <1>2, RunFacts DEF Inv, RestTyped, ClusterTypeOK
<1>4. \A x : (Applied(x)' <=> Applied(x)) /\ SpecOf(x)' = SpecOf(x)
  BY <1>2 DEF Applied, SpecOf
<1>5. /\ UsesAreUnique(run.usage)
      /\ \A x \in Names : Kept(x) => InRecord(run.usage, x, SpecOf(x))
  BY <1>2 DEF Inv, CopyIsRecorded, Copied, PC
<1>6. Deploying /\ ~run.failed =>
        /\ InRecord(run.usage, r, run.spec) /\ DeployedAs(r, run.spec)
        /\ run.new.account = run.spec.account /\ run.new.space = run.spec.space
        /\ \A q \in Names \ {r} : runtimes[q].cache.space = run.spec.space =>
             run.spec.space \in left
  BY <1>1, <1>2, SavedFacts DEF FromSaved
<1>7. /\ run' \in RunType /\ SameReconcile /\ run'.new = run.new /\ run'.failed = run.failed
      /\ run'.pc = IF Deleting /\ ~run.failed THEN "removeFinalizer" ELSE "saveStatus"
  <2>1. "saveStatus" \in PC /\ "removeFinalizer" \in PC
    BY DEF PC
  <2> QED BY <1>3, <2>1 DEF SaveUsage, SameReconcile, GoTo, RunType
<1>8. RunIsSound'
  <2>1. "saveStatus" \in PC /\ "removeFinalizer" \in PC
    BY DEF PC
  <2>2. Deploying => run'.pc \in DeployPCs
    BY <1>3, <1>7 DEF DeployPCs, FromValidated, FromUsage, FromProduct, FromProject, FromSpace,
                      FromAccount, FromUser, FromRole, FromGranted, FromSynced, FromSaved
  <2>3. Deleting => run'.pc \in DeletePCs
    BY <1>7 DEF DeletePCs
  <2> QED BY <1>2, <1>7, <2>1, <2>2, <2>3, GoesOn DEF Leaving
<1>9. CopyIsRecorded' /\ TodoIsHarmless'
  BY <1>7 DEF CopyIsRecorded, Copied, TodoIsHarmless, At, Ending
<1>10. /\ ObjectIsRead' /\ UnheldIsNew' /\ MovedIsLeft'
  BY <1>1, <1>2, <1>3, <1>7
  DEF Inv, ObjectIsRead, UnheldIsNew, MovedIsLeft, SameReconcile, Deleting
<1>11. AppliedIsKnown'
  BY <1>2, <1>4, <1>7 DEF Inv, AppliedIsKnown, SameReconcile
<1>12. ValidatedIsLeft'
  <2>1. run.pc \in FromValidated
    BY <1>2 DEF FromValidated, FromUsage, FromProduct, FromProject, FromSpace, FromAccount,
                FromUser, FromRole, FromGranted, FromSynced, FromSaved
  <2> QED BY <1>2, <1>7, <2>1 DEF Inv, ValidatedIsLeft, SameReconcile, Deploying
<1>13. ASSUME NEW x \in Names, Kept(x)', ~Kept(x),
              recorded' \subseteq recorded \cup (IF run.failed THEN {} ELSE {run.rt})
       PROVE  x = r /\ SpecOf(r) = run.spec /\ Deploying /\ ~run.failed
  BY <1>1, <1>3, <1>4, <1>13 DEF Kept
<1>14. recorded' \subseteq recorded \cup (IF run.failed THEN {} ELSE {run.rt})
  BY DEF SaveUsage, Me
<1>15. SharedIsLeft'
  <2> SUFFICES ASSUME NEW x \in Names, NEW q \in Names, Kept(x)', q # x,
                      runtimes[q].cache.space = SpecOf(x).space
               PROVE  SpecOf(x).space \in left
    BY <1>2, <1>4 DEF SharedIsLeft
  <2>1. CASE Kept(x)
    BY <2>1 DEF Inv, SharedIsLeft
  <2>2. CASE ~Kept(x)
    BY <1>6, <1>13, <1>14, <2>2
  <2> QED BY <2>1, <2>2
<1>16. recorded' \subseteq Names
  BY <1>1, <1>3, <1>14
<1>17. CASE UNCHANGED usage /\ recorded' = recorded \ {run.rt}
  <2>1. \A x \in Names : Kept(x)' => Kept(x) /\ SpecOf(x)' = SpecOf(x)
    BY <1>4, <1>17 DEF Kept
  <2>2. RestTyped'
    BY <1>2, <1>16, <1>17, RestIsTyped DEF Inv, RestTyped, ClusterTypeOK
  <2>3. KeptIsRecorded'
    BY <1>17, <2>1 DEF Inv, KeptIsRecorded, UsesAreUnique, InRecord, RecordedPerms
  <2>4. KeptIsDeployed'
    BY <1>2, <2>1 DEF Inv, KeptIsDeployed, DeployedAs, Operable, HasPerms, HasSpace
  <2>5. DeploymentProgress'
    <3>1. run'.rt \notin recorded'
      BY <1>7, <1>17 DEF SameReconcile
    <3>2. SUFFICES ASSUME Deploying', ~run'.failed PROVE DeploymentProgress'
      BY DEF DeploymentProgress
    <3>3. Deploying /\ ~run.failed
      BY <1>7, <3>2 DEF SameReconcile, Deploying
    <3>4. run'.pc = "saveStatus" /\ run'.rt = run.rt /\ run'.spec = run.spec
      BY <1>3, <1>7, <3>3 DEF SameReconcile
    <3> QED BY <1>2, <1>7, <3>1, <3>3, <3>4
        DEF Inv, DeploymentProgress, At, Operable, HasPerms,
            FromUsage, FromProduct, FromProject, FromSpace, FromAccount, FromUser, FromRole,
            FromGranted, FromSynced, FromSaved, Leaving, ListeningPCs, Unlistening
  <2> QED BY <1>8, <1>9, <1>10, <1>11, <1>12, <1>15, <2>2, <2>3, <2>4, <2>5 DEF Inv
<1>18. CASE UpdateProductUsage(run.usage)
  <2>1. \A x \in Names : Kept(x)' => /\ SpecOf(x)' = SpecOf(x)
                                     /\ InRecord(run.usage, x, SpecOf(x))
                                     /\ DeployedAs(x, SpecOf(x))
    <3>1. ASSUME NEW x \in Names, Kept(x)', Kept(x)
          PROVE  InRecord(run.usage, x, SpecOf(x)) /\ DeployedAs(x, SpecOf(x))
      BY <1>5, <3>1 DEF Inv, KeptIsDeployed
    <3>2. ASSUME NEW x \in Names, Kept(x)', ~Kept(x)
          PROVE  InRecord(run.usage, x, SpecOf(x)) /\ DeployedAs(x, SpecOf(x))
      BY <1>6, <1>13, <1>14, <3>2
    <3> QED BY <1>4, <3>1, <3>2
  <2>2. /\ usage' \in Usage
        /\ run.usage.runtimes # {} =>
             /\ usage'.runtimes = run.usage.runtimes /\ usage'.account = run.usage.account
        /\ run.usage.runtimes = {} => usage'.account = {}
    <3>1. EmptyUsage(TRUE) \in Usage /\ EmptyUsage(TRUE).account = {}
      BY ConstantFacts DEF EmptyUsage
    <3> QED BY <1>3, <1>18, <3>1 DEF UpdateProductUsage, Usage
  <2>3. RestTyped'
    BY <1>2, <1>16, <2>2, RestIsTyped DEF Inv, RestTyped, ClusterTypeOK
  <2>4. UsesAreUnique(usage')
    BY <1>5, <2>2 DEF UsesAreUnique
  <2>5. \A x \in Names, spec \in Specs : InRecord(run.usage, x, spec) => InRecord(usage', x, spec)
    BY <2>2 DEF InRecord, RecordedPerms
  <2>6. \A x \in Names : Kept(x)' => SpecOf(x) \in Specs
    BY <1>4, KeptHasSpec DEF Kept
  <2>7. KeptIsRecorded'
    BY <2>1, <2>4, <2>5, <2>6 DEF KeptIsRecorded, UsesAreUnique, InRecord, RecordedPerms
  <2>8. KeptIsDeployed'
    BY <1>2, <2>1 DEF KeptIsDeployed, DeployedAs, Operable, HasPerms, HasSpace
  <2>9. DeploymentProgress'
    <3>1. SUFFICES ASSUME Deploying', ~run'.failed PROVE DeploymentProgress'
      BY DEF DeploymentProgress
    <3>2. Deploying /\ ~run.failed
      BY <1>7, <3>1 DEF SameReconcile, Deploying
    <3>3. run'.pc = "saveStatus" /\ run'.rt = r /\ run'.spec = run.spec /\ run.spec \in Specs
      BY <1>1, <1>2, <1>3, <1>7, <3>2, RunFacts DEF SameReconcile
    <3>4. InRecord(usage', r, run.spec)
      BY <1>6, <2>5, <3>2, <3>3
    <3> QED BY <1>1, <1>2, <1>7, <3>2, <3>3, <3>4
        DEF Inv, DeploymentProgress, At, Operable, HasPerms, InRecord, RecordedPerms,
            FromUsage, FromProduct, FromProject, FromSpace, FromAccount, FromUser, FromRole,
            FromGranted, FromSynced, FromSaved, Leaving, ListeningPCs, Unlistening
  <2> QED BY <1>8, <1>9, <1>10, <1>11, <1>12, <1>15, <2>3, <2>7, <2>8, <2>9 DEF Inv
<1> QED BY <1>17, <1>18 DEF SaveUsage, Me

-----------------------------------------------------------------------------
(* The product and the account of the last deployment. *)

\* A reconcile goes on at pc, with todo to do.
LEMMA RunGoesTo ==
  ASSUME Inv, run.pc # "idle", NEW pc \in PC
  PROVE  /\ run' = GoTo(pc) =>
              /\ run' \in RunType /\ SameReconcile /\ run'.pc = pc /\ run'.todo = run.todo
              /\ run'.new = run.new /\ run'.usage = run.usage /\ run'.failed = run.failed
         /\ \A todo \in SUBSET Repos : run' = Do(pc, todo) =>
              /\ run' \in RunType /\ SameReconcile /\ run'.pc = pc /\ run'.todo = todo
              /\ run'.new = run.new /\ run'.usage = run.usage /\ run'.failed = run.failed
<1>1. run \in RunType
  BY RunFacts
<1>2. ASSUME run' = GoTo(pc)
      PROVE  /\ run' \in RunType /\ SameReconcile /\ run'.pc = pc /\ run'.todo = run.todo
             /\ run'.new = run.new /\ run'.usage = run.usage /\ run'.failed = run.failed
  BY <1>1, <1>2 DEF GoTo, RunType, SameReconcile
<1>3. ASSUME NEW todo \in SUBSET Repos, run' = Do(pc, todo)
      PROVE  /\ run' \in RunType /\ SameReconcile /\ run'.pc = pc /\ run'.todo = todo
             /\ run'.new = run.new /\ run'.usage = run.usage /\ run'.failed = run.failed
  BY <1>1, <1>3 DEF Do, RunType, SameReconcile
<1> QED BY <1>2, <1>3

\* A call takes effect in the cluster and the reconcile goes on.
LEMMA CallGoesOn ==
  ASSUME Inv, run.pc \in Calls, NEW next, Answer(next),
         UNCHANGED <<usage, listenerVars, hooks, objectVars, history>>,
         ClusterTypeOK', KeptIsDeployed',
         run' = next =>
           /\ run' \in RunType /\ SameReconcile /\ run'.usage = run.usage
           /\ run'.pc \in PC \ {"idle", "addFinalizer", "validate", "getUsage", "removeFinalizer"}
           /\ Deploying => run'.pc \in DeployPCs
           /\ Deleting => run'.pc \in DeletePCs
           /\ \/ run'.new.space = run.new.space
              \/ run'.new.space = IF Deploying THEN run.spec.space ELSE NoSpace
           /\ run'.new.account = run.new.account
           /\ run'.pc \in Leaving =>
                \/ run.pc \in Leaving
                \/ run.old.account \in Accounts /\ (Deploying => run.old.account # run.spec.account)
           /\ TodoIsHarmless' /\ DeploymentProgress'
  PROVE  Inv'
<1>1. /\ UNCHANGED <<usage, objectVars, recorded, runtimes>> /\ abandoned' \subseteq Names
      /\ ListenerTypeOK' /\ hooks' \in [Spaces -> Repos \cup {NoRepo}]
  BY RestIsTyped DEF history, objectVars
<1>2. run.pc # "idle" /\ Copied
  BY DEF Calls, Copied, PC
<1>3. ASSUME run' = next
      PROVE  /\ SameReconcile /\ RunIsSound'
             /\ run'.pc \in PC \ {"idle", "addFinalizer", "validate", "getUsage",
                                  "removeFinalizer"}
             /\ Applied(run.rt) => /\ run'.new.account = run.new.account
                                   /\ run'.new.space = run.new.space
             /\ CopyIsRecorded' /\ TodoIsHarmless' /\ DeploymentProgress'
  <2>1. RunIsSound'
    BY <1>2, <1>3, GoesOn
  <2>2. CopyIsRecorded'
    BY <1>1, <1>2, <1>3, SameCopy
  <2>3. Applied(run.rt) => run'.new.space = run.new.space
    BY <1>2, <1>3, RunFacts
  <2> QED BY <1>3, <2>1, <2>2, <2>3
<1> QED BY <1>1, <1>3, AnswerStep

\* A step of the controller alone: no call, no write.
LEMMA LocalStep ==
  ASSUME Inv, Copied, run.pc # "saveUsage",
         UNCHANGED <<clusterVars, listenerVars, hooks, faults, objectVars, history>>,
         run' \in RunType, SameReconcile,
         run'.pc \in PC \ {"idle", "addFinalizer", "validate", "getUsage", "removeFinalizer"},
         Deploying => run'.pc \in DeployPCs,
         Deleting => run'.pc \in DeletePCs,
         run'.new.space = run.new.space,
         Applied(run.rt) => run'.new.account = run.new.account,
         run'.pc \in Leaving =>
           \/ run.pc \in Leaving
           \/ run.old.account \in Accounts /\ (Deploying => run.old.account # run.spec.account),
         CopyIsRecorded', TodoIsHarmless', DeploymentProgress'
  PROVE  Inv'
<1>1. /\ UNCHANGED <<usage, objectVars, recorded, runtimes, left>> /\ abandoned' \subseteq Names
      /\ ListenerTypeOK' /\ hooks' \in [Spaces -> Repos \cup {NoRepo}]
      /\ faults' \in 0..MaxFaults
  BY RestIsTyped, FaultFacts DEF history, objectVars, clusterVars
<1>2. run.pc \notin {"idle", "addFinalizer", "validate"}
  BY DEF Copied
<1>3. RunIsSound'
  BY <1>2, GoesOn
<1>4. ClusterTypeOK' /\ KeptIsDeployed'
  BY <1>1, SameCluster
<1> QED BY <1>1, <1>2, <1>3, <1>4, CallStep

\* Nothing of a deployment is taken away.
ClusterGrows ==
  /\ \A s \in Spaces \cup {Product} : Operable(s) => Operable(s)'
  /\ \A s \in Spaces : users[s] \subseteq users'[s]
  /\ accounts \subseteq accounts'
  /\ project = "granted" => project' = "granted"
  /\ \A a \in Accounts : /\ roles[a].exists => roles'[a].exists
                         /\ roles[a].spaces \subseteq roles'[a].spaces
                         /\ roles[a].perms \subseteq roles'[a].perms

LEMMA GrowthFacts ==
  ASSUME ClusterGrows, NEW spec \in Specs
  PROVE  /\ Operable(Product) => Operable(Product)'
         /\ HasSpace(spec) => HasSpace(spec)'
         /\ HasPerms(spec) => HasPerms(spec)'
  BY ConstantFacts DEF ClusterGrows, HasSpace, HasPerms

LEMMA GrowthKeeps ==
  ASSUME Inv, UNCHANGED <<objectVars, history, apps>>, ClusterGrows
  PROVE  KeptIsDeployed'
<1>1. UNCHANGED <<runtimes, recorded, left>>
  BY DEF objectVars, history
<1>2. ASSUME NEW r \in Names, NEW spec \in Specs, DeployedAs(r, spec) PROVE DeployedAs(r, spec)'
  BY <1>1, <1>2, GrowthFacts, ConstantFacts DEF DeployedAs, ClusterGrows
<1> QED BY <1>1, <1>2, KeptStays

LEMMA CreateProductKeepsInv ==
  ASSUME Inv, CreateProduct
  PROVE  Inv'
<1>1. run.pc = "createProduct" /\ run.pc \in Calls /\ run.pc # "idle"
      /\ UNCHANGED <<objectVars, history>>
  BY DEF CreateProduct, At, Calls, PC
<1>2. CASE Refuse
  BY <1>1, <1>2, RefuseKeepsInv
<1>3. CASE CreateNamespace(Product) /\ Answer(GoTo("createProject"))
           /\ UNCHANGED <<users, accounts, project, apps, roles, usage, listenerVars, hooks>>
  <2>1. ns \in [Spaces \cup {Product} -> {"none", "active", "terminating"}]
    BY DEF Inv, RestTyped, ClusterTypeOK
  <2>2. ClusterTypeOK' /\ ClusterGrows /\ Operable(Product)'
    BY <1>3, <2>1 DEF CreateNamespace, Inv, RestTyped, ClusterTypeOK, ClusterGrows, Operable
  <2>3. KeptIsDeployed'
    BY <1>1, <1>3, <2>2, GrowthKeeps
  <2>4. "createProject" \in PC \ {"idle", "addFinalizer", "validate", "getUsage", "removeFinalizer"}
        /\ "createProject" \in DeployPCs /\ "createProject" \notin Leaving
    BY DEF PC, DeployPCs, FromValidated, FromUsage, FromProduct, Leaving
  <2>5. ~Deleting
    BY <1>1, RunFacts DEF DeletePCs, Leaving, Ending, Unlistening
  <2>6. ASSUME run' = GoTo("createProject")
        PROVE  /\ run' \in RunType /\ SameReconcile /\ run'.usage = run.usage
               /\ run'.pc = "createProject" /\ run'.new = run.new
               /\ TodoIsHarmless' /\ DeploymentProgress'
    <3>1. /\ run' \in RunType /\ SameReconcile /\ run'.pc = "createProject"
          /\ run'.usage = run.usage /\ run'.failed = run.failed /\ run'.new = run.new
      BY <1>1, <2>4, <2>6, RunGoesTo
    <3>2. Deploying /\ ~run.failed => run.rt \in run.usage.runtimes
      BY <1>1 DEF Inv, DeploymentProgress, FromUsage
    <3>3. TodoIsHarmless'
      BY <3>1 DEF TodoIsHarmless, At, Ending
    <3>4. DeploymentProgress'
      BY <2>2, <3>1, <3>2
      DEF DeploymentProgress, At, SameReconcile, Deploying, FromProduct, FromProject, FromSpace,
          FromAccount, FromUser, FromRole, FromGranted, FromSynced, FromSaved, Leaving,
          ListeningPCs, Unlistening
    <3> QED BY <3>1, <3>3, <3>4
  <2>7. UNCHANGED <<usage, listenerVars, hooks, objectVars, history>>
    BY <1>1, <1>3
  <2> QED BY <1>1, <1>3, <2>2, <2>3, <2>4, <2>5, <2>6, <2>7, CallGoesOn
<1> QED BY <1>2, <1>3 DEF CreateProduct

LEMMA CreateProjectKeepsInv ==
  ASSUME Inv, CreateProject
  PROVE  Inv'
<1>1. /\ run.pc = "createProject" /\ run.pc \in Calls /\ run.pc # "idle"
      /\ Answer(GoTo("addProductUser"))
      /\ UNCHANGED <<ns, users, accounts, apps, roles, usage, listenerVars, hooks, objectVars, history>>
  BY DEF CreateProject, At, Calls, PC, Rest
<1>2. ClusterTypeOK' /\ ClusterGrows /\ UNCHANGED ns
  BY <1>1 DEF CreateProject, Inv, RestTyped, ClusterTypeOK, ClusterGrows, Operable
<1>3. KeptIsDeployed'
  BY <1>1, <1>2, GrowthKeeps
<1>4. "addProductUser" \in PC \ {"idle", "addFinalizer", "validate", "getUsage", "removeFinalizer"}
      /\ "addProductUser" \in DeployPCs /\ "addProductUser" \notin Leaving
  BY DEF PC, DeployPCs, FromValidated, FromUsage, FromProduct, Leaving
<1>5. ~Deleting
  BY <1>1, RunFacts DEF DeletePCs, Leaving, Ending, Unlistening
<1>6. ASSUME run' = GoTo("addProductUser")
      PROVE  /\ run' \in RunType /\ SameReconcile /\ run'.usage = run.usage
             /\ run'.pc = "addProductUser" /\ run'.new = run.new
             /\ TodoIsHarmless' /\ DeploymentProgress'
  <2>1. /\ run' \in RunType /\ SameReconcile /\ run'.pc = "addProductUser"
        /\ run'.usage = run.usage /\ run'.failed = run.failed /\ run'.new = run.new
    BY <1>1, <1>4, <1>6, RunGoesTo
  <2>2. Deploying /\ ~run.failed => run.rt \in run.usage.runtimes /\ Operable(Product)
    BY <1>1 DEF Inv, DeploymentProgress, FromUsage, FromProduct
  <2>3. TodoIsHarmless'
    BY <2>1 DEF TodoIsHarmless, At, Ending
  <2>4. DeploymentProgress'
    BY <1>2, <2>1, <2>2
    DEF DeploymentProgress, At, SameReconcile, Deploying, FromProject, FromSpace, Operable,
        FromAccount, FromUser, FromRole, FromGranted, FromSynced, FromSaved, Leaving,
        ListeningPCs, Unlistening
  <2> QED BY <2>1, <2>3, <2>4
<1> QED BY <1>1, <1>2, <1>3, <1>4, <1>5, <1>6, CallGoesOn

\* What is recorded for another runtime is in use.
LEMMA RecordedIsUsed ==
  ASSUME NEW u, NEW r \in Names, NEW spec, RecordedPerms(u, r, spec), NEW except, r \notin except
  PROVE  /\ Perms(spec) \subseteq PermsUsed(u, spec.account, except)
         /\ UsesOf(u, spec.account, except) # {}
<1>1. PICK x \in u.account : /\ x.account = spec.account /\ x.runtime = r
                             /\ Perms(spec) \subseteq x.perms
  BY DEF RecordedPerms
<1>2. x \in UsesOf(u, spec.account, except)
  BY <1>1 DEF UsesOf
<1> QED BY <1>1, <1>2 DEF PermsUsed

\* The account that is being left is that of another kept runtime, if of any.
LEMMA LeftIsAnothers ==
  ASSUME Inv, Copied, Deploying => run.old.account # run.spec.account,
         NEW r \in Names, Kept(r), SpecOf(r).account = run.old.account
  PROVE  /\ r # run.rt
         /\ ~Removable
         /\ Perms(SpecOf(r)) \cap OldPerms = {}
<1>1. run.pc # "idle"
  BY DEF Copied
<1>2. r # run.rt
  BY <1>1, RunFacts DEF Kept
<1>3. RecordedPerms(run.usage, r, SpecOf(r))
  BY DEF Inv, CopyIsRecorded, InRecord
<1>4. /\ Perms(SpecOf(r)) \subseteq PermsUsed(run.usage, run.old.account, {run.rt})
      /\ UsesOf(run.usage, run.old.account, {run.rt}) # {}
  BY <1>2, <1>3, RecordedIsUsed
<1> QED BY <1>2, <1>4 DEF Removable, AccountIsRemovable, OldPerms, Me

LEMMA AddProductUserKeepsInv ==
  ASSUME Inv, AddProductUser
  PROVE  Inv'
<1> DEFINE next == CASE run.old.account \in {NoAccount, run.spec.account} -> GoTo("createSpace")
                     [] run.old.account \notin {NoAccount, run.spec.account} /\ Removable
                          -> GoTo("deleteRole")
                     [] OTHER -> Do("revokeOld", OldPerms)
<1>1. /\ run.pc = "addProductUser" /\ run.pc \in Calls /\ run.pc # "idle" /\ Copied
      /\ Answer(next) /\ project' = "granted"
      /\ UNCHANGED <<ns, users, accounts, apps, roles, usage, listenerVars, hooks, objectVars, history>>
  BY DEF AddProductUser, At, Calls, PC, Rest, Copied
<1>2. ClusterTypeOK' /\ ClusterGrows /\ UNCHANGED ns
  BY <1>1 DEF Inv, RestTyped, ClusterTypeOK, ClusterGrows, Operable
<1>3. KeptIsDeployed'
  BY <1>1, <1>2, GrowthKeeps
<1>4. Deploying /\ ~Deleting
  BY <1>1, RunFacts DEF DeletePCs, Leaving, Ending, Unlistening
<1>5. /\ {"createSpace", "deleteRole", "revokeOld"} \subseteq
           PC \ {"idle", "addFinalizer", "validate", "getUsage", "removeFinalizer"}
      /\ {"createSpace", "deleteRole", "revokeOld"} \subseteq DeployPCs
      /\ "createSpace" \notin Leaving
  BY DEF PC, DeployPCs, FromValidated, FromUsage, FromProduct, FromProject, Leaving
<1>6. OldPerms \in SUBSET Repos /\ run.old.account \in Accounts \cup {NoAccount}
  BY <1>1, RunFacts DEF OldPerms, Cache
<1>7. \/ next = GoTo("createSpace")
      \/ next = GoTo("deleteRole") /\ Removable /\ run.old.account \notin {NoAccount, run.spec.account}
      \/ next = Do("revokeOld", OldPerms) /\ run.old.account \notin {NoAccount, run.spec.account}
  OBVIOUS
<1> HIDE DEF next
<1>8. ASSUME run' = next
      PROVE  /\ run' \in RunType /\ SameReconcile /\ run'.usage = run.usage
             /\ run'.pc \in {"createSpace", "deleteRole", "revokeOld"} /\ run'.new = run.new
             /\ run'.pc \in Leaving => run.old.account \in Accounts
                                       /\ run.old.account # run.spec.account
             /\ TodoIsHarmless' /\ DeploymentProgress'
  <2>1. /\ run' \in RunType /\ SameReconcile
        /\ run'.usage = run.usage /\ run'.failed = run.failed /\ run'.new = run.new
        /\ \/ run'.pc = "createSpace"
           \/ /\ run'.pc = "deleteRole" /\ Removable
              /\ run.old.account \notin {NoAccount, run.spec.account}
           \/ /\ run'.pc = "revokeOld" /\ run'.todo = OldPerms
              /\ run.old.account \notin {NoAccount, run.spec.account}
    <3>1. CASE next = GoTo("createSpace")
      BY <1>1, <1>5, <1>8, <3>1, RunGoesTo
    <3>2. CASE next = GoTo("deleteRole") /\ Removable
               /\ run.old.account \notin {NoAccount, run.spec.account}
      BY <1>1, <1>5, <1>8, <3>2, RunGoesTo
    <3>3. CASE next = Do("revokeOld", OldPerms)
               /\ run.old.account \notin {NoAccount, run.spec.account}
      BY <1>1, <1>5, <1>6, <1>8, <3>3, RunGoesTo
    <3> QED BY <1>7, <3>1, <3>2, <3>3
  <2>2. /\ Deploying /\ ~run.failed => run.rt \in run.usage.runtimes /\ Operable(Product)
    BY <1>1 DEF Inv, DeploymentProgress, FromUsage, FromProduct
  <2>3. run'.pc \in {"createSpace", "deleteRole", "revokeOld"}
        /\ (run'.pc \in Leaving => run.old.account \in Accounts
                                   /\ run.old.account # run.spec.account)
    BY <1>5, <1>6, <2>1
  <2>4. TodoIsHarmless'
    <3> SUFFICES ASSUME NEW r \in Names, Kept(r)'
                 PROVE  LET spec == SpecOf(r)'
                        IN  /\ run'.pc = "revokeOld" /\ spec.account = run'.old.account
                                 => Perms(spec) \cap run'.todo = {}
                            /\ run'.pc \in {"deleteRole", "deleteAccount"}
                                 => spec.account # run'.old.account
      BY <2>3 DEF TodoIsHarmless, At, Ending, Perms
    <3>1. Kept(r) /\ SpecOf(r)' = SpecOf(r)
      BY <1>1, KeptIsSame DEF objectVars, history
    <3>2. run.old.account # run.spec.account /\ SpecOf(r).account = run.old.account =>
            ~Removable /\ Perms(SpecOf(r)) \cap OldPerms = {}
      BY <1>1, <3>1, LeftIsAnothers
    <3> QED BY <2>1, <3>1, <3>2 DEF SameReconcile
  <2>5. DeploymentProgress'
    BY <1>1, <1>2, <2>1, <2>2, <2>3
    DEF DeploymentProgress, At, SameReconcile, Deploying, FromSpace, Operable,
        FromAccount, FromUser, FromRole, FromGranted, FromSynced, FromSaved, Leaving,
        ListeningPCs, Unlistening
  <2> QED BY <2>1, <2>3, <2>4, <2>5
<1> QED BY <1>1, <1>2, <1>3, <1>4, <1>5, <1>8, CallGoesOn

-----------------------------------------------------------------------------
(* Leaving the account of the last deployment. *)

LEMMA LeavingFacts ==
  ASSUME Inv, run.pc \in Leaving
  PROVE  /\ run.pc # "idle" /\ Copied /\ run.pc \in Calls /\ run.pc # "saveUsage"
         /\ run.old.account \in Accounts /\ (Deploying => run.old.account # run.spec.account)
         /\ UsesAreUnique(run.usage)
         /\ \A r \in Names : Kept(r) => InRecord(run.usage, r, SpecOf(r)) /\ DeployedAs(r, SpecOf(r))
         /\ \A r \in Names : Kept(r) /\ SpecOf(r).account = run.old.account => r # run.rt /\ ~Removable
<1>1. run.pc # "idle" /\ Copied /\ run.pc \in Calls /\ run.pc # "saveUsage"
  BY DEF Leaving, Copied, PC, Calls
<1>2. run.old.account \in Accounts /\ (Deploying => run.old.account # run.spec.account)
  BY DEF Inv, RunIsSound
<1> QED BY <1>1, <1>2, LeftIsAnothers DEF Inv, CopyIsRecorded, KeptIsDeployed

\* A deployment is where it was: the product is there.
LEMMA LeavingProgress ==
  ASSUME Inv, run.pc \in Leaving, SameReconcile, Deploying => run'.pc \in Leaving \cup {"createSpace"},
         run'.usage.runtimes = run.usage.runtimes, run'.failed = run.failed, UNCHANGED <<ns, project>>
  PROVE  DeploymentProgress'
<1>1. Deploying /\ ~run.failed =>
        run.rt \in run.usage.runtimes /\ Operable(Product) /\ project = "granted"
  BY DEF Inv, DeploymentProgress, FromUsage, FromProduct, FromProject, Leaving
<1>2. Deploying => run'.pc \in {"revokeOld", "dropUser", "deleteRole", "deleteAccount", "createSpace"}
  BY DEF Leaving
<1> QED BY <1>1, <1>2
    DEF DeploymentProgress, At, SameReconcile, Deploying, FromSpace, FromAccount, FromUser, FromRole,
        FromGranted, FromSynced, FromSaved, ListeningPCs, Unlistening, Operable

LEMMA RevokeOldKeepsInv ==
  ASSUME Inv, NEW p \in Repos, RevokeOld(p)
  PROVE  Inv'
<1>1. /\ run.pc = "revokeOld" /\ run.pc \in Calls /\ run.pc \in Leaving /\ p \in run.todo
      /\ Answer(Do("revokeOld", run.todo \ {p}))
      /\ UNCHANGED <<ns, users, accounts, project, apps, usage, listenerVars, hooks, objectVars, history>>
      /\ RevokePermission(run.old.account, p)
  BY DEF RevokeOld, At, Calls, PC, Leaving, Rest
<1>2. /\ roles \in [Accounts -> Role] /\ run.old.account \in Accounts /\ run.pc # "idle"
      /\ run.todo \subseteq Repos
      /\ Deploying => run.pc \in DeployPCs
      /\ Deleting => run.pc \in DeletePCs
  BY <1>1, LeavingFacts, RunFacts DEF Inv, RestTyped, ClusterTypeOK
<1>3. /\ roles' \in [Accounts -> Role]
      /\ \A a \in Accounts : /\ roles'[a].exists = roles[a].exists
                             /\ roles'[a].spaces = roles[a].spaces
                             /\ roles[a].perms \ {p} \subseteq roles'[a].perms
                             /\ a # run.old.account => roles'[a].perms = roles[a].perms
  BY <1>1, <1>2 DEF RevokePermission, Role
<1>4. ClusterTypeOK'
  BY <1>1, <1>3 DEF Inv, RestTyped, ClusterTypeOK
<1>5. KeptIsDeployed'
  <2>1. ASSUME NEW r \in Names, NEW spec \in Specs, Kept(r), SpecOf(r) = spec, DeployedAs(r, spec)
        PROVE  DeployedAs(r, spec)'
    <3>1. spec.account \in Accounts
      BY ConstantFacts
    <3>2. spec.account = run.old.account => p \notin Perms(spec)
      BY <1>1, <2>1 DEF Inv, TodoIsHarmless, At
    <3> QED BY <1>1, <1>3, <2>1, <3>1, <3>2
        DEF DeployedAs, Operable, HasSpace, HasPerms, objectVars
  <2> QED BY <1>1, <2>1, KeptStays DEF objectVars, history
<1>6. "revokeOld" \in PC \ {"idle", "addFinalizer", "validate", "getUsage", "removeFinalizer"}
      /\ run.todo \ {p} \in SUBSET Repos
  BY <1>2 DEF PC
<1>7. ASSUME run' = Do("revokeOld", run.todo \ {p})
      PROVE  /\ run' \in RunType /\ SameReconcile /\ run'.pc = "revokeOld"
             /\ run'.usage = run.usage /\ run'.new = run.new
             /\ TodoIsHarmless' /\ DeploymentProgress'
  <2>0. PICK todo \in SUBSET Repos : todo = run.todo \ {p}
    BY <1>6
  <2>1. /\ run' \in RunType /\ SameReconcile /\ run'.pc = "revokeOld" /\ run'.usage = run.usage
        /\ run'.failed = run.failed /\ run'.todo = run.todo \ {p} /\ run'.new = run.new
    <3>1. run' = Do("revokeOld", todo) /\ "revokeOld" \in PC
      BY <1>6, <1>7, <2>0
    <3>2. run' = Do("revokeOld", todo) =>
            /\ run' \in RunType /\ SameReconcile /\ run'.pc = "revokeOld" /\ run'.todo = todo
            /\ run'.new = run.new /\ run'.usage = run.usage /\ run'.failed = run.failed
      BY <1>2, <3>1, RunGoesTo
    <3> QED BY <2>0, <3>1, <3>2
  <2>2. UNCHANGED <<runtimes, recorded>>
    BY <1>1 DEF objectVars, history
  <2>3. TodoIsHarmless'
    BY <1>1, <2>1, <2>2, KeptIsSame DEF Inv, TodoIsHarmless, At, Ending, SameReconcile
  <2>4. DeploymentProgress'
    BY <1>1, <2>1, LeavingProgress DEF Leaving
  <2> QED BY <2>1, <2>3, <2>4
<1> QED BY <1>1, <1>2, <1>4, <1>5, <1>6, <1>7, CallGoesOn

\* The account is left: the use of it is no kept one.
LEMMA LeftFacts ==
  ASSUME Inv, run.pc \in Leaving, run' = Left, UNCHANGED <<ns, project, runtimes, recorded>>
  PROVE  /\ run' \in RunType /\ SameReconcile /\ RunIsSound'
         /\ run'.pc \in PC \ {"idle", "addFinalizer", "validate", "getUsage", "removeFinalizer"}
         /\ run'.pc \notin Leaving
         /\ Deploying => run'.pc \in DeployPCs
         /\ Deleting => run'.pc \in DeletePCs
         /\ run'.new.space = run.new.space
         /\ Applied(run.rt) => run'.new.account = run.new.account
         /\ CopyIsRecorded' /\ TodoIsHarmless' /\ DeploymentProgress'
<1>1. /\ run.pc # "idle" /\ Copied
      /\ run.old.account \in Accounts /\ UsesAreUnique(run.usage)
      /\ \A r \in Names : Kept(r) => InRecord(run.usage, r, SpecOf(r))
      /\ \A r \in Names : Kept(r) /\ SpecOf(r).account = run.old.account => r # run.rt
  BY LeavingFacts
<1>2. /\ run \in RunType /\ run.usage \in Usage /\ run.new \in Cache
      /\ Deploying <=> ~Deleting
      /\ Deleting => ~Applied(run.rt)
  BY <1>1, RunFacts
<1> DEFINE u == ForgetAccount(run.usage, run.old.account, run.rt)
           pc == IF Deploying THEN "createSpace" ELSE "deleteSpace"
           n == [run.new EXCEPT !.account = IF Deploying THEN @ ELSE NoAccount]
<1>3. /\ u \in Usage /\ u.runtimes = run.usage.runtimes
      /\ u.account = {x \in run.usage.account : ~(x.account = run.old.account /\ x.runtime = run.rt)}
  BY <1>2 DEF ForgetAccount, Usage
<1>4. n \in Cache /\ n.space = run.new.space /\ (Deploying => n.account = run.new.account)
  BY <1>2 DEF Cache
<1>5. run' = [run EXCEPT !.usage = u, !.pc = pc, !.new = n]
  BY <1>2 DEF Left, RunType, Me
<1>6. /\ pc \in PC \ {"idle", "addFinalizer", "validate", "getUsage", "removeFinalizer"}
      /\ Deploying => pc \in DeployPCs /\ pc = "createSpace"
      /\ Deleting => pc \in DeletePCs
      /\ pc \notin Leaving /\ pc \in {"createSpace", "deleteSpace"}
  BY <1>2 DEF PC, DeployPCs, DeletePCs, FromValidated, FromUsage, FromProduct, FromProject, Leaving
<1> HIDE DEF u, pc, n
<1>7. /\ run' \in RunType /\ SameReconcile /\ run'.pc = pc /\ run'.usage = u
      /\ run'.new = n /\ run'.failed = run.failed
  BY <1>2, <1>3, <1>4, <1>5, <1>6 DEF RunType, SameReconcile
<1>8. RunIsSound'
  BY <1>1, <1>4, <1>6, <1>7, GoesOn
<1>9. \A r \in Names : Kept(r) => InRecord(u, r, SpecOf(r))
  BY <1>1, <1>3 DEF InRecord, RecordedPerms
<1>10. CopyIsRecorded'
  <2>1. UsesAreUnique(u)
    BY <1>1, <1>3 DEF UsesAreUnique
  <2> QED BY <1>7, <1>9, <2>1, KeptIsSame
      DEF CopyIsRecorded, UsesAreUnique, InRecord, RecordedPerms
<1>11. TodoIsHarmless'
  BY <1>6, <1>7 DEF TodoIsHarmless, At, Ending
<1>12. DeploymentProgress'
  BY <1>3, <1>6, <1>7, LeavingProgress
<1> QED BY <1>2, <1>4, <1>6, <1>7, <1>8, <1>10, <1>11, <1>12

LEMMA OldRevokedKeepsInv ==
  ASSUME Inv, OldRevoked
  PROVE  Inv'
<1> DEFINE next == CASE Deploying -> GoTo("dropUser")
                     [] Deleting /\ Removable -> GoTo("deleteRole")
                     [] OTHER -> Left
<1>1. /\ run.pc = "revokeOld" /\ run.pc \in Leaving /\ run' = next
      /\ UNCHANGED <<clusterVars, listenerVars, hooks, faults, objectVars, history>>
  BY DEF OldRevoked, At, Leaving, Goes
<1>2. /\ UNCHANGED <<ns, project, runtimes, recorded>>
  BY <1>1 DEF clusterVars, objectVars, history
<1>3. /\ run.pc # "idle" /\ Copied /\ run.pc # "saveUsage"
      /\ \A r \in Names : Kept(r) /\ SpecOf(r).account = run.old.account => ~Removable
  BY <1>1, LeavingFacts
<1>4. Deploying <=> ~Deleting
  BY <1>3, RunFacts
<1>6. CASE Deploying
  <2>1. next = GoTo("dropUser")
    BY <1>4, <1>6
  <2>2. "dropUser" \in PC \ {"idle", "addFinalizer", "validate", "getUsage", "removeFinalizer"}
        /\ "dropUser" \in DeployPCs /\ "dropUser" \in Leaving
    BY DEF PC, DeployPCs, FromValidated, FromUsage, FromProduct, FromProject, Leaving
  <2> HIDE DEF next
  <2>3. /\ run' \in RunType /\ SameReconcile /\ run'.pc = "dropUser"
        /\ run'.new = run.new /\ run'.usage = run.usage /\ run'.failed = run.failed
    BY <1>1, <1>3, <2>1, <2>2, RunGoesTo
  <2>4. CopyIsRecorded'
    BY <1>2, <1>3, <2>3, SameCopy
  <2>5. TodoIsHarmless'
    BY <2>3 DEF TodoIsHarmless, At, Ending
  <2>6. DeploymentProgress'
    BY <1>1, <1>2, <2>2, <2>3, LeavingProgress
  <2> QED BY <1>1, <1>3, <1>4, <1>6, <2>2, <2>3, <2>4, <2>5, <2>6, LocalStep
<1>7. CASE Deleting /\ Removable
  <2>1. next = GoTo("deleteRole")
    BY <1>4, <1>7
  <2>2. "deleteRole" \in PC \ {"idle", "addFinalizer", "validate", "getUsage", "removeFinalizer"}
        /\ "deleteRole" \in DeletePCs /\ "deleteRole" \in Leaving
    BY DEF PC, DeletePCs, Leaving
  <2> HIDE DEF next
  <2>3. /\ run' \in RunType /\ SameReconcile /\ run'.pc = "deleteRole"
        /\ run'.new = run.new /\ run'.usage = run.usage /\ run'.failed = run.failed
    BY <1>1, <1>3, <2>1, <2>2, RunGoesTo
  <2>4. CopyIsRecorded'
    BY <1>2, <1>3, <2>3, SameCopy
  <2>5. TodoIsHarmless'
    BY <1>2, <1>3, <1>7, <2>3, KeptIsSame DEF TodoIsHarmless, At, Ending, SameReconcile
  <2>6. DeploymentProgress'
    BY <1>1, <1>2, <1>4, <1>7, <2>2, <2>3, LeavingProgress
  <2> QED BY <1>1, <1>3, <1>4, <1>7, <2>2, <2>3, <2>4, <2>5, <2>6, LocalStep
<1>8. CASE ~Deploying /\ ~Removable
  <2>1. run' = Left
    BY <1>1, <1>4, <1>8
  <2> HIDE DEF next
  <2> QED BY <1>1, <1>2, <1>3, <2>1, LeftFacts, LocalStep
<1> QED BY <1>4, <1>6, <1>7, <1>8

\* A user that is dropped is that of the old deployment: no kept runtime has its
\* account and its space, unless the space is left.
LEMMA DropUserKeepsInv ==
  ASSUME Inv, DropUser
  PROVE  Inv'
<1>1. run.pc = "dropUser" /\ run.pc \in Calls /\ run.pc \in Leaving
      /\ UNCHANGED <<objectVars, history>>
  BY DEF DropUser, At, Calls, PC, Leaving
<1>2. CASE Refuse
  BY <1>1, <1>2, RefuseKeepsInv
<1>3. CASE /\ DeleteSpaceUser(run.old.space, run.old.account) /\ Answer(Left)
           /\ UNCHANGED <<ns, accounts, project, apps, roles, usage, listenerVars, hooks>>
  <2>1. users \in [Spaces -> SUBSET (Accounts \cup {UserList})]
    BY DEF Inv, RestTyped, ClusterTypeOK
  <2>2. /\ users' \in [Spaces -> SUBSET (Accounts \cup {UserList})]
        /\ \A s \in Spaces : /\ users[s] \ {run.old.account} \subseteq users'[s]
                             /\ s # run.old.space => users'[s] = users[s]
    BY <1>3, <2>1 DEF DeleteSpaceUser
  <2>3. ClusterTypeOK'
    BY <1>3, <2>2 DEF Inv, RestTyped, ClusterTypeOK
  <2>4. UNCHANGED <<runtimes, recorded, left, abandoned>>
    BY <1>1 DEF objectVars, history
  <2>5. /\ run.rt \in Names /\ run.old = runtimes[run.rt].cache
        /\ \A r \in Names : Kept(r) /\ SpecOf(r).account = run.old.account => r # run.rt
    BY <1>1, LeavingFacts, RunFacts
  <2>6. KeptIsDeployed'
    <3>1. ASSUME NEW r \in Names, NEW spec \in Specs, Kept(r), SpecOf(r) = spec, DeployedAs(r, spec)
          PROVE  DeployedAs(r, spec)'
      <4>1. spec.space \in Spaces
        BY ConstantFacts
      <4>2. spec.account = run.old.account /\ spec.space = run.old.space => spec.space \in left
        BY <2>5, <3>1 DEF Inv, SharedIsLeft
      <4>3. HasSpace(spec) => HasSpace(spec)' \/ spec.space \in left
        BY <1>3, <2>2, <4>1, <4>2 DEF HasSpace, Operable
      <4> QED BY <1>3, <2>4, <3>1, <4>3 DEF DeployedAs, Operable, HasPerms
    <3> QED BY <2>4, <3>1, KeptStays
  <2>7. /\ ListenerTypeOK' /\ hooks' \in [Spaces -> Repos \cup {NoRepo}] /\ abandoned' \subseteq Names
    BY <1>3, <2>4, RestIsTyped
  <2>8. ASSUME run' = Left
        PROVE  /\ SameReconcile /\ RunIsSound'
               /\ run'.pc \in PC \ {"idle", "addFinalizer", "validate", "getUsage",
                                    "removeFinalizer"}
               /\ Applied(run.rt) => /\ run'.new.account = run.new.account
                                     /\ run'.new.space = run.new.space
               /\ CopyIsRecorded' /\ TodoIsHarmless' /\ DeploymentProgress'
    BY <1>1, <1>3, <2>4, <2>8, LeftFacts
  <2> QED BY <1>1, <1>3, <2>3, <2>4, <2>6, <2>7, <2>8, AnswerStep
<1> QED BY <1>2, <1>3 DEF DropUser

LEMMA DeleteProductRoleKeepsInv ==
  ASSUME Inv, DeleteProductRole
  PROVE  Inv'
<1>1. /\ run.pc = "deleteRole" /\ run.pc \in Calls /\ run.pc \in Leaving
      /\ Answer(GoTo("deleteAccount")) /\ DeleteRole(run.old.account)
      /\ UNCHANGED <<ns, users, accounts, project, apps, usage, listenerVars, hooks, objectVars, history>>
  BY DEF DeleteProductRole, At, Calls, PC, Leaving, Rest
<1>2. /\ roles \in [Accounts -> Role] /\ run.old.account \in Accounts /\ NoRole \in Role
      /\ run.pc # "idle"
  BY <1>1, LeavingFacts DEF Inv, RestTyped, ClusterTypeOK, NoRole, Role
<1>3. /\ roles' \in [Accounts -> Role]
      /\ \A a \in Accounts : a # run.old.account => roles'[a] = roles[a]
  BY <1>1, <1>2 DEF DeleteRole
<1>4. ClusterTypeOK'
  BY <1>1, <1>3 DEF Inv, RestTyped, ClusterTypeOK
<1>5. \A r \in Names : Kept(r) => SpecOf(r).account # run.old.account
  BY <1>1 DEF Inv, TodoIsHarmless
<1>6. UNCHANGED <<runtimes, recorded, left>>
  BY <1>1 DEF objectVars, history
<1>7. KeptIsDeployed'
  <2>1. ASSUME NEW r \in Names, NEW spec \in Specs, Kept(r), SpecOf(r) = spec, DeployedAs(r, spec)
        PROVE  DeployedAs(r, spec)'
    BY <1>1, <1>3, <1>5, <1>6, <2>1, ConstantFacts
    DEF DeployedAs, Operable, HasSpace, HasPerms
  <2> QED BY <1>6, <2>1, KeptStays
<1>8. "deleteAccount" \in PC \ {"idle", "addFinalizer", "validate", "getUsage", "removeFinalizer"}
      /\ "deleteAccount" \in DeployPCs /\ "deleteAccount" \in DeletePCs
  BY DEF PC, DeployPCs, DeletePCs, FromValidated, FromUsage, FromProduct, FromProject, Leaving
<1>9. ASSUME run' = GoTo("deleteAccount")
      PROVE  /\ run' \in RunType /\ SameReconcile /\ run'.pc = "deleteAccount"
             /\ run'.usage = run.usage /\ run'.new = run.new
             /\ TodoIsHarmless' /\ DeploymentProgress'
  <2>1. /\ run' \in RunType /\ SameReconcile /\ run'.pc = "deleteAccount" /\ run'.usage = run.usage
        /\ run'.failed = run.failed /\ run'.new = run.new
    BY <1>2, <1>8, <1>9, RunGoesTo
  <2>2. TodoIsHarmless'
    BY <1>5, <1>6, <2>1, KeptIsSame DEF TodoIsHarmless, At, Ending, SameReconcile
  <2>3. DeploymentProgress'
    BY <1>1, <2>1, LeavingProgress DEF Leaving
  <2> QED BY <2>1, <2>2, <2>3
<1> QED BY <1>1, <1>4, <1>7, <1>8, <1>9, CallGoesOn

LEMMA DeleteProductAccountKeepsInv ==
  ASSUME Inv, DeleteProductAccount
  PROVE  Inv'
<1>1. /\ run.pc = "deleteAccount" /\ run.pc \in Calls /\ run.pc \in Leaving
      /\ Answer(Left) /\ DeleteAccount(run.old.account)
      /\ UNCHANGED <<ns, project, apps, roles, usage, listenerVars, hooks, objectVars, history>>
  BY DEF DeleteProductAccount, At, Calls, PC, Leaving, Rest
<1>2. users \in [Spaces -> SUBSET (Accounts \cup {UserList})] /\ accounts \subseteq Accounts
  BY DEF Inv, RestTyped, ClusterTypeOK
<1>3. /\ users' \in [Spaces -> SUBSET (Accounts \cup {UserList})] /\ accounts' \subseteq Accounts
      /\ accounts \ {run.old.account} \subseteq accounts'
      /\ \A s \in Spaces : users[s] \ {run.old.account} \subseteq users'[s]
  BY <1>1, <1>2 DEF DeleteAccount
<1>4. ClusterTypeOK'
  BY <1>1, <1>3 DEF Inv, RestTyped, ClusterTypeOK
<1>5. \A r \in Names : Kept(r) => SpecOf(r).account # run.old.account
  BY <1>1 DEF Inv, TodoIsHarmless
<1>6. UNCHANGED <<runtimes, recorded, left, abandoned>>
  BY <1>1 DEF objectVars, history
<1>7. KeptIsDeployed'
  <2>1. ASSUME NEW r \in Names, NEW spec \in Specs, Kept(r), SpecOf(r) = spec, DeployedAs(r, spec)
        PROVE  DeployedAs(r, spec)'
    <3>1. spec.space \in Spaces /\ spec.account # run.old.account
      BY <1>5, <2>1, ConstantFacts
    <3>2. (HasSpace(spec) => HasSpace(spec)') /\ spec.account \in accounts'
      BY <1>1, <1>3, <2>1, <3>1 DEF DeployedAs, HasSpace, Operable
    <3> QED BY <1>1, <1>6, <2>1, <3>2 DEF DeployedAs, Operable, HasPerms
  <2> QED BY <1>6, <2>1, KeptStays
<1>8. /\ ListenerTypeOK' /\ hooks' \in [Spaces -> Repos \cup {NoRepo}] /\ abandoned' \subseteq Names
  BY <1>1, <1>6, RestIsTyped
<1>9. ASSUME run' = Left
      PROVE  /\ SameReconcile /\ RunIsSound'
             /\ run'.pc \in PC \ {"idle", "addFinalizer", "validate", "getUsage",
                                  "removeFinalizer"}
             /\ Applied(run.rt) => /\ run'.new.account = run.new.account
                                   /\ run'.new.space = run.new.space
             /\ CopyIsRecorded' /\ TodoIsHarmless' /\ DeploymentProgress'
  BY <1>1, <1>6, <1>9, LeftFacts
<1> QED BY <1>1, <1>4, <1>6, <1>7, <1>8, <1>9, AnswerStep

-----------------------------------------------------------------------------
(* The space and the account of a deployment. *)

\* The same as RunGoesTo, for a given todo.
LEMMA RunDoes ==
  ASSUME Inv, run.pc # "idle", NEW pc \in PC, NEW todo \in SUBSET Repos, run' = Do(pc, todo)
  PROVE  /\ run' \in RunType /\ SameReconcile /\ run'.pc = pc /\ run'.todo = todo
         /\ run'.new = run.new /\ run'.usage = run.usage /\ run'.failed = run.failed
  BY RunGoesTo

AccountPCs == {"createSpace", "createAccount", "addUser", "createRole", "grant", "revoke"}

LEMMA AccountPCFacts ==
  /\ AccountPCs \subseteq Calls
  /\ AccountPCs \subseteq PC \ {"idle", "addFinalizer", "validate", "getUsage", "saveUsage", "saveStatus",
                          "removeFinalizer"}
  /\ AccountPCs \subseteq DeployPCs
  /\ AccountPCs \cap (Leaving \cup Ending \cup ListeningPCs \cup DeletePCs) = {}
  BY DEF AccountPCs, Calls, PC, DeployPCs, FromValidated, FromUsage, FromProduct, FromProject, FromSpace,
         FromAccount, FromUser, FromRole, FromGranted, Leaving, Ending, ListeningPCs, Unlistening, DeletePCs

\* These steps belong to deployments.
LEMMA DeployingFacts ==
  ASSUME Inv, run.pc \in AccountPCs
  PROVE  /\ run.pc # "idle" /\ Copied /\ run.pc \in Calls /\ run.pc # "saveUsage"
         /\ Deploying /\ ~Deleting
         /\ run.rt \in Names /\ run \in RunType /\ run.usage \in Usage
         /\ run.old \in Cache /\ run.new \in Cache /\ run.todo \subseteq Repos
         /\ run.spec \in Specs /\ run.spec.space \in Spaces /\ run.spec.account \in Accounts
         /\ Perms(run.spec) \subseteq Repos
         /\ UsesAreUnique(run.usage)
         /\ \A r \in Names : Kept(r) => InRecord(run.usage, r, SpecOf(r)) /\ DeployedAs(r, SpecOf(r))
         /\ Applied(run.rt) => SpecOf(run.rt) = run.spec /\ run.new.account = run.spec.account
<1>1. run.pc # "idle" /\ Copied /\ run.pc \in Calls /\ run.pc # "saveUsage"
  BY AccountPCFacts DEF Copied
<1>2. Deploying /\ ~Deleting
  BY <1>1, RunFacts, AccountPCFacts
<1>3. /\ run.rt \in Names /\ run \in RunType /\ run.usage \in Usage
      /\ run.old \in Cache /\ run.new \in Cache /\ run.todo \subseteq Repos
      /\ run.spec \in Specs /\ run.spec.space \in Spaces /\ run.spec.account \in Accounts
      /\ Perms(run.spec) \subseteq Repos
      /\ Applied(run.rt) => SpecOf(run.rt) = run.spec /\ run.new.account = run.spec.account
  BY <1>1, RunFacts, ConstantFacts
<1> QED BY <1>1, <1>2, <1>3 DEF Inv, CopyIsRecorded, KeptIsDeployed

\* How far such a deployment has come.
LEMMA DeployingProgress ==
  ASSUME Inv, run.pc \in AccountPCs, ~run.failed
  PROVE  /\ run.rt \in run.usage.runtimes /\ Operable(Product) /\ project = "granted"
         /\ run.pc # "createSpace" => Operable(run.spec.space) /\ run.new.space = run.spec.space
         /\ run.pc \notin {"createSpace", "createAccount"} => run.spec.account \in accounts
         /\ run.pc \in {"createRole", "grant", "revoke"} => run.spec.account \in users[run.spec.space]
         /\ run.pc \in {"grant", "revoke"} =>
              roles[run.spec.account].exists /\ run.spec.space \in roles[run.spec.account].spaces
         /\ run.pc = "grant" => Perms(run.spec) \ run.todo \subseteq roles[run.spec.account].perms
         /\ run.pc = "revoke" => /\ Perms(run.spec) \subseteq roles[run.spec.account].perms
                                 /\ RecordedPerms(run.usage, run.rt, run.spec)
                                 /\ Perms(run.spec) \cap run.todo = {}
<1>1. Deploying
  BY DeployingFacts
<1> QED BY <1>1
    DEF Inv, DeploymentProgress, AccountPCs, FromUsage, FromProduct, FromProject, FromSpace,
        FromAccount, FromUser, FromRole, FromGranted, At, HasPerms

LEMMA CreateSpaceKeepsInv ==
  ASSUME Inv, CreateSpace
  PROVE  Inv'
<1> DEFINE next == [run EXCEPT !.pc = "createAccount", !.new.space = run.spec.space]
<1>1. run.pc = "createSpace" /\ run.pc \in AccountPCs /\ UNCHANGED <<objectVars, history>>
  BY DEF CreateSpace, At, AccountPCs
<1>2. CASE Refuse
  BY <1>1, <1>2, DeployingFacts, RefuseKeepsInv
<1>3. CASE CreateNamespace(run.spec.space) /\ Answer(next)
           /\ UNCHANGED <<users, accounts, project, apps, roles, usage, listenerVars, hooks>>
  <2>1. ns \in [Spaces \cup {Product} -> {"none", "active", "terminating"}]
    BY DEF Inv, RestTyped, ClusterTypeOK
  <2>2. ClusterTypeOK' /\ ClusterGrows /\ Operable(run.spec.space)'
    <3>1. PICK s \in Spaces : s = run.spec.space
      BY <1>1, DeployingFacts
    <3>2. /\ ns' \in [Spaces \cup {Product} -> {"none", "active", "terminating"}] /\ ns'[s] = "active"
          /\ \A t \in Spaces \cup {Product} : ns[t] = "active" => ns'[t] = "active"
      BY <1>3, <2>1, <3>1 DEF CreateNamespace
    <3>3. ns'[run.spec.space] = "active"
      BY <3>1, <3>2
    <3>4. Operable(run.spec.space)' <=> ns'[run'.spec.space] = "active"
      BY DEF Operable
    <3>5. run'.spec = run.spec
      <4>1. run' = next \/ run' = Failed
        BY <1>3 DEF Answer
      <4> QED BY <1>1, <4>1, DeployingFacts, FailedFacts DEF RunType
    <3> QED BY <1>3, <3>2, <3>3, <3>4, <3>5
        DEF Inv, RestTyped, ClusterTypeOK, ClusterGrows, Operable
  <2>3. KeptIsDeployed'
    BY <1>1, <1>3, <2>2, GrowthKeeps
  <2>4. "createAccount" \in AccountPCs
    BY DEF AccountPCs
  <2>5. ASSUME run' = next
        PROVE  /\ run' \in RunType /\ SameReconcile /\ run'.usage = run.usage
               /\ run'.pc = "createAccount" /\ run'.new.space = run.spec.space
               /\ run'.new.account = run.new.account
               /\ TodoIsHarmless' /\ DeploymentProgress'
    <3>0. PICK n : n = [run.new EXCEPT !.space = run.spec.space]
      OBVIOUS
    <3>1. n \in Cache /\ n.space = run.spec.space /\ n.account = run.new.account
      BY <1>1, <3>0, DeployingFacts DEF Cache
    <3>2. run' = [run EXCEPT !.pc = "createAccount", !.new = n]
      BY <1>1, <2>5, <3>0, DeployingFacts DEF RunType
    <3>3. /\ run' \in RunType /\ SameReconcile /\ run'.pc = "createAccount"
          /\ run'.usage = run.usage /\ run'.failed = run.failed /\ run'.new = n
      BY <1>1, <2>4, <3>1, <3>2, DeployingFacts, AccountPCFacts DEF RunType, SameReconcile
    <3>4. TodoIsHarmless'
      BY <3>3 DEF TodoIsHarmless, At, Ending
    <3>5. ~run.failed => run.rt \in run.usage.runtimes /\ Operable(Product)' /\ project' = "granted"
      BY <1>1, <2>2, DeployingProgress DEF ClusterGrows
    <3>6. DeploymentProgress'
      BY <2>2, <3>1, <3>3, <3>5
      DEF DeploymentProgress, At, SameReconcile,
          FromAccount, FromUser, FromRole, FromGranted, FromSynced, FromSaved,
          ListeningPCs, Unlistening
    <3> QED BY <3>1, <3>3, <3>4, <3>6
  <2>6. UNCHANGED <<usage, listenerVars, hooks, objectVars, history>>
    BY <1>1, <1>3
  <2> HIDE DEF next
  <2>7. run.pc \in Calls /\ Deploying /\ ~Deleting
    BY <1>1, DeployingFacts
  <2>8. "createAccount" \in PC \ {"idle", "addFinalizer", "validate", "getUsage", "removeFinalizer"}
        /\ "createAccount" \in DeployPCs /\ "createAccount" \notin Leaving
    BY <2>4, AccountPCFacts
  <2> QED BY <1>3, <2>2, <2>3, <2>5, <2>6, <2>7, <2>8, CallGoesOn
<1> QED BY <1>2, <1>3 DEF CreateSpace

LEMMA CreateProductAccountKeepsInv ==
  ASSUME Inv, CreateProductAccount
  PROVE  Inv'
<1>1. run.pc = "createAccount" /\ run.pc \in AccountPCs /\ UNCHANGED <<objectVars, history>>
  BY DEF CreateProductAccount, At, AccountPCs
<1>2. CASE Refuse
  BY <1>1, <1>2, DeployingFacts, RefuseKeepsInv
<1>3. CASE CreateAccount(run.spec.account) /\ Answer(GoTo("addUser"))
           /\ UNCHANGED <<ns, users, project, apps, roles, usage, listenerVars, hooks>>
  <2>1. run.spec.account \in Accounts /\ run.pc # "idle" /\ Deploying /\ ~Deleting /\ run.pc \in Calls
    BY <1>1, DeployingFacts
  <2>2. accounts' = accounts \cup {run.spec.account}
    BY <1>3 DEF CreateAccount
  <2>3. ClusterTypeOK' /\ ClusterGrows
    BY <1>3, <2>1, <2>2 DEF Inv, RestTyped, ClusterTypeOK, ClusterGrows, Operable
  <2>4. KeptIsDeployed'
    BY <1>1, <1>3, <2>3, GrowthKeeps
  <2>5. "addUser" \in PC \ {"idle", "addFinalizer", "validate", "getUsage", "removeFinalizer"}
        /\ "addUser" \in DeployPCs /\ "addUser" \notin Leaving
    BY AccountPCFacts DEF AccountPCs
  <2>6. ASSUME run' = GoTo("addUser")
        PROVE  /\ run' \in RunType /\ SameReconcile /\ run'.usage = run.usage
               /\ run'.pc = "addUser" /\ run'.new = run.new
               /\ TodoIsHarmless' /\ DeploymentProgress'
    <3>1. /\ run' \in RunType /\ SameReconcile /\ run'.pc = "addUser" /\ run'.usage = run.usage
          /\ run'.failed = run.failed /\ run'.new = run.new
      BY <2>1, <2>5, <2>6, RunGoesTo
    <3>2. TodoIsHarmless'
      BY <3>1 DEF TodoIsHarmless, At, Ending
    <3>3. ~run.failed => /\ run.rt \in run.usage.runtimes /\ Operable(Product) /\ project = "granted"
                         /\ Operable(run.spec.space) /\ run.new.space = run.spec.space
      BY <1>1, DeployingProgress
    <3>4. DeploymentProgress'
      BY <1>3, <2>2, <3>1, <3>3
      DEF DeploymentProgress, At, SameReconcile, FromUser, FromRole, FromGranted, FromSynced,
          FromSaved, ListeningPCs, Unlistening, Operable
    <3> QED BY <3>1, <3>2, <3>4
  <2>7. UNCHANGED <<usage, listenerVars, hooks, objectVars, history>>
    BY <1>1, <1>3
  <2> QED BY <1>3, <2>1, <2>3, <2>4, <2>5, <2>6, <2>7, CallGoesOn
<1> QED BY <1>2, <1>3 DEF CreateProductAccount

\* The use of an account by a runtime is replaced: there is one afterwards, and
\* every other use is as it was.
LEMMA UseFacts ==
  ASSUME NEW u \in Usage, UsesAreUnique(u), NEW a \in Accounts, NEW q \in Names
  PROVE  LET x == UseOf(u, a, q)
         IN /\ x \in AccountUse /\ x.account = a /\ x.runtime = q
            /\ \A y \in u.account : y.account = a /\ y.runtime = q => y = x
<1>1. CASE \E y \in u.account : y.account = a /\ y.runtime = q
  <2>1. PICK y \in u.account : y.account = a /\ y.runtime = q
    BY <1>1
  <2>2. UseOf(u, a, q) = CHOOSE z \in u.account : z.account = a /\ z.runtime = q
    BY <1>1 DEF UseOf
  <2>3. UseOf(u, a, q) \in u.account /\ UseOf(u, a, q).account = a /\ UseOf(u, a, q).runtime = q
    BY <2>1, <2>2
  <2>4. u.account \subseteq AccountUse
    BY DEF Usage
  <2> QED BY <2>3, <2>4 DEF UsesAreUnique
<1>2. CASE ~\E y \in u.account : y.account = a /\ y.runtime = q
  <2>1. UseOf(u, a, q) = [account |-> a, runtime |-> q, spaces |-> {}, perms |-> {}]
    BY <1>2 DEF UseOf
  <2> QED BY <1>2, <2>1 DEF AccountUse
<1> QED BY <1>1, <1>2

UseReplaced(u, a, q, y) == [ForgetAccount(u, a, q) EXCEPT !.account = @ \cup {y}]

LEMMA ReplacedUse ==
  ASSUME NEW u \in Usage, UsesAreUnique(u), NEW a \in Accounts, NEW q \in Names,
         NEW y \in AccountUse, y.account = a, y.runtime = q,
         NEW v, v = UseReplaced(u, a, q, y)
  PROVE  /\ v \in Usage /\ UsesAreUnique(v) /\ v.runtimes = u.runtimes
         /\ y \in v.account
         /\ \A x \in u.account : ~(x.account = a /\ x.runtime = q) => x \in v.account
<1> DEFINE w == ForgetAccount(u, a, q)
<1>1. /\ w \in Usage /\ w.runtimes = u.runtimes
      /\ w.account = {x \in u.account : ~(x.account = a /\ x.runtime = q)}
  BY DEF ForgetAccount, Usage
<1> HIDE DEF w
<1>2. /\ v \in Usage /\ v.runtimes = w.runtimes /\ v.account = w.account \cup {y}
  <2>1. v = [w EXCEPT !.account = @ \cup {y}]
    BY DEF w, UseReplaced
  <2>2. w.account \cup {y} \in SUBSET AccountUse
    BY <1>1 DEF Usage
  <2>3. PICK z \in SUBSET AccountUse : z = w.account \cup {y}
    BY <2>2
  <2>4. v = [w EXCEPT !.account = z]
    BY <2>1, <2>3
  <2> QED BY <1>1, <2>3, <2>4 DEF Usage
<1>3. UsesAreUnique(v)
  BY <1>1, <1>2 DEF UsesAreUnique
<1> QED BY <1>1, <1>2, <1>3

\* A deployment records its use of the account; what is kept stays recorded.
LEMMA UseIsRecorded ==
  ASSUME Inv, run.pc \in AccountPCs, NEW y \in AccountUse,
         y.account = run.spec.account, y.runtime = run.rt,
         \/ Perms(run.spec) \subseteq y.perms
         \/ \A x \in run.usage.account :
              x.account = run.spec.account /\ x.runtime = run.rt => x.perms = y.perms,
         NEW u, u = UseReplaced(run.usage, run.spec.account, run.rt, y)
  PROVE  /\ u \in Usage /\ UsesAreUnique(u) /\ u.runtimes = run.usage.runtimes /\ y \in u.account
         /\ \A r \in Names : Kept(r) => InRecord(u, r, SpecOf(r))
<1>1. PICK q \in Names, a \in Accounts : q = run.rt /\ a = run.spec.account
  BY DeployingFacts
<1>2. /\ run.usage \in Usage /\ UsesAreUnique(run.usage)
      /\ \A r \in Names : Kept(r) => InRecord(run.usage, r, SpecOf(r))
      /\ Applied(q) => SpecOf(q) = run.spec
  BY <1>1, DeployingFacts
<1>3. /\ u \in Usage /\ UsesAreUnique(u) /\ u.runtimes = run.usage.runtimes /\ y \in u.account
      /\ \A x \in run.usage.account : ~(x.account = a /\ x.runtime = q) => x \in u.account
  BY <1>1, <1>2, ReplacedUse
<1>4. ASSUME NEW r \in Names, Kept(r) PROVE InRecord(u, r, SpecOf(r))
  <2>1. PICK x \in run.usage.account :
          x.account = SpecOf(r).account /\ x.runtime = r /\ Perms(SpecOf(r)) \subseteq x.perms
    BY <1>2, <1>4 DEF InRecord, RecordedPerms
  <2>2. r \in u.runtimes
    BY <1>2, <1>3, <1>4 DEF InRecord
  <2>3. CASE ~(x.account = a /\ x.runtime = q)
    BY <1>3, <2>1, <2>2, <2>3 DEF InRecord, RecordedPerms
  <2>4. CASE x.account = a /\ x.runtime = q
    <3>1. r = q /\ SpecOf(r) = run.spec
      BY <1>2, <1>4, <2>1, <2>4 DEF Kept
    <3>2. Perms(run.spec) \subseteq y.perms
      BY <1>1, <2>1, <2>4, <3>1
    <3> QED BY <1>1, <1>3, <2>2, <3>1, <3>2 DEF InRecord, RecordedPerms
  <2> QED BY <2>3, <2>4
<1> QED BY <1>3, <1>4

LEMMA CopyFollows ==
  ASSUME UNCHANGED <<runtimes, recorded>>, NEW u, run'.usage = u, UsesAreUnique(u),
         \A r \in Names : Kept(r) => InRecord(u, r, SpecOf(r))
  PROVE  CopyIsRecorded'
  BY KeptIsSame DEF CopyIsRecorded, UsesAreUnique, InRecord, RecordedPerms

LEMMA AddUserKeepsInv ==
  ASSUME Inv, AddUser
  PROVE  Inv'
<1> DEFINE next == [run EXCEPT !.pc = "createRole",
                               !.usage = UpdateSpaces(@, run.spec.account, Me, {run.spec.space})]
<1>1. run.pc = "addUser" /\ run.pc \in AccountPCs /\ UNCHANGED <<objectVars, history>>
  BY DEF AddUser, At, AccountPCs
<1>2. CASE Refuse
  BY <1>1, <1>2, DeployingFacts, RefuseKeepsInv
<1>3. CASE /\ AddSpaceUser(run.spec.space, run.spec.account) /\ Answer(next)
           /\ UNCHANGED <<ns, accounts, project, apps, roles, usage, listenerVars, hooks>>
  <2>1. /\ run.pc # "idle" /\ run.pc \in Calls /\ Deploying /\ ~Deleting
        /\ run \in RunType /\ run.usage \in Usage /\ UsesAreUnique(run.usage)
        /\ run.rt \in Names /\ run.spec.account \in Accounts /\ run.spec.space \in Spaces
    BY <1>1, DeployingFacts
  <2>2. users \in [Spaces -> SUBSET (Accounts \cup {UserList})]
    BY DEF Inv, RestTyped, ClusterTypeOK
  <2>3. /\ users' \in [Spaces -> SUBSET (Accounts \cup {UserList})] /\ run.spec.account \in users'[run.spec.space]
        /\ \A s \in Spaces : users[s] \subseteq users'[s]
    BY <1>3, <2>1, <2>2 DEF AddSpaceUser
  <2>4. ClusterTypeOK' /\ ClusterGrows
    BY <1>3, <2>3 DEF Inv, RestTyped, ClusterTypeOK, ClusterGrows, Operable
  <2>5. KeptIsDeployed'
    BY <1>1, <1>3, <2>4, GrowthKeeps
  <2>6. /\ UNCHANGED <<usage, objectVars, recorded, runtimes>> /\ abandoned' \subseteq Names
        /\ ListenerTypeOK' /\ hooks' \in [Spaces -> Repos \cup {NoRepo}]
    BY <1>1, <1>3, RestIsTyped DEF history, objectVars
  <2>7. "createRole" \in AccountPCs
    BY DEF AccountPCs
  <2>8. ASSUME run' = next
        PROVE  /\ SameReconcile /\ RunIsSound'
               /\ run'.pc \in PC \ {"idle", "addFinalizer", "validate", "getUsage",
                                    "removeFinalizer"}
               /\ run'.new = run.new
               /\ CopyIsRecorded' /\ TodoIsHarmless' /\ DeploymentProgress'
    <3> DEFINE use == UseOf(run.usage, run.spec.account, run.rt)
               y == [use EXCEPT !.spaces = {run.spec.space}]
               u == UpdateSpaces(run.usage, run.spec.account, run.rt, {run.spec.space})
    <3>1. /\ use \in AccountUse /\ use.account = run.spec.account /\ use.runtime = run.rt
          /\ \A x \in run.usage.account : x.account = run.spec.account /\ x.runtime = run.rt => x = use
      BY <2>1, UseFacts
    <3>2. u = UseReplaced(run.usage, run.spec.account, run.rt, y)
      BY DEF UpdateSpaces, UseReplaced
    <3>3. run' = [run EXCEPT !.pc = "createRole", !.usage = u]
      BY <2>1, <2>8 DEF RunType, Me
    <3> HIDE DEF use, u, next
    <3>4. /\ y \in AccountUse /\ y.account = run.spec.account /\ y.runtime = run.rt
          /\ y.perms = use.perms
      BY <2>1, <3>1 DEF AccountUse
    <3> HIDE DEF y
    <3>5. \A x \in run.usage.account :
            x.account = run.spec.account /\ x.runtime = run.rt => x.perms = y.perms
      BY <3>1, <3>4
    <3>6. /\ u \in Usage /\ UsesAreUnique(u) /\ u.runtimes = run.usage.runtimes
          /\ \A r \in Names : Kept(r) => InRecord(u, r, SpecOf(r))
      BY <1>1, <3>2, <3>4, <3>5, UseIsRecorded
    <3>7. /\ run' \in RunType /\ SameReconcile /\ run'.pc = "createRole"
          /\ run'.usage = u /\ run'.failed = run.failed /\ run'.new = run.new
      BY <2>1, <2>7, <3>3, <3>6, AccountPCFacts DEF RunType, SameReconcile
    <3>8. RunIsSound'
      BY <2>1, <2>7, <3>7, AccountPCFacts, GoesOn
    <3>9. CopyIsRecorded'
      BY <2>6, <3>6, <3>7, CopyFollows
    <3>10. TodoIsHarmless'
      BY <3>7 DEF TodoIsHarmless, At, Ending
    <3>11. ~run.failed => /\ run.rt \in run.usage.runtimes /\ Operable(Product) /\ project = "granted"
                          /\ Operable(run.spec.space) /\ run.new.space = run.spec.space
                          /\ run.spec.account \in accounts
      BY <1>1, DeployingProgress
    <3>12. DeploymentProgress'
      BY <1>3, <2>3, <3>6, <3>7, <3>11
      DEF DeploymentProgress, At, SameReconcile, FromRole, FromGranted, FromSynced,
          FromSaved, ListeningPCs, Unlistening, Operable
    <3> QED BY <2>7, <3>7, <3>8, <3>9, <3>10, <3>12, AccountPCFacts
  <2> HIDE DEF next
  <2> QED BY <1>3, <2>1, <2>4, <2>5, <2>6, <2>8, AnswerStep
<1> QED BY <1>2, <1>3 DEF AddUser

LEMMA CreateAccountRoleKeepsInv ==
  ASSUME Inv, CreateAccountRole
  PROVE  Inv'
<1>1. run.pc = "createRole" /\ run.pc \in AccountPCs /\ UNCHANGED <<objectVars, history>>
  BY DEF CreateAccountRole, At, AccountPCs
<1>2. CASE Refuse
  BY <1>1, <1>2, DeployingFacts, RefuseKeepsInv
<1>3. CASE CreateRole(run.spec.account) /\ Answer(Do("grant", Perms(run.spec)))
           /\ UNCHANGED <<ns, users, accounts, project, apps, usage, listenerVars, hooks>>
  <2>1. /\ run.pc # "idle" /\ run.pc \in Calls /\ Deploying /\ ~Deleting /\ run.spec \in Specs
        /\ run.spec.account \in Accounts /\ run.spec.space \in Spaces /\ Perms(run.spec) \in SUBSET Repos
    BY <1>1, DeployingFacts
  <2>2. roles \in [Accounts -> Role] /\ AccountSpaces(run.spec.account) \subseteq Spaces
    BY DEF Inv, RestTyped, ClusterTypeOK, AccountSpaces
  <2>3. /\ roles' \in [Accounts -> Role]
        /\ roles'[run.spec.account].exists
        /\ roles'[run.spec.account].spaces = AccountSpaces(run.spec.account)
        /\ \A a \in Accounts : /\ a # run.spec.account => roles'[a] = roles[a]
                               /\ roles'[a].perms = roles[a].perms
    BY <1>3, <2>1, <2>2 DEF CreateRole, Role
  <2>4. ClusterTypeOK'
    BY <1>3, <2>3 DEF Inv, RestTyped, ClusterTypeOK
  <2>5. UNCHANGED <<runtimes, recorded, left>>
    BY <1>1 DEF objectVars, history
  <2>6. KeptIsDeployed'
    <3>1. ASSUME NEW r \in Names, NEW spec \in Specs, DeployedAs(r, spec) PROVE DeployedAs(r, spec)'
      <4>1. spec.account \in Accounts /\ spec.space \in Spaces
        BY ConstantFacts
      <4>2. HasSpace(spec) => HasSpace(spec)'
        BY <1>3, <2>3, <4>1 DEF HasSpace, Operable, AccountSpaces
      <4>3. roles[spec.account].exists => roles'[spec.account].exists
        BY <2>3, <4>1
      <4> QED BY <1>3, <2>3, <2>5, <3>1, <4>1, <4>2, <4>3 DEF DeployedAs, Operable, HasPerms
    <3> QED BY <2>5, <3>1, KeptStays
  <2>7. "grant" \in PC \ {"idle", "addFinalizer", "validate", "getUsage", "removeFinalizer"}
        /\ "grant" \in DeployPCs /\ "grant" \notin Leaving
    BY AccountPCFacts DEF AccountPCs
  <2>8. ASSUME run' = Do("grant", Perms(run.spec))
        PROVE  /\ run' \in RunType /\ SameReconcile /\ run'.usage = run.usage
               /\ run'.pc = "grant" /\ run'.new = run.new
               /\ TodoIsHarmless' /\ DeploymentProgress'
    <3>0. PICK todo \in SUBSET Repos : todo = Perms(run.spec)
      BY <2>1
    <3>1. /\ run' \in RunType /\ SameReconcile /\ run'.pc = "grant" /\ run'.usage = run.usage
          /\ run'.failed = run.failed /\ run'.new = run.new /\ run'.todo = todo
      BY <2>1, <2>7, <2>8, <3>0, RunDoes
    <3>2. TodoIsHarmless'
      BY <3>1 DEF TodoIsHarmless, At, Ending
    <3>3. ~run.failed => /\ run.rt \in run.usage.runtimes /\ Operable(Product) /\ project = "granted"
                         /\ Operable(run.spec.space) /\ run.new.space = run.spec.space
                         /\ run.spec.account \in accounts
                         /\ run.spec.account \in users[run.spec.space]
      BY <1>1, DeployingProgress
    <3>4. ~run.failed => run.spec.space \in roles'[run.spec.account].spaces
      BY <2>1, <2>3, <3>3 DEF AccountSpaces
    <3>5. PICK spec \in Specs : spec = run.spec
      BY <2>1
    <3>6. Perms(spec) \ run'.todo = {}
      BY <3>0, <3>1, <3>5
    <3>7. DeploymentProgress'
      BY <1>3, <2>3, <3>1, <3>3, <3>4, <3>5, <3>6
      DEF DeploymentProgress, At, SameReconcile, FromGranted, FromSynced,
          FromSaved, ListeningPCs, Unlistening, Operable, Perms
    <3> QED BY <3>1, <3>2, <3>7
  <2>9. UNCHANGED <<usage, listenerVars, hooks, objectVars, history>>
    BY <1>1, <1>3
  <2> QED BY <1>3, <2>1, <2>4, <2>6, <2>7, <2>8, <2>9, CallGoesOn
<1> QED BY <1>2, <1>3 DEF CreateAccountRole

-----------------------------------------------------------------------------
(* The permissions of a deployment. *)

LEMMA GrantKeepsInv ==
  ASSUME Inv, NEW p \in Repos, Grant(p)
  PROVE  Inv'
<1>1. /\ run.pc = "grant" /\ run.pc \in AccountPCs /\ p \in run.todo
      /\ Answer(Do("grant", run.todo \ {p})) /\ GrantPermission(run.spec.account, p)
      /\ UNCHANGED <<ns, users, accounts, project, apps, usage, listenerVars, hooks, objectVars, history>>
  BY DEF Grant, At, AccountPCs, Rest
<1>2. /\ run.pc # "idle" /\ run.pc \in Calls /\ Deploying /\ ~Deleting /\ run.spec \in Specs
      /\ run.spec.account \in Accounts /\ run.todo \subseteq Repos
  BY <1>1, DeployingFacts
<1>3. roles \in [Accounts -> Role]
  BY DEF Inv, RestTyped, ClusterTypeOK
<1>4. /\ roles' \in [Accounts -> Role] /\ p \in roles'[run.spec.account].perms
      /\ \A a \in Accounts : /\ roles'[a].exists = roles[a].exists
                             /\ roles'[a].spaces = roles[a].spaces
                             /\ roles[a].perms \subseteq roles'[a].perms
  BY <1>1, <1>2, <1>3 DEF GrantPermission, Role
<1>5. ClusterTypeOK' /\ ClusterGrows
  BY <1>1, <1>4 DEF Inv, RestTyped, ClusterTypeOK, ClusterGrows, Operable
<1>6. KeptIsDeployed'
  BY <1>1, <1>5, GrowthKeeps
<1>7. "grant" \in PC \ {"idle", "addFinalizer", "validate", "getUsage", "removeFinalizer"}
      /\ "grant" \in DeployPCs /\ "grant" \notin Leaving
  BY AccountPCFacts DEF AccountPCs
<1>8. ASSUME run' = Do("grant", run.todo \ {p})
      PROVE  /\ run' \in RunType /\ SameReconcile /\ run'.usage = run.usage
             /\ run'.pc = "grant" /\ run'.new = run.new
             /\ TodoIsHarmless' /\ DeploymentProgress'
  <2>0. PICK todo \in SUBSET Repos : todo = run.todo \ {p}
    BY <1>2
  <2>1. /\ run' \in RunType /\ SameReconcile /\ run'.pc = "grant" /\ run'.usage = run.usage
        /\ run'.failed = run.failed /\ run'.new = run.new /\ run'.todo = todo
    BY <1>2, <1>7, <1>8, <2>0, RunDoes
  <2>2. TodoIsHarmless'
    BY <2>1 DEF TodoIsHarmless, At, Ending
  <2>3. ~run.failed => /\ run.rt \in run.usage.runtimes /\ Operable(Product) /\ project = "granted"
                       /\ Operable(run.spec.space) /\ run.new.space = run.spec.space
                       /\ run.spec.account \in accounts
                       /\ run.spec.account \in users[run.spec.space]
                       /\ roles[run.spec.account].exists
                       /\ run.spec.space \in roles[run.spec.account].spaces
                       /\ Perms(run.spec) \ run.todo \subseteq roles[run.spec.account].perms
    BY <1>1, DeployingProgress
  <2>4. ~run.failed => Perms(run.spec) \ todo \subseteq roles'[run.spec.account].perms
    BY <1>2, <1>4, <2>0, <2>3
  <2>5. ~run.failed => /\ roles'[run.spec.account].exists
                       /\ run.spec.space \in roles'[run.spec.account].spaces
    BY <1>2, <1>4, <2>3
  <2>6. DeploymentProgress'
    BY <1>1, <2>1, <2>3, <2>4, <2>5
    DEF DeploymentProgress, At, SameReconcile, FromGranted, FromSynced,
        FromSaved, ListeningPCs, Unlistening, Operable, Perms
  <2> QED BY <2>1, <2>2, <2>6
<1> QED BY <1>1, <1>2, <1>5, <1>6, <1>7, <1>8, CallGoesOn

LEMMA GrantedKeepsInv ==
  ASSUME Inv, Granted
  PROVE  Inv'
<1>1. /\ run.pc = "grant" /\ run.pc \in AccountPCs /\ run.todo = {}
      /\ UNCHANGED <<clusterVars, listenerVars, hooks, faults, objectVars, history>>
  BY DEF Granted, At, AccountPCs, Goes
<1>2. /\ run.pc # "idle" /\ Copied /\ run.pc # "saveUsage" /\ Deploying /\ ~Deleting
      /\ run \in RunType /\ run.old \in Cache /\ run.usage \in Usage /\ UsesAreUnique(run.usage)
      /\ run.rt \in Names /\ run.spec.account \in Accounts /\ Perms(run.spec) \subseteq Repos
  BY <1>1, DeployingFacts
<1> DEFINE use == UseOf(run.usage, run.spec.account, run.rt)
           y == [use EXCEPT !.perms = Perms(run.spec)]
           u == UpdatePermissions(run.usage, run.spec.account, run.rt, Perms(run.spec))
           todo == run.old.perms \ PermsUsed(u, run.spec.account, {})
<1>3. use \in AccountUse /\ use.account = run.spec.account /\ use.runtime = run.rt
  BY <1>2, UseFacts
<1>4. u = UseReplaced(run.usage, run.spec.account, run.rt, y)
  BY DEF UpdatePermissions, UseReplaced
<1>5. run' = [run EXCEPT !.pc = "revoke", !.usage = u, !.todo = todo]
  BY DEF Granted, Goes, Me
<1>6. todo \in SUBSET Repos /\ todo = run.old.perms \ PermsUsed(u, run.spec.account, {})
  BY <1>2 DEF Cache
<1> HIDE DEF use, u, todo
<1>7. /\ y \in AccountUse /\ y.account = run.spec.account /\ y.runtime = run.rt
      /\ y.perms = Perms(run.spec)
  BY <1>2, <1>3 DEF AccountUse
<1> HIDE DEF y
<1>8. /\ u \in Usage /\ UsesAreUnique(u) /\ u.runtimes = run.usage.runtimes /\ y \in u.account
      /\ \A r \in Names : Kept(r) => InRecord(u, r, SpecOf(r))
  BY <1>1, <1>4, <1>7, UseIsRecorded
<1>9. "revoke" \in AccountPCs
  BY DEF AccountPCs
<1>10. /\ run' \in RunType /\ SameReconcile /\ run'.pc = "revoke"
       /\ run'.usage = u /\ run'.failed = run.failed /\ run'.new = run.new /\ run'.todo = todo
  BY <1>2, <1>5, <1>6, <1>8, <1>9, AccountPCFacts DEF RunType, SameReconcile
<1>11. UNCHANGED <<runtimes, recorded>>
  BY <1>1 DEF objectVars, history
<1>12. CopyIsRecorded'
  BY <1>8, <1>10, <1>11, CopyFollows
<1>13. TodoIsHarmless'
  <2>1. ASSUME NEW r \in Names, Kept(r), SpecOf(r).account = run.spec.account
        PROVE  Perms(SpecOf(r)) \cap todo = {}
    <3>1. RecordedPerms(u, r, SpecOf(r))
      BY <1>8, <2>1 DEF InRecord
    <3>2. Perms(SpecOf(r)) \subseteq PermsUsed(u, SpecOf(r).account, {})
      BY <3>1, RecordedIsUsed
    <3> QED BY <1>6, <2>1, <3>2
  <2>2. ASSUME NEW r \in Names, Kept(r)'
        PROVE  Kept(r) /\ SpecOf(r)' = SpecOf(r)
    BY <1>11, <2>2, KeptIsSame
  <2> SUFFICES ASSUME NEW r \in Names, Kept(r)', SpecOf(r)'.account = run'.spec.account
               PROVE  Perms(SpecOf(r)') \cap run'.todo = {}
    BY <1>10 DEF TodoIsHarmless, At, Ending, Perms
  <2>3. Kept(r) /\ SpecOf(r)' = SpecOf(r)
    BY <2>2
  <2>4. Perms(SpecOf(r)) \cap todo = {}
    BY <1>10, <2>1, <2>3 DEF SameReconcile
  <2> QED BY <1>10, <2>3, <2>4
<1>14. PICK spec \in Specs, q \in Names : spec = run.spec /\ q = run.rt
  BY <1>1, DeployingFacts
<1>15. RecordedPerms(u, q, spec)
  BY <1>7, <1>8, <1>14 DEF RecordedPerms
<1>16. Perms(spec) \cap todo = {}
  <2>1. Perms(spec) \subseteq PermsUsed(u, spec.account, {})
    BY <1>15, RecordedIsUsed
  <2> QED BY <1>6, <1>14, <2>1
<1>17. DeploymentProgress'
  <2>1. ~run.failed => /\ run.rt \in run.usage.runtimes /\ Operable(Product) /\ project = "granted"
                       /\ Operable(run.spec.space) /\ run.new.space = run.spec.space
                       /\ run.spec.account \in accounts
                       /\ run.spec.account \in users[run.spec.space]
                       /\ roles[run.spec.account].exists
                       /\ run.spec.space \in roles[run.spec.account].spaces
                       /\ Perms(run.spec) \subseteq roles[run.spec.account].perms
    BY <1>1, DeployingProgress
  <2> QED BY <1>1, <1>8, <1>10, <1>14, <1>15, <1>16, <2>1
      DEF DeploymentProgress, At, SameReconcile, FromSynced, clusterVars, RecordedPerms, HasPerms,
          FromSaved, ListeningPCs, Unlistening, Operable, Perms
<1>18. "revoke" \in PC \ {"idle", "addFinalizer", "validate", "getUsage", "removeFinalizer"}
       /\ "revoke" \in DeployPCs /\ "revoke" \notin Leaving
  BY <1>9, AccountPCFacts
<1> QED BY <1>1, <1>2, <1>10, <1>12, <1>13, <1>17, <1>18, LocalStep

LEMMA RevokeKeepsInv ==
  ASSUME Inv, NEW p \in Repos, Revoke(p)
  PROVE  Inv'
<1>1. /\ run.pc = "revoke" /\ run.pc \in AccountPCs /\ p \in run.todo
      /\ Answer(Do("revoke", run.todo \ {p})) /\ RevokePermission(run.spec.account, p)
      /\ UNCHANGED <<ns, users, accounts, project, apps, usage, listenerVars, hooks, objectVars, history>>
  BY DEF Revoke, At, AccountPCs, Rest
<1>2. /\ run.pc # "idle" /\ run.pc \in Calls /\ Deploying /\ ~Deleting /\ run.spec \in Specs
      /\ run.spec.account \in Accounts /\ run.todo \subseteq Repos
  BY <1>1, DeployingFacts
<1>3. roles \in [Accounts -> Role]
  BY DEF Inv, RestTyped, ClusterTypeOK
<1>4. /\ roles' \in [Accounts -> Role]
      /\ \A a \in Accounts : /\ roles'[a].exists = roles[a].exists
                             /\ roles'[a].spaces = roles[a].spaces
                             /\ roles[a].perms \ {p} \subseteq roles'[a].perms
                             /\ a # run.spec.account => roles'[a].perms = roles[a].perms
  BY <1>1, <1>2, <1>3 DEF RevokePermission, Role
<1>5. ClusterTypeOK'
  BY <1>1, <1>4 DEF Inv, RestTyped, ClusterTypeOK
<1>6. UNCHANGED <<runtimes, recorded, left>>
  BY <1>1 DEF objectVars, history
<1>7. KeptIsDeployed'
  <2>1. ASSUME NEW r \in Names, NEW spec \in Specs, Kept(r), SpecOf(r) = spec, DeployedAs(r, spec)
        PROVE  DeployedAs(r, spec)'
    <3>1. spec.account \in Accounts
      BY ConstantFacts
    <3>2. spec.account = run.spec.account => p \notin Perms(spec)
      BY <1>1, <2>1 DEF Inv, TodoIsHarmless, At
    <3> QED BY <1>1, <1>4, <1>6, <2>1, <3>1, <3>2
        DEF DeployedAs, Operable, HasSpace, HasPerms
  <2> QED BY <1>6, <2>1, KeptStays
<1>8. "revoke" \in PC \ {"idle", "addFinalizer", "validate", "getUsage", "removeFinalizer"}
      /\ "revoke" \in DeployPCs /\ "revoke" \notin Leaving
  BY AccountPCFacts DEF AccountPCs
<1>9. ASSUME run' = Do("revoke", run.todo \ {p})
      PROVE  /\ run' \in RunType /\ SameReconcile /\ run'.usage = run.usage
             /\ run'.pc = "revoke" /\ run'.new = run.new
             /\ TodoIsHarmless' /\ DeploymentProgress'
  <2>0. PICK todo \in SUBSET Repos : todo = run.todo \ {p}
    BY <1>2
  <2>1. /\ run' \in RunType /\ SameReconcile /\ run'.pc = "revoke" /\ run'.usage = run.usage
        /\ run'.failed = run.failed /\ run'.new = run.new /\ run'.todo = todo
    BY <1>2, <1>8, <1>9, <2>0, RunDoes
  <2>2. TodoIsHarmless'
    BY <1>1, <1>6, <2>0, <2>1, KeptIsSame DEF Inv, TodoIsHarmless, At, Ending, SameReconcile
  <2>3. PICK spec \in Specs : spec = run.spec
    BY <1>2
  <2>4. ~run.failed => /\ run.rt \in run.usage.runtimes /\ Operable(Product) /\ project = "granted"
                       /\ Operable(run.spec.space) /\ run.new.space = run.spec.space
                       /\ run.spec.account \in accounts
                       /\ run.spec.account \in users[run.spec.space]
                       /\ roles[run.spec.account].exists
                       /\ run.spec.space \in roles[run.spec.account].spaces
                       /\ Perms(spec) \subseteq roles[spec.account].perms
                       /\ RecordedPerms(run.usage, run.rt, run.spec)
                       /\ Perms(spec) \cap run.todo = {}
    BY <1>1, <2>3, DeployingProgress
  <2>5. ~run.failed => Perms(spec) \subseteq roles'[spec.account].perms /\ Perms(spec) \cap todo = {}
    BY <1>1, <1>2, <1>4, <2>0, <2>3, <2>4
  <2>6. ~run.failed => /\ roles'[run.spec.account].exists
                       /\ run.spec.space \in roles'[run.spec.account].spaces
    BY <1>2, <1>4, <2>4
  <2>7. DeploymentProgress'
    BY <1>1, <2>1, <2>3, <2>4, <2>5, <2>6
    DEF DeploymentProgress, At, SameReconcile, FromSynced, RecordedPerms, HasPerms,
        FromSaved, ListeningPCs, Unlistening, Operable, Perms
  <2> QED BY <2>1, <2>2, <2>7
<1> QED BY <1>1, <1>2, <1>5, <1>7, <1>8, <1>9, CallGoesOn

LEMMA PermissionsSyncedKeepsInv ==
  ASSUME Inv, PermissionsSynced
  PROVE  Inv'
<1> DEFINE synced == [run EXCEPT !.new.perms = Perms(run.spec), !.new.account = run.spec.account]
           named == [synced EXCEPT !.new.id = TRUE]
           next == CASE ~(run.spec.tokens \subseteq run.repos) -> [Failed EXCEPT !.new = synced.new]
                     [] run.spec.tokens = {} -> Onwards(named)
                     [] OTHER -> [named EXCEPT !.pc = "listen", !.todo = run.spec.tokens]
<1>1. /\ run.pc = "revoke" /\ run.pc \in AccountPCs /\ run' = next
      /\ UNCHANGED <<clusterVars, listenerVars, hooks, faults, objectVars, history>>
  BY DEF PermissionsSynced, At, AccountPCs, Goes
<1>2. /\ run.pc # "idle" /\ Copied /\ run.pc # "saveUsage" /\ Deploying /\ ~Deleting
      /\ run \in RunType /\ run.new \in Cache /\ run.rt \in Names /\ run.spec \in Specs
      /\ run.spec.account \in Accounts /\ Perms(run.spec) \subseteq Repos
      /\ Applied(run.rt) => run.new.account = run.spec.account
  BY <1>1, DeployingFacts
<1>3. run.spec.tokens \subseteq Repos
  BY <1>2, ConstantFacts
<1> DEFINE m == [run.new EXCEPT !.perms = Perms(run.spec), !.account = run.spec.account]
           n == [m EXCEPT !.id = TRUE]
<1>4. /\ m \in Cache /\ m.account = run.spec.account /\ m.space = run.new.space
      /\ n \in Cache /\ n.account = run.spec.account /\ n.space = run.new.space
  BY <1>2 DEF Cache
<1>5. synced = [run EXCEPT !.new = m] /\ synced.new = m /\ named = [run EXCEPT !.new = n]
  BY <1>2 DEF RunType
<1> HIDE DEF m, n
<1>6. \/ run' = [Failed EXCEPT !.new = m]
      \/ run' = Onwards(named)
      \/ run' = [named EXCEPT !.pc = "listen", !.todo = run.spec.tokens]
  BY <1>1, <1>5
<1>7. /\ {"listen", "createCalendar", "unlisten", "saveUsage"} \subseteq
           PC \ {"idle", "addFinalizer", "validate", "getUsage", "removeFinalizer"}
      /\ {"listen", "createCalendar", "unlisten", "saveUsage"} \subseteq DeployPCs
      /\ {"listen", "createCalendar", "unlisten", "saveUsage"} \cap Leaving = {}
  BY DEF PC, DeployPCs, FromValidated, FromUsage, FromProduct, FromProject, FromSpace, FromAccount,
         FromUser, FromRole, FromGranted, FromSynced, FromSaved, ListeningPCs, Unlistening, Leaving
<1>8. Missing \subseteq Kinds
  BY <1>2 DEF Missing, Inv, RestTyped, ListenerTypeOK, Me
<1>9. /\ run' \in RunType /\ SameReconcile /\ run'.usage = run.usage
      /\ run'.new.account = run.spec.account /\ run'.new.space = run.new.space
      /\ \/ run'.pc = "saveUsage" /\ run'.failed
         \/ run'.pc \in {"listen", "createCalendar", "unlisten"} /\ run'.failed = run.failed
  <2>1. CASE run' = [Failed EXCEPT !.new = m]
    BY <1>2, <1>4, <2>1, FailedFacts DEF RunType, SameReconcile
  <2>2. CASE run' = Onwards(named)
    <3>1. CASE run.spec.calendar
      <4>1. run' = [named EXCEPT !.pc = "createCalendar"]
        BY <2>2, <3>1 DEF Onwards
      <4>2. run' = [run EXCEPT !.new = n, !.pc = "createCalendar"]
        BY <1>2, <1>5, <4>1 DEF RunType
      <4> QED BY <1>2, <1>4, <1>7, <4>2 DEF RunType, SameReconcile
    <3>2. CASE ~run.spec.calendar
      <4>1. run' = [named EXCEPT !.pc = "unlisten", !.kinds = Missing]
        BY <2>2, <3>2 DEF Onwards
      <4>2. run' = [run EXCEPT !.new = n, !.pc = "unlisten", !.kinds = Missing]
        BY <1>2, <1>5, <4>1 DEF RunType
      <4> QED BY <1>2, <1>4, <1>7, <1>8, <4>2 DEF RunType, SameReconcile
    <3> QED BY <3>1, <3>2
  <2>3. CASE run' = [named EXCEPT !.pc = "listen", !.todo = run.spec.tokens]
    <3>1. run' = [run EXCEPT !.new = n, !.pc = "listen", !.todo = run.spec.tokens]
      BY <1>2, <1>5, <2>3 DEF RunType
    <3> QED BY <1>2, <1>3, <1>4, <1>7, <3>1 DEF RunType, SameReconcile
  <2> QED BY <1>6, <2>1, <2>2, <2>3
<1> HIDE DEF next, synced, named
<1>10. UNCHANGED <<runtimes, recorded>>
  BY <1>1 DEF objectVars, history
<1>11. CopyIsRecorded'
  BY <1>2, <1>9, <1>10, SameCopy
<1>12. TodoIsHarmless'
  BY <1>9 DEF TodoIsHarmless, At, Ending
<1>13. DeploymentProgress'
  <2>1. CASE run'.failed
    BY <2>1 DEF DeploymentProgress
  <2>2. CASE ~run'.failed
    <3>1. ~run.failed /\ run'.pc \in {"listen", "createCalendar", "unlisten"}
      BY <1>9, <2>2
    <3>2. /\ run.rt \in run.usage.runtimes /\ Operable(Product) /\ project = "granted"
          /\ Operable(run.spec.space) /\ run.new.space = run.spec.space
          /\ run.spec.account \in accounts
          /\ run.spec.account \in users[run.spec.space]
          /\ roles[run.spec.account].exists
          /\ run.spec.space \in roles[run.spec.account].spaces
          /\ Perms(run.spec) \subseteq roles[run.spec.account].perms
          /\ RecordedPerms(run.usage, run.rt, run.spec)
      BY <1>1, <3>1, DeployingProgress
    <3> QED BY <1>1, <1>9, <3>1, <3>2
        DEF DeploymentProgress, At, SameReconcile, RecordedPerms, HasPerms, clusterVars,
            FromSaved, Operable, Perms
  <2> QED BY <2>1, <2>2
<1>14. run'.pc \in {"listen", "createCalendar", "unlisten", "saveUsage"}
  BY <1>9
<1> QED BY <1>1, <1>2, <1>7, <1>9, <1>11, <1>12, <1>13, <1>14, LocalStep

-----------------------------------------------------------------------------
(* The event sources, the hook secret and the sensors: nothing of the cluster  *)
(* is touched that a deployment is made of.                                    *)

\* Listening goes on, or a deletion ends it.
GoesOnListening ==
  /\ run' \in RunType /\ SameResult
  /\ Deploying => run'.pc \in ListeningPCs \cup {"app"}
  /\ Deleting => run'.pc \in Unlistening \cup {"deleteSensors", "removeHook", "app"}

LEMMA ListeningPCFacts ==
  /\ ListeningPCs \cup {"deleteSensors", "app"} \subseteq Calls
  /\ ListeningPCs \cup {"deleteSensors", "app"} \subseteq
       PC \ {"idle", "addFinalizer", "validate", "getUsage", "saveUsage", "saveStatus",
             "removeFinalizer"}
  /\ ListeningPCs \cup {"app"} \subseteq DeployPCs
  /\ Unlistening \cup {"deleteSensors", "removeHook", "app"} \subseteq DeletePCs
  /\ DeployPCs \cap {"deleteSensors"} = {}
  /\ DeletePCs \cap (ListeningPCs \ (Unlistening \cup {"removeHook"})) = {}
  /\ (ListeningPCs \cup {"deleteSensors", "app"}) \cap (Leaving \cup Ending \cup FromSaved \cup {"revoke", "grant"}) = {}
  /\ Unlistening \subseteq ListeningPCs
  BY DEF Calls, PC, DeployPCs, FromValidated, FromUsage, FromProduct, FromProject, FromSpace,
         FromAccount, FromUser, FromRole, FromGranted, FromSynced, FromSaved, Leaving, Ending,
         ListeningPCs, Unlistening, DeletePCs

LEMMA ListeningFacts ==
  ASSUME Inv, run.pc \in ListeningPCs \cup {"deleteSensors"}
  PROVE  /\ run.pc # "idle" /\ Copied /\ run.pc \in Calls
         /\ run \in RunType /\ run.rt \in Names /\ run.spec \in Specs
         /\ run.spec.space \in Spaces /\ run.spec.tokens \subseteq Repos /\ run.spec.source \in Repos
         /\ run.spec.triggers \in 0..MaxTriggers
         /\ run.old \in Cache /\ run.new \in Cache
         /\ run.todo \subseteq Repos /\ run.kinds \subseteq Kinds
         /\ run.surplus \subseteq 0..MaxTriggers - 1
         /\ ListenerTypeOK /\ hooks \in [Spaces -> Repos \cup {NoRepo}]
         /\ Deploying <=> ~Deleting
         /\ run.pc \notin Unlistening \cup {"removeHook", "deleteSensors"} => Deploying
         /\ run.pc = "deleteSensors" => Deleting
<1>1. run.pc # "idle" /\ Copied /\ run.pc \in Calls
  BY ListeningPCFacts DEF Copied
<1>2. /\ run \in RunType /\ run.rt \in Names /\ run.spec \in Specs
      /\ run.old \in Cache /\ run.new \in Cache
      /\ run.todo \subseteq Repos /\ run.kinds \subseteq Kinds
      /\ Deploying <=> ~Deleting
      /\ Deploying => run.pc \in DeployPCs
      /\ Deleting => run.pc \in DeletePCs
  BY <1>1, RunFacts
<1>3. run.surplus \subseteq 0..MaxTriggers - 1
  BY <1>2 DEF RunType
<1>4. /\ run.spec.space \in Spaces /\ run.spec.tokens \subseteq Repos /\ run.spec.source \in Repos
      /\ run.spec.triggers \in 0..MaxTriggers
  BY <1>2, ConstantFacts
<1>5. /\ run.pc \notin Unlistening \cup {"removeHook", "deleteSensors"} => Deploying
      /\ run.pc = "deleteSensors" => Deleting
  BY <1>2, ListeningPCFacts
<1> QED BY <1>1, <1>2, <1>3, <1>4, <1>5, RestIsTyped

LEMMA ListeningStep ==
  ASSUME Inv, run.pc \in ListeningPCs \cup {"deleteSensors"},
         UNCHANGED <<clusterVars, objectVars, history>>,
         ListenerTypeOK', hooks' \in [Spaces -> Repos \cup {NoRepo}],
         Fault \/ UNCHANGED faults,
         run' = Failed \/ GoesOnListening
  PROVE  Inv'
<1>1. /\ UNCHANGED <<usage, objectVars, recorded, runtimes, left>> /\ abandoned' \subseteq Names
      /\ faults' \in 0..MaxFaults
  BY RestIsTyped, FaultFacts DEF history, objectVars, clusterVars
<1>2. KeptIsDeployed' /\ ClusterTypeOK'
  BY <1>1, SameCluster
<1>3. run.pc # "idle" /\ Copied /\ run.pc \in Calls /\ (Deploying <=> ~Deleting)
  BY ListeningFacts
<1>4. CASE run' = Failed
  BY <1>1, <1>2, <1>3, <1>4, FailedStep
<1>5. CASE GoesOnListening
  <2>1. /\ run'.pc \in ListeningPCs \cup {"deleteSensors", "app"}
        /\ Deploying => run'.pc \in DeployPCs
        /\ Deleting => run'.pc \in DeletePCs
    <3>1. /\ Deploying => run'.pc \in ListeningPCs \cup {"app"}
          /\ Deleting => run'.pc \in Unlistening \cup {"deleteSensors", "removeHook", "app"}
      BY <1>5 DEF GoesOnListening
    <3>2. "removeHook" \in ListeningPCs
      BY DEF ListeningPCs
    <3> QED BY <1>3, <3>1, <3>2, ListeningPCFacts
  <2>2. run'.pc \in PC \ {"idle", "addFinalizer", "validate"} /\ run'.pc \notin Leaving
    BY <2>1, ListeningPCFacts
  <2>3. RunIsSound'
    BY <1>3, <1>5, <2>1, <2>2, GoesOn DEF GoesOnListening, SameResult
  <2>4. CopyIsRecorded'
    BY <1>1, <1>3, <1>5, SameCopy DEF GoesOnListening, SameResult
  <2>5. TodoIsHarmless'
    <3>1. /\ run'.pc \notin {"revokeOld", "deleteRole", "deleteAccount", "revoke"}
          /\ run'.pc \notin Ending
      BY <2>1, ListeningPCFacts DEF Leaving
    <3> QED BY <3>1 DEF TodoIsHarmless, At
  <2>6. DeploymentProgress'
    <3>1. CASE Deploying /\ ~run.failed
      <4>1. run.pc \in ListeningPCs /\ run'.pc \in ListeningPCs \cup {"app"}
        BY <1>3, <1>5, <3>1, RunFacts, ListeningPCFacts DEF GoesOnListening
      <4>2. /\ run.rt \in run.usage.runtimes /\ Operable(Product) /\ project = "granted"
            /\ Operable(run.spec.space) /\ run.new.space = run.spec.space
            /\ run.spec.account \in accounts
            /\ run.spec.account \in users[run.spec.space]
            /\ roles[run.spec.account].exists
            /\ run.spec.space \in roles[run.spec.account].spaces
            /\ Perms(run.spec) \subseteq roles[run.spec.account].perms
            /\ RecordedPerms(run.usage, run.rt, run.spec)
            /\ run.new.account = run.spec.account
        <5>1. run.pc # "saveStatus"
          BY <1>3 DEF Copied
        <5> QED BY <3>1, <4>1, <5>1
            DEF Inv, DeploymentProgress, FromUsage, FromProduct, FromProject, FromSpace,
                FromAccount, FromUser, FromRole, FromGranted, FromSynced, HasPerms
      <4>3. run'.pc \notin {"grant", "revoke", "saveUsage", "saveStatus"}
        BY <4>1, ListeningPCFacts DEF FromSaved
      <4> QED BY <1>1, <1>5, <4>2, <4>3
          DEF DeploymentProgress, At, GoesOnListening, SameResult, SameReconcile, RecordedPerms,
              HasPerms, clusterVars, FromSaved, Operable, Perms
    <3>2. CASE ~Deploying \/ run.failed
      BY <1>5, <3>2 DEF DeploymentProgress, GoesOnListening, SameResult, SameReconcile, Deploying
    <3> QED BY <3>1, <3>2
  <2> QED BY <1>1, <1>2, <1>3, <1>5, <2>2, <2>3, <2>4, <2>5, <2>6, CallStep
      DEF GoesOnListening, SameResult, Copied
<1> QED BY <1>4, <1>5

LEMMA ListenToKeepsInv ==
  ASSUME Inv, NEW p \in Repos, ListenTo(p)
  PROVE  Inv'
<1>1. /\ run.pc = "listen" /\ run.pc \in ListeningPCs
      /\ UNCHANGED <<clusterVars, objectVars, history, hooks, entry, gitlab, calendar, sensors, cached>>
      /\ CreateTokens(run.rt, p) \/ GrantToken(run.rt, p)
      /\ Fault \/ UNCHANGED faults
      /\ run' = Failed \/ run' = Do("listen", run.todo \ {p})
  BY DEF ListenTo, At, ListeningPCs, ListenRest, Answer, Me
<1>2. run \in RunType /\ run.rt \in Names /\ ListenerTypeOK /\ Deploying /\ ~Deleting
      /\ hooks \in [Spaces -> Repos \cup {NoRepo}]
  BY <1>1, ListeningFacts DEF Unlistening
<1>3. ListenerTypeOK'
  BY <1>1, <1>2 DEF ListenerTypeOK, CreateTokens, GrantToken
<1>4. ASSUME run' = Do("listen", run.todo \ {p}) PROVE GoesOnListening
  BY <1>1, <1>2, <1>4 DEF Do, GoesOnListening, SameResult, SameReconcile, RunType, PC
<1> QED BY <1>1, <1>2, <1>3, <1>4, ListeningStep

LEMMA ListensToAllKeepsInv ==
  ASSUME Inv, ListensToAll
  PROVE  Inv'
<1> DEFINE todo == gitlab[run.rt].repos \ run.spec.tokens
<1>1. /\ run.pc = "listen" /\ run.pc \in ListeningPCs
      /\ UNCHANGED <<clusterVars, listenerVars, hooks, faults, objectVars, history>>
      /\ run' = Do("forgetRepos", todo)
  BY DEF ListensToAll, At, ListeningPCs, Goes, Me
<1>2. run \in RunType /\ run.rt \in Names /\ ListenerTypeOK /\ Deploying /\ ~Deleting
      /\ hooks \in [Spaces -> Repos \cup {NoRepo}]
  BY <1>1, ListeningFacts DEF Unlistening
<1>3. todo \in SUBSET Repos
  BY <1>2 DEF ListenerTypeOK
<1>4. ListenerTypeOK' /\ hooks' \in [Spaces -> Repos \cup {NoRepo}]
  BY <1>1, <1>2, RestIsTyped
<1> HIDE DEF todo
<1>5. GoesOnListening
  BY <1>1, <1>2, <1>3
  DEF Do, GoesOnListening, SameResult, SameReconcile, RunType, PC, ListeningPCs
<1> QED BY <1>1, <1>4, <1>5, ListeningStep

LEMMA ForgetRepoKeepsInv ==
  ASSUME Inv, NEW p \in Repos, ForgetRepo(p)
  PROVE  Inv'
<1>1. /\ run.pc \in {"forgetRepos", "unlistenRepos"} /\ run.pc \in ListeningPCs
      /\ UNCHANGED <<objectVars, history>>
  BY DEF ForgetRepo, ListeningPCs, Unlistening
<1>2. /\ run.pc \in Calls /\ run \in RunType /\ run.rt \in Names /\ ListenerTypeOK
      /\ hooks \in [Spaces -> Repos \cup {NoRepo}]
      /\ Deleting => run.pc = "unlistenRepos"
      /\ Deploying <=> ~Deleting
  BY <1>1, ListeningFacts DEF Unlistening
<1>3. CASE Refuse
  BY <1>1, <1>2, <1>3, RefuseKeepsInv
<1>4. CASE /\ \/ DeleteTokens(Me, p) /\ Answer(Do(run.pc, run.todo \ {p}))
              \/ RevokeToken(Me, p) /\ run' = Failed /\ Fault
           /\ UNCHANGED <<clusterVars, entry, gitlab, calendar, sensors, cached, hooks>>
  <2>1. ListenerTypeOK'
    BY <1>2, <1>4 DEF ListenerTypeOK, DeleteTokens, RevokeToken, Me
  <2>2. /\ Fault \/ UNCHANGED faults
        /\ run' = Failed \/ run' = Do(run.pc, run.todo \ {p})
    BY <1>4 DEF Answer
  <2>3. ASSUME run' = Do(run.pc, run.todo \ {p}) PROVE GoesOnListening
    BY <1>1, <1>2, <2>3
    DEF Do, GoesOnListening, SameResult, SameReconcile, RunType, PC, ListeningPCs, Unlistening
  <2> QED BY <1>1, <1>2, <1>4, <2>1, <2>2, <2>3, ListeningStep
<1> QED BY <1>3, <1>4 DEF ForgetRepo

LEMMA ReposForgottenKeepsInv ==
  ASSUME Inv, ReposForgotten
  PROVE  Inv'
<1>1. /\ UNCHANGED <<clusterVars, listenerVars, hooks, faults, objectVars, history>>
      /\ \/ run.pc = "forgetRepos" /\ run' = GoTo("createEntry")
         \/ run.pc = "unlistenRepos" /\ run' = GoTo("deleteEntry")
  BY DEF ReposForgotten, At, Goes
<1>2. run.pc \in ListeningPCs
  BY <1>1 DEF ListeningPCs, Unlistening
<1>3. /\ run \in RunType /\ hooks \in [Spaces -> Repos \cup {NoRepo}]
      /\ run.pc = "forgetRepos" => Deploying
      /\ Deploying <=> ~Deleting
  BY <1>1, <1>2, ListeningFacts DEF Unlistening
<1>4. ListenerTypeOK' /\ hooks' \in [Spaces -> Repos \cup {NoRepo}]
  BY <1>1, <1>3, RestIsTyped
<1>5. GoesOnListening
  BY <1>1, <1>3
  DEF GoTo, GoesOnListening, SameResult, SameReconcile, RunType, PC, ListeningPCs, Unlistening
<1> QED BY <1>1, <1>2, <1>4, <1>5, ListeningStep

\* The steps that create: the ingress, the event sources.
LEMMA CreateSourceKeepsInv ==
  ASSUME Inv, CreateEntryPoint \/ CreateGitlab \/ CreateCalendar
  PROVE  Inv'
<1>1. /\ run.pc \in {"createEntry", "createSource", "createCalendar"} /\ run.pc \in ListeningPCs
      /\ UNCHANGED <<clusterVars, objectVars, history, hooks>>
      /\ Fault \/ UNCHANGED faults
  BY DEF CreateEntryPoint, CreateGitlab, CreateCalendar, At, ListeningPCs, ListenRest, Answer
<1>2. /\ run \in RunType /\ run.rt \in Names /\ ListenerTypeOK /\ Deploying /\ ~Deleting
      /\ run.spec.tokens \subseteq Repos /\ hooks \in [Spaces -> Repos \cup {NoRepo}]
  BY <1>1, ListeningFacts DEF Unlistening
<1>3. ListenerTypeOK'
  <2>1. CASE CreateEntryPoint
    BY <1>2, <2>1 DEF CreateEntryPoint, ListenerTypeOK, Me
  <2>2. CASE CreateGitlab
    BY <1>2, <2>2 DEF CreateGitlab, CreateGitlabSource, ListenerTypeOK, Me
  <2>3. CASE CreateCalendar
    BY <1>2, <2>3 DEF CreateCalendar, ListenerTypeOK, Me
  <2> QED BY <2>1, <2>2, <2>3
<1>4. Missing \subseteq Kinds
  BY <1>2 DEF Missing, ListenerTypeOK, Me
<1>5. \/ run' = Failed
      \/ run' = GoTo("createSource")
      \/ run' = GoTo("createCalendar")
      \/ run' = [run EXCEPT !.pc = "unlisten", !.kinds = Missing]
  BY DEF CreateEntryPoint, CreateGitlab, CreateCalendar, Answer, Onwards, GoTo
<1>6. ASSUME run' # Failed PROVE GoesOnListening
  <2>1. CASE run' = GoTo("createSource")
    BY <1>2, <2>1 DEF GoTo, GoesOnListening, SameResult, SameReconcile, RunType, PC, ListeningPCs
  <2>2. CASE run' = GoTo("createCalendar")
    BY <1>2, <2>2 DEF GoTo, GoesOnListening, SameResult, SameReconcile, RunType, PC, ListeningPCs
  <2>3. CASE run' = [run EXCEPT !.pc = "unlisten", !.kinds = Missing]
    BY <1>2, <1>4, <2>3
    DEF GoesOnListening, SameResult, SameReconcile, RunType, PC, ListeningPCs, Unlistening
  <2> QED BY <1>5, <1>6, <2>1, <2>2, <2>3
<1> QED BY <1>1, <1>2, <1>3, <1>6, ListeningStep

LEMMA UnlistenGitlabKeepsInv ==
  ASSUME Inv, UnlistenGitlab
  PROVE  Inv'
<1> DEFINE todo == gitlab[run.rt].repos
           kinds == run.kinds \ {"gitlab"}
<1>1. /\ run.pc = "unlisten" /\ run.pc \in ListeningPCs
      /\ UNCHANGED <<clusterVars, listenerVars, hooks, faults, objectVars, history>>
      /\ run' = Do("unlistenRepos", todo) \/ run' = [run EXCEPT !.kinds = kinds]
  BY DEF UnlistenGitlab, At, ListeningPCs, Unlistening, Goes, Me
<1>2. run \in RunType /\ run.rt \in Names /\ ListenerTypeOK /\ hooks \in [Spaces -> Repos \cup {NoRepo}]
  BY <1>1, ListeningFacts
<1>3. todo \in SUBSET Repos /\ kinds \in SUBSET Kinds
  BY <1>2 DEF ListenerTypeOK, RunType
<1>4. ListenerTypeOK' /\ hooks' \in [Spaces -> Repos \cup {NoRepo}]
  BY <1>1, <1>2, RestIsTyped
<1> HIDE DEF todo, kinds
<1>5. GoesOnListening
  <2>1. CASE run' = Do("unlistenRepos", todo)
    BY <1>2, <1>3, <2>1
    DEF Do, GoesOnListening, SameResult, SameReconcile, RunType, PC, ListeningPCs, Unlistening
  <2>2. CASE run' = [run EXCEPT !.kinds = kinds]
    BY <1>1, <1>2, <1>3, <2>2
    DEF GoesOnListening, SameResult, SameReconcile, RunType, ListeningPCs, Unlistening
  <2> QED BY <1>1, <2>1, <2>2
<1> QED BY <1>1, <1>4, <1>5, ListeningStep

\* The steps that delete them.
LEMMA DeleteSourceKeepsInv ==
  ASSUME Inv, DeleteEntryPoint \/ DeleteGitlab \/ DeleteCalendar
  PROVE  Inv'
<1>1. /\ run.pc \in {"deleteEntry", "deleteSource", "unlisten"} /\ run.pc \in ListeningPCs
      /\ UNCHANGED <<objectVars, history>>
  BY DEF DeleteEntryPoint, DeleteGitlab, DeleteCalendar, At, ListeningPCs, Unlistening, ListenRest
<1>2. /\ run \in RunType /\ run.pc \in Calls /\ run.rt \in Names /\ ListenerTypeOK
      /\ hooks \in [Spaces -> Repos \cup {NoRepo}]
  BY <1>1, ListeningFacts
<1>3. CASE Refuse
  BY <1>1, <1>2, <1>3, RefuseKeepsInv
<1>4. CASE ~Refuse
  <2>1. ListenerTypeOK'
    <3>1. CASE DeleteEntryPoint
      BY <1>2, <3>1 DEF DeleteEntryPoint, ListenerTypeOK, Me
    <3>2. CASE DeleteGitlab
      BY <1>2, <3>2 DEF DeleteGitlab, DeleteGitlabSource, ListenerTypeOK, NoSource, Me
    <3>3. CASE DeleteCalendar
      BY <1>2, <1>4, <3>3 DEF DeleteCalendar, ListenerTypeOK, Me
    <3> QED BY <3>1, <3>2, <3>3
  <2>2. /\ UNCHANGED <<clusterVars, hooks>>
        /\ Fault \/ UNCHANGED faults
        /\ \/ run' = Failed
           \/ run' = GoTo("deleteSource")
           \/ run' = [run EXCEPT !.pc = "unlisten", !.kinds = @ \ {"gitlab"}]
           \/ run' = [run EXCEPT !.kinds = @ \ {"calendar"}] /\ run.pc = "unlisten"
    BY <1>4 DEF DeleteEntryPoint, DeleteGitlab, DeleteCalendar, Answer, ListenRest, At
  <2>3. ASSUME run' # Failed PROVE GoesOnListening
    <3>1. \A kind : run.kinds \ {kind} \in SUBSET Kinds
      BY <1>2 DEF RunType
    <3>2. CASE run' = GoTo("deleteSource")
      BY <1>2, <3>2
      DEF GoTo, GoesOnListening, SameResult, SameReconcile, RunType, PC, ListeningPCs, Unlistening
    <3>3. CASE run' = [run EXCEPT !.pc = "unlisten", !.kinds = @ \ {"gitlab"}]
      <4>1. PICK kinds \in SUBSET Kinds : kinds = run.kinds \ {"gitlab"}
        BY <3>1
      <4>2. run' = [run EXCEPT !.pc = "unlisten", !.kinds = kinds]
        BY <3>3, <4>1
      <4> QED BY <1>2, <4>2
          DEF GoesOnListening, SameResult, SameReconcile, RunType, PC, ListeningPCs, Unlistening
    <3>4. CASE run' = [run EXCEPT !.kinds = @ \ {"calendar"}] /\ run.pc = "unlisten"
      <4>1. PICK kinds \in SUBSET Kinds : kinds = run.kinds \ {"calendar"}
        BY <3>1
      <4>2. run' = [run EXCEPT !.kinds = kinds]
        BY <3>4, <4>1
      <4> QED BY <1>2, <3>4, <4>2
          DEF GoesOnListening, SameResult, SameReconcile, RunType, ListeningPCs, Unlistening
    <3> QED BY <2>2, <2>3, <3>2, <3>3, <3>4
  <2> QED BY <1>1, <1>2, <2>1, <2>2, <2>3, ListeningStep
<1> QED BY <1>3, <1>4

LEMMA RecordKindsKeepsInv ==
  ASSUME Inv, RecordKinds
  PROVE  Inv'
<1>1. /\ run.pc = "unlisten" /\ run.pc \in ListeningPCs
      /\ UNCHANGED <<clusterVars, objectVars, history, hooks>>
      /\ Fault \/ UNCHANGED faults
      /\ run' = Failed \/ run' = GoTo(IF Deploying THEN "createHook" ELSE "deleteSensors")
  BY DEF RecordKinds, At, ListeningPCs, Unlistening, ListenRest, Answer
<1>2. /\ run \in RunType /\ run.rt \in Names /\ ListenerTypeOK
      /\ hooks \in [Spaces -> Repos \cup {NoRepo}]
      /\ Deploying <=> ~Deleting
  BY <1>1, ListeningFacts
<1>3. ListenerTypeOK'
  <2>1. KindsOf(run.spec) \subseteq Kinds
    BY DEF KindsOf, Kinds
  <2> QED BY <1>2, <2>1 DEF RecordKinds, ListenerTypeOK, Me
<1>4. ASSUME run' # Failed PROVE GoesOnListening
  BY <1>1, <1>2, <1>4
  DEF GoTo, GoesOnListening, SameResult, SameReconcile, RunType, PC, ListeningPCs
<1> QED BY <1>1, <1>2, <1>3, <1>4, ListeningStep

LEMMA HookIsTyped == \A spec \in Specs : HookOf(spec) \in Repos \cup {NoRepo}
  BY ConstantFacts DEF HookOf

LEMMA CreateHookKeepsInv ==
  ASSUME Inv, CreateHook
  PROVE  Inv'
<1>1. /\ run.pc = "createHook" /\ run.pc \in ListeningPCs /\ UNCHANGED <<objectVars, history>>
  BY DEF CreateHook, At, ListeningPCs
<1>2. /\ run \in RunType /\ run.pc \in Calls /\ Deploying /\ ~Deleting /\ run.spec \in Specs
      /\ hooks \in [Spaces -> Repos \cup {NoRepo}]
  BY <1>1, ListeningFacts DEF Unlistening
<1>3. CASE Refuse
  BY <1>1, <1>2, <1>3, RefuseKeepsInv
<1>4. CASE ~Refuse
  <2>1. /\ UNCHANGED <<clusterVars, listenerVars>>
        /\ Fault \/ UNCHANGED faults
        /\ run' = Failed \/ run' = GoTo("removeHook")
        /\ hooks' = hooks \/ hooks' = [hooks EXCEPT ![run.spec.space] = HookOf(run.spec)]
    BY <1>4 DEF CreateHook, Answer
  <2>2. ListenerTypeOK' /\ hooks' \in [Spaces -> Repos \cup {NoRepo}]
    BY <1>2, <2>1, HookIsTyped, RestIsTyped
  <2>3. ASSUME run' # Failed PROVE GoesOnListening
    BY <1>2, <2>1, <2>3
    DEF GoTo, GoesOnListening, SameResult, SameReconcile, RunType, PC, ListeningPCs
  <2> QED BY <1>1, <2>1, <2>2, <2>3, ListeningStep
<1> QED BY <1>3, <1>4

LEMMA RemoveHookKeepsInv ==
  ASSUME Inv, RemoveHook
  PROVE  Inv'
<1> DEFINE pc == IF Deploying THEN "createSensors" ELSE "app"
           hook == IF Deploying THEN HookOf(run.spec) ELSE NoRepo
           n == [run.new EXCEPT !.hook = hook]
<1>1. /\ run.pc = "removeHook" /\ run.pc \in ListeningPCs
      /\ UNCHANGED <<clusterVars, listenerVars, objectVars, history>>
      /\ Fault \/ UNCHANGED faults
      /\ run' = Failed \/ run' = [run EXCEPT !.pc = pc, !.new.hook = hook]
      /\ hooks' = hooks \/ hooks' = [hooks EXCEPT ![run.old.space] = NoRepo]
  BY DEF RemoveHook, At, ListeningPCs, HookRest, Answer
<1>2. /\ run \in RunType /\ run.new \in Cache /\ run.spec \in Specs
      /\ hooks \in [Spaces -> Repos \cup {NoRepo}]
      /\ Deploying <=> ~Deleting
  BY <1>1, ListeningFacts
<1>3. ListenerTypeOK' /\ hooks' \in [Spaces -> Repos \cup {NoRepo}]
  BY <1>1, <1>2, RestIsTyped
<1>4. hook \in Repos \cup {NoRepo}
  BY <1>2, HookIsTyped
<1>5. n \in Cache /\ n.account = run.new.account /\ n.space = run.new.space
  BY <1>2, <1>4 DEF Cache
<1>6. ASSUME run' # Failed PROVE GoesOnListening
  <2>1. run' = [run EXCEPT !.pc = pc, !.new = n]
    BY <1>1, <1>2, <1>6 DEF RunType
  <2>2. pc \in PC /\ (Deploying => pc = "createSensors") /\ (Deleting => pc = "app")
    BY <1>2 DEF PC
  <2> HIDE DEF pc, hook, n
  <2> QED BY <1>2, <1>5, <2>1, <2>2
      DEF GoesOnListening, SameResult, SameReconcile, RunType, ListeningPCs
<1> QED BY <1>1, <1>3, <1>6, ListeningStep

\* The surplus sensors have numbers: there are no more of them than triggers.
LEMMA SurplusIsTyped ==
  ASSUME ListenerTypeOK, NEW r \in Names, NEW n \in Nat
  PROVE  SurplusSensors(r, n) \subseteq 0..MaxTriggers - 1
<1>1. sensors[r] \subseteq 0..MaxTriggers - 1 /\ MaxTriggers \in Nat
  BY ListenerAssumption DEF ListenerTypeOK
<1>2. IsFiniteSet(0..MaxTriggers - 1) /\ Cardinality(0..MaxTriggers - 1) = MaxTriggers
  <2>1. 0 \in Int /\ MaxTriggers - 1 \in Int
    BY <1>1
  <2>2. /\ IsFiniteSet(0..MaxTriggers - 1)
        /\ Cardinality(0..MaxTriggers - 1) =
             IF 0 > MaxTriggers - 1 THEN 0 ELSE MaxTriggers - 1 - 0 + 1
    BY <2>1, FS_Interval
  <2> QED BY <1>1, <2>2
<1>3. IsFiniteSet(sensors[r]) /\ Cardinality(sensors[r]) <= MaxTriggers
  BY <1>1, <1>2, FS_Subset
<1>4. Cardinality(sensors[r]) \in Nat
  BY <1>3, FS_CardinalityType
<1> QED BY <1>1, <1>3, <1>4 DEF SurplusSensors

LEMMA CreateSensorsKeepsInv ==
  ASSUME Inv, CreateSensorsOf
  PROVE  Inv'
<1> DEFINE surplus == SurplusSensors(run.rt, run.spec.triggers)
<1>1. /\ run.pc = "createSensors" /\ run.pc \in ListeningPCs
      /\ UNCHANGED <<listener, tokens, entry, gitlab, calendar, cached, clusterVars, hooks,
                     objectVars, history>>
      /\ Fault \/ UNCHANGED faults
      /\ run' = Failed \/ run' = [run EXCEPT !.pc = "surplusSensors", !.surplus = surplus]
      /\ \E n \in Int : n <= run.spec.triggers /\ CreateSensors(run.rt, n)
  <2>1. run.spec.triggers \in 0..MaxTriggers
    <3>1. run.pc = "createSensors" /\ run.pc \in ListeningPCs
      BY DEF CreateSensorsOf, At, ListeningPCs
    <3> QED BY <3>1, ListeningFacts
  <2>2. \E n \in Int : n <= run.spec.triggers /\ CreateSensors(run.rt, n)
    BY <2>1, ListenerAssumption DEF CreateSensorsOf, Me
  <2> QED BY <2>2 DEF CreateSensorsOf, At, ListeningPCs, SensorRest, ListenRest, Answer, Me
<1>2. /\ run \in RunType /\ run.rt \in Names /\ ListenerTypeOK /\ Deploying /\ ~Deleting
      /\ hooks \in [Spaces -> Repos \cup {NoRepo}]
      /\ run.spec.triggers \in 0..MaxTriggers
  BY <1>1, ListeningFacts DEF Unlistening
<1>3. ListenerTypeOK'
  <2>1. PICK n \in Int : n <= run.spec.triggers /\ CreateSensors(run.rt, n)
    BY <1>1
  <2>2. 0..n - 1 \subseteq 0..MaxTriggers - 1
    BY <1>2, <2>1, ListenerAssumption
  <2>3. sensors' \in [Names -> SUBSET (0..MaxTriggers - 1)]
    BY <1>2, <2>1, <2>2 DEF CreateSensors, ListenerTypeOK
  <2> QED BY <1>1, <1>2, <2>3 DEF ListenerTypeOK
<1>4. surplus \in SUBSET (0..MaxTriggers - 1)
  BY <1>2, SurplusIsTyped, ListenerAssumption
<1> HIDE DEF surplus
<1>5. ASSUME run' # Failed PROVE GoesOnListening
  BY ZenonT(60), <1>1, <1>2, <1>4, <1>5
  DEF GoesOnListening, SameResult, SameReconcile, RunType, PC, ListeningPCs
<1> QED BY <1>1, <1>2, <1>3, <1>5, ListeningStep

LEMMA DeleteSensorsKeepsInv ==
  ASSUME Inv, (\E i \in 0..MaxTriggers - 1 : DeleteSurplus(i)) \/ SensorsSynced \/ DeleteAllSensors
  PROVE  Inv'
<1>1. /\ run.pc \in {"surplusSensors", "deleteSensors"}
      /\ run.pc \in ListeningPCs \cup {"deleteSensors"}
      /\ UNCHANGED <<objectVars, history>>
  BY DEF DeleteSurplus, SensorsSynced, DeleteAllSensors, At, ListeningPCs, SensorRest, ListenRest
<1>2. /\ run \in RunType /\ run.rt \in Names /\ run.pc \in Calls /\ ListenerTypeOK
      /\ hooks \in [Spaces -> Repos \cup {NoRepo}]
      /\ run.pc = "surplusSensors" => Deploying
      /\ run.pc = "deleteSensors" => Deleting
      /\ Deploying <=> ~Deleting
  BY <1>1, ListeningFacts DEF Unlistening
<1>3. CASE Refuse
  BY <1>1, <1>2, <1>3, RefuseKeepsInv
<1>4. CASE ~Refuse /\ \E i \in 0..MaxTriggers - 1 : DeleteSurplus(i)
  <2>1. PICK i \in 0..MaxTriggers - 1 : DeleteSurplus(i)
    BY <1>4
  <2>2. /\ run.pc = "surplusSensors"
        /\ UNCHANGED <<clusterVars, listener, tokens, entry, gitlab, calendar, cached, hooks>>
        /\ sensors' = [sensors EXCEPT ![run.rt] = @ \ {i}]
        /\ Fault \/ UNCHANGED faults
        /\ run' = Failed \/ run' = [run EXCEPT !.surplus = @ \ {i}]
    BY <1>4, <2>1 DEF DeleteSurplus, DeleteSensor, Answer, Me, At
  <2>3. ListenerTypeOK'
    BY <1>2, <2>2 DEF ListenerTypeOK
  <2>4. ASSUME run' # Failed PROVE GoesOnListening
    BY <1>2, <2>2, <2>4 DEF GoesOnListening, SameResult, SameReconcile, RunType, ListeningPCs
  <2> QED BY <1>1, <1>2, <2>2, <2>3, <2>4, ListeningStep
<1>5. CASE SensorsSynced
  <2>1. /\ run.pc = "surplusSensors" /\ run' = GoTo("app")
        /\ UNCHANGED <<clusterVars, listenerVars, hooks, faults>>
    BY <1>5 DEF SensorsSynced, At, Goes
  <2>2. ListenerTypeOK'
    BY <2>1, RestIsTyped
  <2>3. GoesOnListening
    BY <1>2, <2>1 DEF GoTo, GoesOnListening, SameResult, SameReconcile, RunType, PC
  <2> QED BY <1>1, <1>2, <2>1, <2>2, <2>3, ListeningStep
<1>6. CASE DeleteAllSensors
  <2>1. /\ run.pc = "deleteSensors"
        /\ UNCHANGED <<clusterVars, listener, tokens, entry, gitlab, calendar, cached, hooks>>
        /\ sensors' = [sensors EXCEPT ![run.rt] = {}]
        /\ Fault \/ UNCHANGED faults
        /\ run' = Failed \/ run' = GoTo("removeHook")
    BY <1>6 DEF DeleteAllSensors, DeleteSensors, SensorRest, ListenRest, At, Answer, Me
  <2>2. ListenerTypeOK'
    BY <1>2, <2>1 DEF ListenerTypeOK
  <2>3. ASSUME run' # Failed PROVE GoesOnListening
    BY <1>2, <2>1, <2>3 DEF GoTo, GoesOnListening, SameResult, SameReconcile, RunType, PC
  <2> QED BY <1>1, <1>2, <2>1, <2>2, <2>3, ListeningStep
<1> QED BY <1>3, <1>4, <1>5, <1>6

-----------------------------------------------------------------------------
(* The application, and what only a deletion does. *)

LEMMA SyncAppKeepsInv ==
  ASSUME Inv, SyncApp
  PROVE  Inv'
<1> DEFINE app == run.new.app \/ run.spec.app
           n == [run.new EXCEPT !.app = app]
           next == AfterApp([run EXCEPT !.new.app = @ \/ run.spec.app])
<1>1. /\ run.pc = "app" /\ run.pc \in Calls /\ Answer(next)
      /\ UNCHANGED <<ns, users, accounts, project, roles, usage, listenerVars, hooks, objectVars,
                     recorded>>
      /\ apps' = CASE run.spec.app -> [apps EXCEPT ![run.rt] = {run.spec.space}]
                   [] ~run.spec.app /\ run.old.app -> [apps EXCEPT ![run.rt] = {}]
                   [] OTHER -> apps
      /\ abandoned' \subseteq abandoned
  BY ListeningPCFacts DEF SyncApp, At, Me
<1>2. /\ run.pc # "idle" /\ Copied
  BY <1>1 DEF Copied, PC
<1>3. /\ run \in RunType /\ run.new \in Cache /\ run.old \in Cache /\ run.rt \in Names
      /\ run.spec \in Specs /\ run.spec.space \in Spaces /\ run.spec.app \in BOOLEAN
      /\ Deploying <=> ~Deleting
      /\ Deleting => ~Applied(run.rt)
      /\ Applied(run.rt) => SpecOf(run.rt) = run.spec
  BY <1>2, RunFacts, ConstantFacts
<1>4. UNCHANGED <<runtimes, recorded, left, usage, objectVars>> /\ abandoned' \subseteq Names
  BY <1>1, RestIsTyped DEF objectVars
<1>5. apps \in [Names -> SUBSET Spaces]
  BY DEF Inv, RestTyped, ClusterTypeOK
<1>6. PICK q \in Names : q = run.rt
  BY <1>3
<1>7. /\ apps' \in [Names -> SUBSET Spaces]
      /\ \A r \in Names \ {q} : apps'[r] = apps[r]
      /\ run.spec.app => apps'[q] = {run.spec.space}
  <2>1. CASE run.spec.app
    <3>1. apps' = [apps EXCEPT ![q] = {run.spec.space}]
      BY <1>1, <1>6, <2>1
    <3> QED BY <1>3, <1>5, <3>1
  <2>2. CASE ~run.spec.app
    <3>1. apps' = [apps EXCEPT ![q] = {}] \/ apps' = apps
      BY <1>1, <1>6, <2>2
    <3> QED BY <1>5, <2>2, <3>1
  <2> QED BY <2>1, <2>2
<1>8. ClusterTypeOK'
  BY <1>1, <1>7 DEF Inv, RestTyped, ClusterTypeOK
<1>9. KeptIsDeployed'
  <2>1. ASSUME NEW r \in Names, NEW spec \in Specs, Kept(r), SpecOf(r) = spec, DeployedAs(r, spec)
        PROVE  DeployedAs(r, spec)'
    <3>1. spec.app => apps'[r] = {spec.space}
      BY <1>3, <1>6, <1>7, <2>1 DEF DeployedAs, Kept
    <3> QED BY <1>1, <1>4, <2>1, <3>1
        DEF DeployedAs, Operable, HasPerms, HasSpace
  <2> QED BY <1>4, <2>1, KeptStays
<1>10. ListenerTypeOK' /\ hooks' \in [Spaces -> Repos \cup {NoRepo}]
  BY <1>1, RestIsTyped
<1>11. ASSUME run' = next
       PROVE  /\ SameReconcile /\ RunIsSound'
              /\ run'.pc \in PC \ {"idle", "addFinalizer", "validate", "getUsage",
                                   "removeFinalizer"}
              /\ Applied(run.rt) => /\ run'.new.account = run.new.account
                                    /\ run'.new.space = run.new.space
              /\ CopyIsRecorded' /\ TodoIsHarmless' /\ DeploymentProgress'
  <2>1. app \in BOOLEAN
    BY <1>3 DEF Cache
  <2>2. n \in Cache /\ n.account = run.new.account /\ n.space = run.new.space
    BY <1>3, <2>1 DEF Cache
  <2>3. [run EXCEPT !.new.app = @ \/ run.spec.app] = [run EXCEPT !.new = n]
    BY <1>3 DEF RunType
  <2>4. OldPerms \in SUBSET Repos /\ run.old.account \in Accounts \cup {NoAccount}
    BY <1>3 DEF OldPerms, Cache
  <2>5. next = AfterApp([run EXCEPT !.new = n])
    BY <2>3
  <2> HIDE DEF n, app, next
  <2>6. /\ run' \in RunType /\ SameReconcile /\ run'.new = n
        /\ run'.usage = run.usage /\ run'.failed = run.failed
        /\ \/ Deploying /\ run'.pc = "saveUsage"
           \/ Deleting /\ run'.pc = "deleteSpace"
           \/ /\ Deleting /\ run'.pc = "revokeOld" /\ run'.todo = OldPerms
              /\ run.old.account \in Accounts
    <3>1. CASE Deploying
      <4>1. run' = [run EXCEPT !.new = n, !.pc = "saveUsage"]
        BY <1>3, <1>11, <2>5, <3>1 DEF AfterApp, RunType
      <4> QED BY <1>3, <2>2, <3>1, <4>1 DEF RunType, SameReconcile, PC
    <3>2. CASE Deleting /\ run.old.account = NoAccount
      <4>1. run' = [run EXCEPT !.new = n, !.pc = "deleteSpace"]
        BY <1>3, <1>11, <2>5, <3>2 DEF AfterApp, RunType
      <4> QED BY <1>3, <2>2, <3>2, <4>1 DEF RunType, SameReconcile, PC
    <3>3. CASE Deleting /\ run.old.account # NoAccount
      <4>1. PICK todo \in SUBSET Repos : todo = OldPerms
        BY <2>4
      <4>2. run' = [run EXCEPT !.new = n, !.pc = "revokeOld", !.todo = todo]
        BY <1>3, <1>11, <2>5, <3>3, <4>1 DEF AfterApp, RunType
      <4> QED BY <1>3, <2>2, <2>4, <3>3, <4>1, <4>2 DEF RunType, SameReconcile, PC
    <3> QED BY <1>3, <3>1, <3>2, <3>3
  <2>7. run'.pc \in {"saveUsage", "deleteSpace", "revokeOld"}
    BY <2>6
  <2>8. /\ {"saveUsage", "deleteSpace", "revokeOld"} \subseteq
             PC \ {"idle", "addFinalizer", "validate", "getUsage", "removeFinalizer"}
        /\ "saveUsage" \in DeployPCs /\ {"deleteSpace", "revokeOld"} \subseteq DeletePCs
        /\ {"saveUsage", "deleteSpace"} \cap Leaving = {}
    BY DEF PC, DeployPCs, FromValidated, FromUsage, FromProduct, FromProject, FromSpace,
           FromAccount, FromUser, FromRole, FromGranted, FromSynced, FromSaved, Leaving, DeletePCs
  <2>9. RunIsSound'
    BY <1>2, <1>3, <2>2, <2>6, <2>7, <2>8, GoesOn
  <2>10. CopyIsRecorded'
    BY <1>2, <1>4, <2>6, SameCopy
  <2>11. TodoIsHarmless'
    <3>1. CASE run'.pc = "revokeOld"
      <4>1. ASSUME NEW r \in Names, Kept(r), SpecOf(r).account = run.old.account
            PROVE  Perms(SpecOf(r)) \cap OldPerms = {}
        BY <1>2, <1>3, <2>6, <3>1, <4>1, LeftIsAnothers
      <4> SUFFICES ASSUME NEW r \in Names, Kept(r)', SpecOf(r)'.account = run'.old.account
                   PROVE  Perms(SpecOf(r)') \cap run'.todo = {}
        BY <3>1 DEF TodoIsHarmless, At, Ending, Perms
      <4>2. Kept(r) /\ SpecOf(r)' = SpecOf(r)
        BY <1>4, KeptIsSame
      <4> QED BY <2>6, <3>1, <4>1, <4>2 DEF SameReconcile
    <3>2. CASE run'.pc # "revokeOld"
      BY <2>7, <3>2 DEF TodoIsHarmless, At, Ending
    <3> QED BY <3>1, <3>2
  <2>12. DeploymentProgress'
    <3>1. CASE Deploying /\ ~run.failed
      <4>1. /\ run.rt \in run.usage.runtimes /\ Operable(Product) /\ project = "granted"
            /\ Operable(run.spec.space) /\ run.new.space = run.spec.space
            /\ run.spec.account \in accounts
            /\ run.spec.account \in users[run.spec.space]
            /\ roles[run.spec.account].exists
            /\ run.spec.space \in roles[run.spec.account].spaces
            /\ Perms(run.spec) \subseteq roles[run.spec.account].perms
            /\ RecordedPerms(run.usage, run.rt, run.spec)
            /\ run.new.account = run.spec.account
        BY <1>1, <3>1
        DEF Inv, DeploymentProgress, FromUsage, FromProduct, FromProject, FromSpace,
            FromAccount, FromUser, FromRole, FromGranted, FromSynced, HasPerms
      <4>2. run'.pc = "saveUsage"
        BY <1>3, <2>6, <3>1
      <4>3. run.spec.app => apps'[run.rt] = {run.spec.space}
        BY <1>6, <1>7
      <4> QED BY <1>1, <1>4, <2>2, <2>6, <4>1, <4>2, <4>3
          DEF DeploymentProgress, At, SameReconcile, RecordedPerms, HasPerms, FromSaved,
              Operable, Perms
    <3>2. CASE ~Deploying \/ run.failed
      BY <2>6, <3>2 DEF DeploymentProgress, SameReconcile, Deploying
    <3> QED BY <3>1, <3>2
  <2> QED BY <2>2, <2>6, <2>7, <2>8, <2>9, <2>10, <2>11, <2>12
<1> HIDE DEF next
<1> QED BY <1>1, <1>4, <1>8, <1>9, <1>10, <1>11, AnswerStep

\* The space of the last deployment: where a kept runtime is at home as well, it
\* is left.
LEMMA DeleteSpaceKeepsInv ==
  ASSUME Inv, DeleteSpace
  PROVE  Inv'
<1> DEFINE pc == IF run.usage.runtimes = {} THEN "deleteProductUser" ELSE "saveUsage"
           n == [run.new EXCEPT !.space = NoSpace]
           next == [run EXCEPT !.pc = pc, !.new.space = NoSpace]
<1>1. /\ run.pc = "deleteSpace" /\ run.pc \in Calls /\ Answer(next)
      /\ UNCHANGED <<users, accounts, project, apps, roles, usage, listenerVars, hooks,
                     objectVars, history>>
      /\ UNCHANGED ns \/ (run.old.space # NoSpace /\ DeleteNamespace(run.old.space))
  BY DEF DeleteSpace, At, Calls, PC, Rest
<1>2. run.pc # "idle" /\ Copied
  BY <1>1 DEF Copied, PC
<1>3. /\ run \in RunType /\ run.new \in Cache /\ run.rt \in Names /\ run.old \in Cache
      /\ run.old = runtimes[run.rt].cache
      /\ Deploying <=> ~Deleting
      /\ Deploying => run.pc \in DeployPCs
      /\ Deleting => ~Applied(run.rt)
  BY <1>2, RunFacts
<1>4. Deleting /\ ~Deploying
  BY <1>1, <1>3
  DEF DeployPCs, FromValidated, FromUsage, FromProduct, FromProject, FromSpace,
      FromAccount, FromUser, FromRole, FromGranted, FromSynced, FromSaved, Leaving, ListeningPCs,
      Unlistening
<1>5. ns \in [Spaces \cup {Product} -> {"none", "active", "terminating"}]
  BY DEF Inv, RestTyped, ClusterTypeOK
<1>6. /\ ns' \in [Spaces \cup {Product} -> {"none", "active", "terminating"}]
      /\ \A s \in Spaces \cup {Product} : s # run.old.space => ns'[s] = ns[s]
      /\ run.old.space # Product \/ ns'[Product] = ns[Product]
  <2>1. CASE UNCHANGED ns
    BY <1>5, <2>1
  <2>2. CASE run.old.space # NoSpace /\ DeleteNamespace(run.old.space)
    <3>1. PICK s \in Spaces : s = run.old.space
      BY <1>3, <2>2 DEF Cache
    <3>2. ns' = [ns EXCEPT ![s] = IF @ = "active" THEN "terminating" ELSE @]
      BY <2>2, <3>1 DEF DeleteNamespace
    <3> QED BY <1>5, <3>1, <3>2, ClusterAssumption
  <2> QED BY <1>1, <2>1, <2>2
<1>7. ClusterTypeOK'
  BY <1>1, <1>6 DEF Inv, RestTyped, ClusterTypeOK
<1>8. UNCHANGED <<runtimes, recorded, left>>
  BY <1>1 DEF objectVars, history
<1>9. KeptIsDeployed'
  <2>1. ASSUME NEW r \in Names, NEW spec \in Specs, Kept(r), SpecOf(r) = spec, DeployedAs(r, spec)
        PROVE  DeployedAs(r, spec)'
    <3>1. r # run.rt
      BY <1>3, <1>4, <2>1 DEF Kept
    <3>2. spec.space = run.old.space => spec.space \in left
      BY <1>3, <2>1, <3>1 DEF Inv, SharedIsLeft
    <3>3. spec.space \in Spaces
      BY ConstantFacts
    <3>4. HasSpace(spec) => HasSpace(spec)' \/ spec.space \in left
      BY <1>1, <1>6, <3>2, <3>3 DEF HasSpace, Operable
    <3> QED BY <1>1, <1>6, <1>8, <2>1, <3>4 DEF DeployedAs, Operable, HasPerms
  <2> QED BY <1>8, <2>1, KeptStays
<1>10. /\ pc \in PC \ {"idle", "addFinalizer", "validate", "getUsage", "removeFinalizer"}
       /\ pc \in DeletePCs /\ pc \notin Leaving /\ pc \in {"deleteProductUser", "saveUsage"}
       /\ pc = "deleteProductUser" => run.usage.runtimes = {}
  BY DEF PC, DeletePCs, Leaving, Ending
<1>11. ASSUME run' = next
       PROVE  /\ run' \in RunType /\ SameReconcile /\ run'.usage = run.usage
              /\ run'.pc = pc /\ run'.new.space = NoSpace /\ run'.new.account = run.new.account
              /\ TodoIsHarmless' /\ DeploymentProgress'
  <2>1. n \in Cache /\ n.space = NoSpace /\ n.account = run.new.account
    BY <1>3 DEF Cache
  <2>2. run' = [run EXCEPT !.pc = pc, !.new = n]
    BY <1>3, <1>11 DEF RunType
  <2> HIDE DEF pc, n, next
  <2>3. /\ run' \in RunType /\ SameReconcile /\ run'.usage = run.usage
        /\ run'.pc = pc /\ run'.new = n
    BY <1>3, <1>10, <2>1, <2>2 DEF RunType, SameReconcile
  <2>4. TodoIsHarmless'
    <3>1. CASE pc = "saveUsage"
      BY <2>3, <3>1 DEF TodoIsHarmless, At, Ending
    <3>2. CASE pc = "deleteProductUser"
      <4>1. \A r \in Names : ~Kept(r)
        BY <1>2, <1>10, <3>2 DEF Inv, CopyIsRecorded, InRecord
      <4> QED BY <1>8, <4>1, KeptIsSame DEF TodoIsHarmless
    <3> QED BY <1>10, <3>1, <3>2
  <2>5. DeploymentProgress'
    BY <1>4, <2>3 DEF DeploymentProgress, SameReconcile, Deploying
  <2> QED BY <2>1, <2>3, <2>4, <2>5
<1> HIDE DEF pc, n, next
<1>12. UNCHANGED <<usage, listenerVars, hooks, objectVars, history>>
  BY <1>1
<1> QED BY <1>1, <1>4, <1>7, <1>9, <1>10, <1>11, <1>12, CallGoesOn

\* At the end of a deletion of the last runtime, none is kept.
LEMMA EndingStep ==
  ASSUME Inv, run.pc \in Ending, NEW pc \in (Ending \ {"deleteProductUser"}) \cup {"saveUsage"},
         Answer(GoTo(pc)), UNCHANGED <<usage, listenerVars, hooks, objectVars, history>>, ClusterTypeOK'
  PROVE  Inv'
<1>1. run.pc \in Calls /\ run.pc # "idle"
  BY DEF Ending, Calls, PC
<1>2. Deleting /\ ~Deploying
  BY <1>1, RunFacts
  DEF Ending, DeployPCs, FromValidated, FromUsage, FromProduct, FromProject, FromSpace,
      FromAccount, FromUser, FromRole, FromGranted, FromSynced, FromSaved, Leaving, ListeningPCs,
      Unlistening
<1>3. \A r \in Names : ~Kept(r)
  BY DEF Inv, TodoIsHarmless
<1>4. UNCHANGED <<runtimes, recorded>>
  BY DEF objectVars, history
<1>5. KeptIsDeployed'
  BY <1>3, <1>4, KeptIsSame DEF KeptIsDeployed
<1>6. /\ pc \in PC \ {"idle", "addFinalizer", "validate", "getUsage", "removeFinalizer"}
      /\ pc \in DeletePCs /\ pc \notin Leaving
  BY DEF Ending, PC, DeletePCs, Leaving
<1>7. ASSUME run' = GoTo(pc)
      PROVE  /\ run' \in RunType /\ SameReconcile /\ run'.usage = run.usage
             /\ run'.pc = pc /\ run'.new = run.new
             /\ TodoIsHarmless' /\ DeploymentProgress'
  <2>1. /\ run' \in RunType /\ SameReconcile /\ run'.usage = run.usage
        /\ run'.pc = pc /\ run'.new = run.new
    BY <1>1, <1>6, <1>7, RunGoesTo
  <2> QED BY <1>2, <1>3, <1>4, <2>1, KeptIsSame
      DEF TodoIsHarmless, DeploymentProgress, Deploying, SameReconcile
<1> QED BY <1>1, <1>2, <1>5, <1>6, <1>7, CallGoesOn

LEMMA EndingKeepsInv ==
  ASSUME Inv, DeleteProductUser \/ DeleteProduct \/ DeleteProject
  PROVE  Inv'
<1>1. CASE DeleteProductUser
  <2>1. ClusterTypeOK'
    BY <1>1 DEF DeleteProductUser, Inv, RestTyped, ClusterTypeOK
  <2> QED BY <1>1, <2>1, EndingStep DEF DeleteProductUser, At, Ending, Rest
<1>2. CASE DeleteProject
  <2>1. ClusterTypeOK'
    BY <1>2 DEF DeleteProject, Inv, RestTyped, ClusterTypeOK
  <2> QED BY <1>2, <2>1, EndingStep DEF DeleteProject, At, Ending, Rest
<1>3. CASE DeleteProduct
  <2>1. run.pc = "deleteProduct" /\ run.pc \in Calls /\ run.pc \in Ending
        /\ UNCHANGED <<objectVars, history>>
    BY <1>3 DEF DeleteProduct, At, Calls, PC, Ending
  <2>2. CASE Refuse
    BY <2>1, <2>2, RefuseKeepsInv
  <2>3. CASE DeleteNamespace(Product) /\ Answer(GoTo("deleteProject"))
             /\ UNCHANGED <<users, accounts, project, apps, roles, usage, listenerVars, hooks>>
    <3>1. ns \in [Spaces \cup {Product} -> {"none", "active", "terminating"}]
      BY DEF Inv, RestTyped, ClusterTypeOK
    <3>2. ns' \in [Spaces \cup {Product} -> {"none", "active", "terminating"}]
      BY <2>3, <3>1 DEF DeleteNamespace
    <3>3. ClusterTypeOK'
      BY <2>3, <3>2 DEF Inv, RestTyped, ClusterTypeOK
    <3> QED BY <2>1, <2>3, <3>3, EndingStep DEF Ending
  <2> QED BY <1>3, <2>2, <2>3 DEF DeleteProduct
<1> QED BY <1>1, <1>2, <1>3

-----------------------------------------------------------------------------
(* The cluster, and all steps together. *)

\* Only what is not operable disappears, and a space stays marked as left while
\* a cache names it.
LEMMA GoneKeepsInv ==
  ASSUME Inv, NEW s \in Spaces \cup {Product}, Gone(s)
  PROVE  Inv'
<1>1. /\ UNCHANGED <<runtimes, run, recorded, abandoned, late, calm, edits, faults, codeRepos,
                     listenerVars, project, apps, roles, usage>>
      /\ ns[s] = "terminating" /\ ns' = [ns EXCEPT ![s] = "none"]
      /\ IF s = Product THEN accounts' = {} /\ UNCHANGED users
         ELSE users' = [users EXCEPT ![s] = {}] /\ UNCHANGED accounts
      /\ hooks' = IF s = Product THEN hooks ELSE [hooks EXCEPT ![s] = NoRepo]
      /\ left' = left \ {t \in {s} : \A r \in Names : runtimes[r].cache.space # t}
  BY DEF Gone, NamespaceGone, history
<1>2. /\ ns \in [Spaces \cup {Product} -> {"none", "active", "terminating"}]
      /\ users \in [Spaces -> SUBSET (Accounts \cup {UserList})] /\ accounts \subseteq Accounts
      /\ hooks \in [Spaces -> Repos \cup {NoRepo}]
  BY DEF Inv, RestTyped, ClusterTypeOK
<1>3. /\ ns' \in [Spaces \cup {Product} -> {"none", "active", "terminating"}]
      /\ users' \in [Spaces -> SUBSET (Accounts \cup {UserList})] /\ accounts' \subseteq Accounts
      /\ hooks' \in [Spaces -> Repos \cup {NoRepo}]
      /\ \A t \in Spaces \cup {Product} : Operable(t) => Operable(t)'
      /\ \A t \in Spaces : Operable(t) => users'[t] = users[t]
      /\ Operable(Product) => accounts' = accounts
  BY <1>1, <1>2, ClusterAssumption DEF Operable
<1>4. /\ left' \subseteq left
      /\ \A t \in left : (\E r \in Names : runtimes[r].cache.space = t) => t \in left'
  BY <1>1
<1>5. RestTyped'
  BY <1>1, <1>3, <1>4 DEF Inv, RestTyped, ClusterTypeOK, ListenerTypeOK, listenerVars
<1>6. /\ RunIsSound' /\ ObjectIsRead' /\ UnheldIsNew' /\ AppliedIsKnown'
  BY <1>1 DEF Inv, RunIsSound, ObjectIsRead, UnheldIsNew, AppliedIsKnown, Deploying, Deleting,
              Applied, SpecOf
<1>7. MovedIsLeft'
  BY <1>1, <1>4 DEF Inv, MovedIsLeft
<1>8. SharedIsLeft'
  BY <1>1, <1>4, KeptIsSame DEF Inv, SharedIsLeft
<1>9. ValidatedIsLeft'
  BY <1>1, <1>4 DEF Inv, ValidatedIsLeft, Deploying
<1>10. KeptIsDeployed'
  <2>1. ASSUME NEW r \in Names, NEW spec \in Specs, Kept(r), SpecOf(r) = spec, DeployedAs(r, spec)
        PROVE  DeployedAs(r, spec)'
    <3>1. runtimes[r].cache.space = spec.space
      BY <2>1 DEF Inv, AppliedIsKnown, Kept
    <3>2. spec.space \in left => spec.space \in left'
      BY <1>4, <3>1
    <3>3. spec.space \in Spaces
      BY ConstantFacts
    <3>4. HasSpace(spec) => HasSpace(spec)'
      BY <1>1, <1>3, <3>3 DEF HasSpace
    <3>5. Operable(Product)' /\ accounts' = accounts
      BY <1>3, <2>1 DEF DeployedAs
    <3> QED BY <1>1, <2>1, <3>2, <3>4, <3>5 DEF DeployedAs, HasPerms
  <2> QED BY <1>1, <2>1, KeptStays
<1>11. KeptIsRecorded' /\ CopyIsRecorded'
  BY <1>1, KeptIsSame
  DEF Inv, KeptIsRecorded, CopyIsRecorded, Copied, UsesAreUnique, InRecord, RecordedPerms
<1>12. TodoIsHarmless'
  BY <1>1, KeptIsSame DEF Inv, TodoIsHarmless, At
<1>13. DeploymentProgress'
  <2>1. CASE Deploying /\ ~run.failed /\ run.pc # "idle"
    <3>1. PICK spec \in Specs : spec = run.spec
      BY <2>1, RunFacts
    <3>2. PICK u : u = run.usage
      OBVIOUS
    <3>3. /\ run.pc \in FromUsage \ {"saveStatus"} => run.rt \in u.runtimes
          /\ run.pc \in FromProduct => Operable(Product)
          /\ run.pc \in FromProject => project = "granted"
          /\ run.pc \in FromSpace => Operable(spec.space) /\ run.new.space = spec.space
          /\ run.pc \in FromAccount => spec.account \in accounts
          /\ run.pc \in FromUser => spec.account \in users[spec.space]
          /\ run.pc \in FromRole =>
               roles[spec.account].exists /\ spec.space \in roles[spec.account].spaces
          /\ At("grant") => Perms(spec) \ run.todo \subseteq roles[spec.account].perms
          /\ run.pc \in FromGranted => HasPerms(spec)
          /\ run.pc \in FromGranted \ {"saveStatus"} => RecordedPerms(u, run.rt, spec)
          /\ At("revoke") => Perms(spec) \cap run.todo = {}
          /\ run.pc \in FromSynced => run.new.account = spec.account
          /\ run.pc \in FromSaved => (spec.app => apps[run.rt] = {spec.space})
          /\ At("saveStatus") /\ run.rt \in recorded => InRecord(usage, run.rt, spec)
      BY <2>1, <3>1, <3>2 DEF Inv, DeploymentProgress
    <3>4. spec.space \in Spaces
      BY ConstantFacts
    <3>5. run.pc \in FromProduct => Operable(Product)'
      BY <1>3, <3>3
    <3>6. run.pc \in FromSpace => Operable(spec.space)'
      BY <1>3, <3>3, <3>4
    <3>7. run.pc \in FromAccount => spec.account \in accounts'
      BY <1>3, <3>3 DEF FromProduct, FromProject, FromSpace
    <3>8. run.pc \in FromUser => spec.account \in users'[spec.space]
      BY <1>3, <3>3, <3>4 DEF FromSpace, FromAccount
    <3>9. /\ HasPerms(spec)' <=> HasPerms(spec)
          /\ RecordedPerms(u, run.rt, spec)' <=> RecordedPerms(u, run.rt, spec)
          /\ InRecord(usage, run.rt, spec)' <=> InRecord(usage, run.rt, spec)
      BY <1>1 DEF HasPerms, RecordedPerms, InRecord
    <3>10. UNCHANGED <<run, project, apps, roles, usage, recorded>>
      BY <1>1
    <3> QED BY <3>1, <3>2, <3>3, <3>5, <3>6, <3>7, <3>8, <3>9, <3>10 DEF DeploymentProgress, At
  <2>2. CASE ~(Deploying /\ ~run.failed)
    BY <1>1, <2>2 DEF DeploymentProgress, Deploying
  <2>3. CASE run.pc = "idle"
    BY <1>1, <2>3
    DEF DeploymentProgress, At, FromUsage, FromProduct, FromProject, FromSpace, FromAccount,
        FromUser, FromRole, FromGranted, FromSynced, FromSaved, Leaving, ListeningPCs, Unlistening
  <2> QED BY <2>1, <2>2, <2>3
<1> QED BY <1>5, <1>6, <1>7, <1>8, <1>9, <1>10, <1>11, <1>12, <1>13 DEF Inv

LEMMA StutterKeepsInv ==
  ASSUME Inv, UNCHANGED vars
  PROVE  Inv'
<1>1. /\ UNCHANGED <<ns, users, accounts, project, apps, roles, usage, listenerVars, hooks,
                     codeRepos, runtimes, late, left, calm, edits, run, recorded, abandoned, faults>>
  BY DEF vars, clusterVars, objectVars, history
<1>2. RestTyped'
  BY <1>1 DEF Inv, RestTyped, ClusterTypeOK, ListenerTypeOK, listenerVars
<1>3. RunIsSound' /\ ObjectIsRead' /\ UnheldIsNew' /\ AppliedIsKnown'
  BY <1>1 DEF Inv, RunIsSound, ObjectIsRead, UnheldIsNew, AppliedIsKnown, Deploying, Deleting,
              Applied, SpecOf
<1>4. MovedIsLeft' /\ SharedIsLeft' /\ ValidatedIsLeft'
  BY <1>1, KeptIsSame DEF Inv, MovedIsLeft, SharedIsLeft, ValidatedIsLeft, Deploying
<1>5. KeptIsRecorded' /\ CopyIsRecorded'
  BY <1>1, KeptIsSame
  DEF Inv, KeptIsRecorded, CopyIsRecorded, Copied, UsesAreUnique, InRecord, RecordedPerms
<1>6. KeptIsDeployed'
  BY <1>1, KeptIsSame DEF Inv, KeptIsDeployed, DeployedAs, Operable, HasPerms, HasSpace
<1>7. TodoIsHarmless' /\ DeploymentProgress'
  BY <1>1, KeptIsSame
  DEF Inv, TodoIsHarmless, At, DeploymentProgress, Deploying, RecordedPerms, InRecord, Operable,
      HasPerms
<1> QED BY <1>2, <1>3, <1>4, <1>5, <1>6, <1>7 DEF Inv

LEMMA ProceedKeepsInv ==
  ASSUME Inv, Proceed
  PROVE  Inv'
<1>1. CASE \E p \in Repos : RevokeOld(p) \/ Grant(p) \/ Revoke(p) \/ ListenTo(p) \/ ForgetRepo(p)
  BY <1>1, RevokeOldKeepsInv, GrantKeepsInv, RevokeKeepsInv, ListenToKeepsInv, ForgetRepoKeepsInv
<1>2. CASE AddFinalizer \/ Validate \/ GetUsage \/ SaveUsage \/ SaveStatus \/ RemoveFinalizer
  BY <1>2, AddFinalizerKeepsInv, ValidateKeepsInv, GetUsageKeepsInv, SaveUsageKeepsInv,
     SaveStatusKeepsInv, RemoveFinalizerKeepsInv
<1>3. CASE \/ CreateProduct \/ CreateProject \/ AddProductUser
           \/ OldRevoked \/ DropUser \/ DeleteProductRole \/ DeleteProductAccount
           \/ CreateSpace \/ CreateProductAccount \/ AddUser \/ CreateAccountRole
           \/ Granted \/ PermissionsSynced
  BY <1>3, CreateProductKeepsInv, CreateProjectKeepsInv, AddProductUserKeepsInv,
     OldRevokedKeepsInv, DropUserKeepsInv, DeleteProductRoleKeepsInv, DeleteProductAccountKeepsInv,
     CreateSpaceKeepsInv, CreateProductAccountKeepsInv, AddUserKeepsInv, CreateAccountRoleKeepsInv,
     GrantedKeepsInv, PermissionsSyncedKeepsInv
<1>4. CASE \/ ListensToAll \/ ReposForgotten \/ CreateEntryPoint \/ CreateGitlab \/ CreateCalendar
           \/ UnlistenGitlab \/ DeleteEntryPoint \/ DeleteGitlab \/ DeleteCalendar \/ RecordKinds
  BY <1>4, ListensToAllKeepsInv, ReposForgottenKeepsInv, CreateSourceKeepsInv,
     UnlistenGitlabKeepsInv, DeleteSourceKeepsInv, RecordKindsKeepsInv
<1>5. CASE \/ CreateHook \/ RemoveHook \/ CreateSensorsOf \/ SensorsSynced \/ DeleteAllSensors
           \/ \E i \in 0..MaxTriggers - 1 : DeleteSurplus(i)
  BY <1>5, CreateHookKeepsInv, RemoveHookKeepsInv, CreateSensorsKeepsInv, DeleteSensorsKeepsInv
<1>6. CASE SyncApp \/ DeleteSpace \/ DeleteProductUser \/ DeleteProduct \/ DeleteProject
  BY <1>6, SyncAppKeepsInv, DeleteSpaceKeepsInv, EndingKeepsInv
<1> QED BY <1>1, <1>2, <1>3, <1>4, <1>5, <1>6 DEF Proceed

LEMMA StepKeepsInv == Inv /\ [Next]_vars => Inv'
<1> SUFFICES ASSUME Inv, [Next]_vars PROVE Inv'
  OBVIOUS
<1>1. CASE User
  BY <1>1, UserKeepsInv
<1>2. CASE \E r \in Names : Reconcile(r)
  BY <1>2, ReconcileKeepsInv
<1>3. CASE Proceed
  BY <1>3, ProceedKeepsInv
<1>4. CASE CallFails
  BY <1>4, CallFailsKeepsInv
<1>5. CASE Crash
  BY <1>5, CrashKeepsInv
<1>6. CASE \E s \in Spaces \cup {Product} : Gone(s)
  BY <1>6, GoneKeepsInv
<1>7. CASE UNCHANGED vars
  BY <1>7, StutterKeepsInv
<1> QED BY <1>1, <1>2, <1>3, <1>4, <1>5, <1>6, <1>7 DEF Next

\* The inductive invariant holds in every state.
THEOREM Inductive == Spec => []Inv
<1> QED BY InitInv, StepKeepsInv, PTL DEF Spec

\* Objects, usage record, cluster, event sources and the run of the controller
\* stay well formed.
THEOREM TypeCorrect == Spec => []TypeOK
<1>1. Inv => TypeOK
  BY TypedIsTypeOK DEF Inv
<1> QED BY <1>1, Inductive, PTL

\* What a runtime uses of the product and of its account stays until the runtime
\* changes, and so does its space, unless it is one that another runtime was
\* moved out of: for any runtimes, spaces, accounts and repositories, any number
\* of edits, late requests, failures and crashes.
THEOREM InUseStays == Spec => []InUseIsKept
<1>1. Inv => InUseIsKept
  <2> SUFFICES ASSUME Inv, NEW r \in recorded, Settled(r)
               PROVE  /\ AccountInPlace(r) /\ AppInPlace(r)
                      /\ SpaceInPlace(r) \/ runtimes[r].spec.space \in left
    BY DEF InUseIsKept
  <2>1. r \in Names /\ runtimes[r].phase = "live"
    BY DEF Inv, RestTyped, Settled, Live
  <2>2. runtimes[r].spec \in Specs /\ SpecOf(r) = runtimes[r].spec /\ Applied(r)
    BY <2>1, ConstantFacts DEF Inv, UnheldIsNew, Settled, Applied, SpecOf
  <2>3. DeployedAs(r, runtimes[r].spec)
    BY <2>1, <2>2 DEF Inv, KeptIsDeployed, Kept
  <2> QED BY <2>3 DEF DeployedAs, HasSpace, HasPerms, AccountInPlace, AppInPlace, SpaceInPlace
<1> QED BY <1>1, Inductive, PTL

-----------------------------------------------------------------------------
(* No event is left, when users wait: what a runtime listens to follows its  *)
(* spec, from the deployment of one spec over the steps that replace it to   *)
(* the deployment of the next, or to nothing.                                *)

\* What r listens to is what spec asks for, and nothing else.
EventsAre(r, spec) ==
  /\ tokens[r] = spec.tokens
  /\ gitlab[r] = IF spec.tokens = {} THEN NoSource ELSE [exists |-> TRUE, repos |-> spec.tokens]
  /\ r \in entry => spec.tokens # {}
  /\ r \in calendar => spec.calendar
  /\ cached[r] = KindsOf(spec)
SensorsAre(r, spec) == sensors[r] = 0..spec.triggers - 1

\* What r listens to on the way to spec: what spec does not ask for will be found.
Listens(r) == gitlab[r].exists \/ r \in entry \/ tokens[r] # {}
EventsFollow(r, spec) ==
  /\ tokens[r] \subseteq gitlab[r].repos \cup spec.tokens
  /\ ~gitlab[r].exists => gitlab[r].repos = {}
  /\ spec.tokens = {} /\ Listens(r) => gitlab[r].exists /\ "gitlab" \in cached[r]
  /\ r \in calendar => spec.calendar \/ "calendar" \in cached[r]

\* The sensors are numbered without a gap, or no deployment of spec ends.
IsInterval(S) == \E m \in 0..MaxTriggers : S = 0..m - 1
HasGap(S, n) == 0..n - 1 \subseteq S /\ n \notin S /\ S # 0..n - 1
SensorsFollow(r, spec) == IsInterval(sensors[r]) \/ HasGap(sensors[r], spec.triggers)

ObjectsListen ==
  \A r \in Names :
    LET object == runtimes[r] IN
    /\ Settled(r) \/ object.phase = "none" => EventsAre(r, object.spec) /\ SensorsAre(r, object.spec)
    /\ Live(r) => EventsFollow(r, object.spec) /\ SensorsFollow(r, object.spec)
    /\ object.phase = "deleting" => EventsFollow(r, NoSpec) /\ usage.known
    /\ Settled(r) \/ object.phase = "deleting" => object.cache.id
    /\ object.phase = "none" => object.spec = NoSpec

\* A token is readable for a runtime that has it, or is about to.
ListenerIsClaimed ==
  \A p \in listener : \E r \in Names : p \in tokens[r] \/ (Live(r) /\ p \in runtimes[r].spec.tokens)

RecordIsKnown == recorded # {} => usage.known

\* With users who wait, a late request finds all runtimes deployed, and a
\* reconcile it disturbs changes nothing.
LateIsAlone == late # NoRequest => \A r \in Names : runtimes[r].phase = "none" \/ Settled(r)
RunIsCalm ==
  run.rt \in Names =>
    /\ runtimes[run.rt].phase = IF Deploying THEN "live" ELSE "deleting"
    /\ run.stale => Deploying /\ EventsAre(run.rt, run.spec) /\ SensorsAre(run.rt, run.spec)
    /\ run.old.id => run.new.id
    /\ run.failed => run.pc \in FromSaved

\* What a reconcile is to bring about.
Target == IF Deploying THEN run.spec ELSE NoSpec

Sourcing == {"listen", "forgetRepos", "createEntry", "createSource"}
FromHook == {"createHook", "removeHook", "createSensors", "surplusSensors", "app"} \cup FromSaved
FromUnlistened == {"deleteSensors", "removeHook", "app", "deleteSpace", "saveUsage", "removeFinalizer"}
                  \cup Leaving \cup Ending
Recorded == IF Deploying THEN run.pc \in FromHook ELSE run.pc \in FromUnlistened

ListeningProgress ==
  run.rt \in Names /\ ~run.failed =>
    LET r    == run.rt
        want == Target.tokens
    IN
    /\ run.pc \in Sourcing => Deploying /\ want # {}
    /\ At("listen") => run.todo \subseteq want /\ want \ run.todo \subseteq tokens[r]
    /\ At("forgetRepos") => /\ want \subseteq tokens[r] /\ tokens[r] \ want \subseteq run.todo
                            /\ run.todo \subseteq gitlab[r].repos \ want
    /\ run.pc \in {"createEntry", "createSource"} => tokens[r] = want
    /\ run.pc \in {"createCalendar"} \cup Unlistening /\ want # {} =>
         tokens[r] = want /\ gitlab[r] = [exists |-> TRUE, repos |-> want]
    /\ At("createCalendar") => Target.calendar
    /\ run.pc \in Unlistening =>
         /\ run.kinds \subseteq cached[r] \ KindsOf(Target)
         /\ want = {} /\ Listens(r) => "gitlab" \in run.kinds
         /\ r \in calendar => Target.calendar \/ "calendar" \in run.kinds
    /\ run.pc \in Unlistening \ {"unlisten"} => "gitlab" \in run.kinds /\ gitlab[r].exists
    /\ At("unlistenRepos") => tokens[r] \subseteq run.todo
    /\ run.pc \in {"deleteEntry", "deleteSource"} => tokens[r] = {}
    /\ At("deleteSource") => r \notin entry
    /\ Recorded => EventsAre(r, Target)
    /\ Deploying /\ run.pc \in FromSynced => run.new.id

SensorsProgress ==
  run.rt \in Names /\ ~run.failed =>
    LET S == sensors[run.rt]
        n == Target.triggers
    IN
    /\ At("surplusSensors") =>
         /\ \A i \in run.surplus : i >= n
         /\ S = 0..n - 1 \cup run.surplus \/ (HasGap(S, n) /\ n \in run.surplus)
    /\ Recorded /\ run.pc \notin {"createHook", "createSensors", "surplusSensors", "deleteSensors"}
         /\ ~(Deploying /\ At("removeHook")) => SensorsAre(run.rt, Target)

EventsInOrder == /\ ObjectsListen /\ ListenerIsClaimed /\ RecordIsKnown /\ LateIsAlone /\ RunIsCalm
                 /\ ListeningProgress /\ SensorsProgress

EventsInv == calm => EventsInOrder

-----------------------------------------------------------------------------
(* What r listens to. *)

LEMMA NoSpecFacts ==
  /\ NoSpec.tokens = {} /\ NoSpec.calendar = FALSE /\ NoSpec.triggers = 0 /\ KindsOf(NoSpec) = {}
  /\ NoSpec.triggers \in 0..MaxTriggers /\ NoSpec.tokens \subseteq Repos /\ NoSpec.app = FALSE
  BY ListenerAssumption DEF NoSpec, KindsOf

\* A spec, or none.
LEMMA SpecFacts ==
  ASSUME NEW spec \in Specs \cup {NoSpec}
  PROVE  /\ spec.tokens \subseteq Repos /\ spec.calendar \in BOOLEAN /\ spec.triggers \in 0..MaxTriggers
         /\ KindsOf(spec) \subseteq Kinds
  BY NoSpecFacts, ConstantFacts DEF KindsOf, Kinds

\* Who listens to what one spec asks for can go on to any other.
LEMMA AreFollow ==
  ASSUME NEW r \in Names, NEW spec \in Specs \cup {NoSpec}, NEW next
  PROVE  /\ EventsAre(r, spec) => EventsFollow(r, next)
         /\ SensorsAre(r, spec) => SensorsFollow(r, next)
<1>1. spec.triggers \in 0..MaxTriggers
  BY SpecFacts
<1>2. SensorsAre(r, spec) => SensorsFollow(r, next)
  BY <1>1 DEF SensorsAre, SensorsFollow, IsInterval
<1>3. EventsAre(r, spec) => EventsFollow(r, next)
  BY DEF EventsAre, EventsFollow, KindsOf, Listens, NoSource
<1> QED BY <1>2, <1>3


\* What a reconcile finds of its runtime, and what it is to bring about.
LEMMA RunEvents ==
  ASSUME Inv, EventsInOrder, run.pc # "idle", NEW r \in Names, r = run.rt,
         NEW target, target = Target
  PROVE  /\ EventsFollow(r, target)
         /\ target \in Specs \cup {NoSpec}
         /\ target.tokens \subseteq Repos /\ target.calendar \in BOOLEAN
         /\ target.triggers \in 0..MaxTriggers
         /\ Deploying => runtimes[r].phase = "live" /\ SensorsFollow(r, target) /\ target = run.spec
         /\ Deleting => runtimes[r].phase = "deleting" /\ run.old.id /\ target = NoSpec
         /\ run.stale => Deploying /\ EventsAre(r, target) /\ SensorsAre(r, target)
         /\ ~run.stale /\ Deploying => runtimes[r].spec = target
         /\ run.pc \in Calls => ~run.failed
         /\ Deploying <=> ~Deleting
         /\ ListenerTypeOK
<1>1. /\ run.spec \in Specs /\ (Deploying <=> ~Deleting) /\ run.old = runtimes[r].cache
      /\ ~run.stale => runtimes[r].spec = run.spec
  <2>1. ~run.stale => runtimes[r].spec = run.spec
    BY DEF Inv, ObjectIsRead
  <2> QED BY <2>1, RunFacts
<1>2. target \in Specs \cup {NoSpec}
  BY <1>1 DEF Target
<1>3. /\ runtimes[r].phase = IF Deploying THEN "live" ELSE "deleting"
      /\ run.stale => Deploying /\ EventsAre(r, target) /\ SensorsAre(r, target)
  BY DEF EventsInOrder, RunIsCalm, Target
<1>4. run.pc \in Calls => ~run.failed
  BY DEF EventsInOrder, RunIsCalm, Calls, FromSaved
<1>5. /\ Deploying => target = run.spec
      /\ Deleting => target = NoSpec
  BY <1>1 DEF Target
<1>9. EventsFollow(r, target) /\ (Deleting => run.old.id) /\ (Deploying => SensorsFollow(r, target))
  <2>1. Deleting => run.old.id
    BY <1>1, <1>3 DEF EventsInOrder, ObjectsListen
  <2>2. CASE Deleting
    <3>1. EventsFollow(r, NoSpec)
      BY <1>1, <1>3, <2>2 DEF EventsInOrder, ObjectsListen
    <3> QED BY <1>1, <1>5, <2>1, <2>2, <3>1
  <2>3. CASE Deploying /\ run.stale
    <3>1. EventsAre(r, target) /\ SensorsAre(r, target)
      BY <1>3, <2>3
    <3>2. EventsFollow(r, target) /\ SensorsFollow(r, target)
      BY <1>2, <3>1, AreFollow
    <3> QED BY <2>1, <3>2
  <2>4. CASE Deploying /\ ~run.stale
    <3>1. Live(r) /\ runtimes[r].spec = target
      BY <1>1, <1>3, <1>5, <2>4 DEF Live
    <3> QED BY <2>1, <3>1 DEF EventsInOrder, ObjectsListen
  <2> QED BY <1>1, <2>2, <2>3, <2>4
<1> QED BY <1>1, <1>2, <1>3, <1>4, <1>5, <1>9, SpecFacts, RestIsTyped

\* What x listens to is not touched.
SameOf(x) ==
  /\ tokens'[x] = tokens[x] /\ gitlab'[x] = gitlab[x] /\ cached'[x] = cached[x]
  /\ sensors'[x] = sensors[x]
  /\ x \in entry' <=> x \in entry
  /\ x \in calendar' <=> x \in calendar

LEMMA SameOfFacts ==
  ASSUME NEW r, NEW spec, SameOf(r)
  PROVE  /\ EventsAre(r, spec)' <=> EventsAre(r, spec)
         /\ SensorsAre(r, spec)' <=> SensorsAre(r, spec)
         /\ EventsFollow(r, spec)' <=> EventsFollow(r, spec)
         /\ SensorsFollow(r, spec)' <=> SensorsFollow(r, spec)
         /\ Listens(r)' <=> Listens(r)
  BY DEF SameOf, EventsAre, SensorsAre, EventsFollow, SensorsFollow, Listens

\* A step of a reconcile that may change what its runtime r listens to, and
\* leaves what is as it is to be.
LEMMA ReconcileStep ==
  ASSUME Inv, EventsInOrder, run.pc # "idle", NEW r \in Names, r = run.rt, NEW target, target = Target,
         UNCHANGED <<runtimes, late, recorded, usage>>, SameReconcile,
         \A x \in Names \ {r} : SameOf(x),
         EventsAre(r, target) => EventsAre(r, target)',
         SensorsAre(r, target) => SensorsAre(r, target)',
         EventsFollow(r, target) => EventsFollow(r, target)',
         SensorsFollow(r, target) => SensorsFollow(r, target)',
         \A p \in listener' : \/ p \in tokens'[r] \/ p \in target.tokens
                              \/ p \in listener /\ p \notin tokens[r],
         run.old.id => run'.new.id, run'.failed => run'.pc \in FromSaved,
         ~run'.failed => ListeningProgress' /\ SensorsProgress'
  PROVE  EventsInOrder'
<1>1. /\ target \in Specs \cup {NoSpec}
      /\ Deploying => runtimes[r].phase = "live" /\ target = run.spec
      /\ Deleting => runtimes[r].phase = "deleting" /\ target = NoSpec
      /\ run.stale => Deploying /\ EventsAre(r, target) /\ SensorsAre(r, target)
      /\ ~run.stale /\ Deploying => runtimes[r].spec = target
      /\ Deploying <=> ~Deleting
      /\ EventsFollow(r, target)
      /\ Deploying => SensorsFollow(r, target)
  BY RunEvents
<1>2. Deploying' <=> Deploying
  BY DEF SameReconcile, Deploying
<1>3. \A x \in Names : /\ Live(x)' <=> Live(x)
                       /\ Settled(x)' <=> Settled(x)
  BY DEF Live, Settled
<1>4. Settled(r) => runtimes[r].spec = target /\ Deploying
  <2>1. r \in Names /\ run.rt \in Names /\ runtimes[r].spec \in Specs \cup {NoSpec}
    BY DEF Inv, RestTyped, Runtime
  <2>2. Settled(r) => runtimes[r].spec # NoSpec
    <3>1. runtimes[r].phase # "none" => runtimes[r].spec \in Specs
      BY DEF Inv, UnheldIsNew
    <3> QED BY <3>1, ConstantFacts DEF Settled, Live
  <2>3. Settled(r) => Applied(r) /\ SpecOf(r) = runtimes[r].spec
    BY <2>2 DEF Settled, Live, Applied, SpecOf
  <2>4. Applied(r) => SpecOf(r) = run.spec
    BY <2>1 DEF Inv, AppliedIsKnown
  <2> QED BY <1>1, <2>3, <2>4 DEF Settled, Live
<1>5. ASSUME NEW x \in Names
      PROVE LET object == runtimes[x] IN
            /\ Settled(x) \/ object.phase = "none" => EventsAre(x, object.spec)' /\ SensorsAre(x, object.spec)'
            /\ Live(x) => EventsFollow(x, object.spec)' /\ SensorsFollow(x, object.spec)'
            /\ object.phase = "deleting" => EventsFollow(x, NoSpec)' /\ usage'.known
            /\ Settled(x) \/ object.phase = "deleting" => object.cache.id
            /\ object.phase = "none" => object.spec = NoSpec
  <2>1. PICK spec : spec = runtimes[x].spec
    OBVIOUS
  <2>2. runtimes'[x].spec = spec
    BY <2>1
  <2>3. /\ Settled(x) \/ runtimes[x].phase = "none" => EventsAre(x, spec) /\ SensorsAre(x, spec)
        /\ Live(x) => EventsFollow(x, spec) /\ SensorsFollow(x, spec)
        /\ runtimes[x].phase = "deleting" => EventsFollow(x, NoSpec) /\ usage.known
        /\ Settled(x) \/ runtimes[x].phase = "deleting" => runtimes[x].cache.id
        /\ runtimes[x].phase = "none" => spec = NoSpec
    BY <2>1 DEF EventsInOrder, ObjectsListen
  <2>4. CASE x # r
    <3>1. SameOf(x)
      BY <2>4
    <3> QED BY <2>1, <2>2, <2>3, <3>1, SameOfFacts
  <2>5. CASE x = r
    <3>1. runtimes[r].phase # "none"
      BY <1>1
    <3>2. Settled(r) => EventsAre(r, spec)' /\ SensorsAre(r, spec)'
      BY <1>4, <2>1, <2>3, <2>5
    <3>3. Live(r) => EventsFollow(r, spec)' /\ SensorsFollow(r, spec)'
      <4>1. CASE run.stale
        <5>1. EventsAre(r, target)' /\ SensorsAre(r, target)' /\ target.triggers \in 0..MaxTriggers
          BY <1>1, <4>1, SpecFacts
        <5>2. EventsFollow(r, spec)'
          BY <5>1 DEF EventsAre, EventsFollow, KindsOf, Listens, NoSource
        <5>3. SensorsFollow(r, spec)'
          BY <5>1 DEF SensorsAre, SensorsFollow, IsInterval
        <5> QED BY <5>2, <5>3
      <4>2. CASE ~run.stale
        BY <1>1, <2>1, <2>5, <4>2 DEF Live
      <4> QED BY <4>1, <4>2
    <3>4. runtimes[r].phase = "deleting" => EventsFollow(r, NoSpec)'
      BY <1>1
    <3> QED BY <2>1, <2>2, <2>3, <2>5, <3>1, <3>2, <3>3, <3>4
  <2> QED BY <2>4, <2>5
<1>6. ObjectsListen'
  BY <1>3, <1>5 DEF ObjectsListen
<1>7. ListenerIsClaimed'
  <2> SUFFICES ASSUME NEW p \in listener'
               PROVE  \E x \in Names : p \in tokens'[x] \/ (Live(x)' /\ p \in runtimes'[x].spec.tokens)
    BY DEF ListenerIsClaimed
  <2>1. CASE p \in tokens'[r]
    BY <2>1
  <2>2. CASE p \in target.tokens
    <3>1. Deploying
      BY <1>1, <2>2, NoSpecFacts
    <3>2. CASE run.stale
      BY <1>1, <2>2, <3>2 DEF EventsAre
    <3>3. CASE ~run.stale
      BY <1>1, <2>2, <3>1, <3>3 DEF Live
    <3> QED BY <3>2, <3>3
  <2>3. CASE p \in listener /\ p \notin tokens[r]
    <3>1. PICK x \in Names : p \in tokens[x] \/ (Live(x) /\ p \in runtimes[x].spec.tokens)
      BY <2>3 DEF EventsInOrder, ListenerIsClaimed
    <3>2. p \in tokens[x] => x # r /\ tokens'[x] = tokens[x]
      BY <2>3 DEF SameOf
    <3> QED BY <1>3, <3>1, <3>2
  <2> QED BY <2>1, <2>2, <2>3
<1>8. RecordIsKnown' /\ LateIsAlone'
  BY <1>3 DEF EventsInOrder, RecordIsKnown, LateIsAlone
<1>9. RunIsCalm'
  <2>1. /\ run'.rt = r /\ run'.stale = run.stale /\ run'.old = run.old
        /\ run'.op = run.op /\ run'.spec = run.spec
    BY DEF SameReconcile
  <2>2. PICK spec : spec = run.spec
    OBVIOUS
  <2>3. run.stale => EventsAre(r, spec)' /\ SensorsAre(r, spec)'
    BY <1>1, <2>2
  <2>4. runtimes'[r].phase = IF Deploying' THEN "live" ELSE "deleting"
    BY <1>1, <1>2
  <2> QED BY <1>1, <1>2, <2>1, <2>2, <2>3, <2>4 DEF RunIsCalm
<1>10. ListeningProgress' /\ SensorsProgress'
  <2>1. run'.failed => ListeningProgress' /\ SensorsProgress'
    BY DEF ListeningProgress, SensorsProgress
  <2> QED BY <2>1
<1> QED BY <1>6, <1>7, <1>8, <1>9, <1>10 DEF EventsInOrder

-----------------------------------------------------------------------------
(* The steps that do not listen: to the cluster, and in the controller.     *)

\* Nothing anybody listens to is touched.
LEMMA QuietStep ==
  ASSUME Inv, EventsInOrder, run.pc # "idle",
         UNCHANGED <<listenerVars, runtimes, late, recorded, usage>>, SameReconcile,
         run.old.id => run'.new.id, run'.failed => run'.pc \in FromSaved,
         ~run'.failed => ListeningProgress' /\ SensorsProgress'
  PROVE  EventsInOrder'
<1>1. PICK r \in Names : r = run.rt
  BY RunFacts
<1>2. PICK target : target = Target
  OBVIOUS
<1>3. \A x \in Names : SameOf(x)
  BY DEF SameOf, listenerVars
<1>4. \A p \in listener' : \/ p \in tokens'[r] \/ p \in target.tokens
                           \/ p \in listener /\ p \notin tokens[r]
  BY DEF listenerVars
<1>5. /\ EventsAre(r, target)' <=> EventsAre(r, target)
      /\ SensorsAre(r, target)' <=> SensorsAre(r, target)
      /\ EventsFollow(r, target)' <=> EventsFollow(r, target)
      /\ SensorsFollow(r, target)' <=> SensorsFollow(r, target)
  BY <1>3, SameOfFacts
<1> QED BY <1>1, <1>2, <1>3, <1>4, <1>5, ReconcileStep

LEMMA FailedEvents ==
  ASSUME Inv, EventsInOrder, run.pc # "idle", run' = Failed
  PROVE  /\ SameReconcile /\ run'.failed /\ run'.pc \in FromSaved
         /\ run.old.id => run'.new.id
         /\ ~run'.failed => ListeningProgress' /\ SensorsProgress'
<1>1. SameReconcile /\ run'.failed /\ run'.pc \in FromSaved /\ run'.new = run.new
  BY RunFacts, FailedFacts DEF SameReconcile, FromSaved
<1>2. run.old.id => run.new.id
  BY RunFacts DEF EventsInOrder, RunIsCalm
<1> QED BY <1>1, <1>2

\* The reconcile goes on.
Continues == SameReconcile /\ run'.failed = run.failed /\ run'.new.id = run.new.id

\* The steps of a deployment before it listens.
Providing == {"createProduct", "createProject", "addProductUser", "createSpace", "createAccount",
              "addUser", "createRole", "grant", "revoke"} \cup Leaving

\* It goes on with what is no listening.
GoesElsewhere ==
  \/ Deploying /\ run.pc \in Providing /\ run'.pc \in Providing
  \/ Deploying /\ run.pc = "createHook" /\ run'.pc = "removeHook"
  \/ Deploying /\ run.pc = "removeHook" /\ run'.pc = "createSensors"
  \/ Deploying /\ run.pc = "app" /\ run'.pc = "saveUsage"
  \/ Deleting /\ {run.pc, run'.pc} \subseteq FromUnlistened \ {"deleteSensors"}

LEMMA ElsewhereStep ==
  ASSUME Inv, EventsInOrder, run.pc \in Calls,
         UNCHANGED <<listenerVars, runtimes, late, recorded, usage>>,
         run' = Failed \/ (Continues /\ GoesElsewhere)
  PROVE  EventsInOrder'
<1>0. run.pc # "idle"
  BY DEF Calls
<1>1. CASE run' = Failed
  BY <1>0, <1>1, FailedEvents, QuietStep
<1>2. CASE Continues /\ GoesElsewhere
  <2>1. PICK r \in Names : r = run.rt
    BY <1>0, RunFacts
  <2>2. PICK target : target = Target
    OBVIOUS
  <2>3. ~run.failed /\ (run.old.id => run.new.id) /\ (Deploying <=> ~Deleting)
    BY <1>0, <2>1, <2>2, RunEvents DEF EventsInOrder, RunIsCalm
  <2>4. SameReconcile /\ ~run'.failed /\ (run.old.id => run'.new.id)
    BY <1>2, <2>3 DEF Continues
  <2>5. /\ run'.rt = r /\ Target' = target /\ Deploying' = Deploying
        /\ run'.new.id = run.new.id
    BY <1>2, <2>1, <2>2 DEF Target, Deploying, Continues, SameReconcile
  <2>6. /\ EventsAre(r, target)' <=> EventsAre(r, target)
        /\ SensorsAre(r, target)' <=> SensorsAre(r, target)
    BY SameOfFacts DEF SameOf, listenerVars
  <2>7. /\ run'.pc \notin Sourcing \cup {"createCalendar"} \cup Unlistening
        /\ run'.pc \notin {"surplusSensors"}
    BY <1>2, <2>3 DEF GoesElsewhere, Sourcing, Unlistening, Providing, Leaving, FromUnlistened, Ending
  <2>8. Recorded' => Recorded
    BY <1>2, <2>3, <2>5 DEF GoesElsewhere, Recorded, FromHook, FromUnlistened, FromSaved, Providing,
       Leaving, Ending
  <2>9. Deploying /\ run'.pc \in FromSynced => run.new.id
    <3>1. Deploying /\ run'.pc \in FromSynced => run.pc \in FromSynced
      BY <1>2, <2>3 DEF GoesElsewhere, FromSynced, ListeningPCs, Unlistening, FromSaved, Providing, Leaving
    <3>2. Deploying /\ run.pc \in FromSynced => run.new.id
      BY <2>1, <2>3 DEF EventsInOrder, ListeningProgress
    <3> QED BY <3>1, <3>2
  <2>10. ListeningProgress'
    <3>1. Recorded => EventsAre(r, target)
      BY <2>1, <2>2, <2>3 DEF EventsInOrder, ListeningProgress
    <3>2. Recorded' => EventsAre(r, target)'
      BY <2>6, <2>8, <3>1
    <3> QED BY <2>5, <2>7, <2>9, <3>2
        DEF ListeningProgress, Sourcing, Unlistening, At
  <2>11. SensorsProgress'
    <3> DEFINE Synced == /\ Recorded
                         /\ run.pc \notin {"createHook", "createSensors", "surplusSensors", "deleteSensors"}
                         /\ ~(Deploying /\ At("removeHook"))
    <3>1. Synced' => Synced
      BY <1>2, <2>3, <2>5, <2>8
      DEF GoesElsewhere, FromUnlistened, Providing, Leaving, Ending, At, Recorded, FromHook, FromSaved
    <3>2. Synced => SensorsAre(r, target)
      BY <2>1, <2>2, <2>3 DEF EventsInOrder, SensorsProgress
    <3>3. Synced' => SensorsAre(r, target)'
      BY SMTT(30), <2>6, <3>1, <3>2
    <3> QED BY <2>5, <2>7, <3>3 DEF SensorsProgress, At
  <2> QED BY <1>0, <2>4, <2>10, <2>11, QuietStep
<1> QED BY <1>1, <1>2

LEMMA RunContinues ==
  ASSUME Inv, run.pc # "idle", NEW pc
  PROVE  /\ run' = GoTo(pc) => Continues /\ run'.pc = pc
         /\ \A todo : run' = Do(pc, todo) => Continues /\ run'.pc = pc
         /\ \A u : run' = [run EXCEPT !.pc = pc, !.usage = u] => Continues /\ run'.pc = pc
         /\ \A u, todo : run' = [run EXCEPT !.pc = pc, !.usage = u, !.todo = todo] =>
                           Continues /\ run'.pc = pc
         /\ \A n : run' = [run EXCEPT !.pc = pc, !.new = n] /\ n.id = run.new.id =>
                     Continues /\ run'.pc = pc
         /\ \A u, n : run' = [run EXCEPT !.pc = pc, !.usage = u, !.new = n] /\ n.id = run.new.id =>
                        Continues /\ run'.pc = pc
<1>1. run \in RunType
  BY RunFacts
<1> QED BY ZenonT(60), <1>1 DEF GoTo, Do, Continues, SameReconcile, RunType

LEMMA LeftContinues ==
  ASSUME Inv, run.pc # "idle", run' = Left
  PROVE  Continues /\ run'.pc = IF Deploying THEN "createSpace" ELSE "deleteSpace"
<1>1. run \in RunType /\ run.new \in Cache
  BY RunFacts
<1> DEFINE pc == IF Deploying THEN "createSpace" ELSE "deleteSpace"
           n == [run.new EXCEPT !.account = IF Deploying THEN @ ELSE NoAccount]
           u == ForgetAccount(run.usage, run.old.account, run.rt)
<1>2. run' = [run EXCEPT !.pc = pc, !.usage = u, !.new = n]
  BY <1>1 DEF Left, RunType, Me
<1>3. n.id = run.new.id
  BY <1>1 DEF Cache
<1> HIDE DEF pc, n, u
<1>4. Continues /\ run'.pc = pc
  BY <1>2, <1>3, RunContinues
<1> QED BY <1>4 DEF pc

\* What every step below leaves alone.
Untouched == UNCHANGED <<listenerVars, runtimes, late, recorded, usage>>

LEMMA ProductEvents ==
  ASSUME Inv, EventsInOrder, CreateProduct \/ CreateProject \/ AddProductUser
  PROVE  EventsInOrder'
<1>1. /\ run.pc \in {"createProduct", "createProject", "addProductUser"}
      /\ run.pc \in Calls /\ run.pc \in Providing /\ run.pc # "idle"
  BY DEF CreateProduct, CreateProject, AddProductUser, At, Calls, PC, Providing
<1>2. Deploying
  <2>1. run.pc \notin DeletePCs
    BY <1>1 DEF DeletePCs, Unlistening, Leaving, Ending
  <2> QED BY <1>1, <2>1, RunFacts
<1>3. Untouched
  BY DEF CreateProduct, CreateProject, AddProductUser, Untouched, Rest, Refuse, clusterVars,
         objectVars, history
<1>4. \/ run' = Failed
      \/ run' = GoTo("createProject") \/ run' = GoTo("addProductUser") \/ run' = GoTo("createSpace")
      \/ run' = GoTo("deleteRole") \/ run' = Do("revokeOld", OldPerms)
  BY DEF CreateProduct, CreateProject, AddProductUser, Answer, Refuse
<1>5. run' = Failed
      \/ (Continues /\ run'.pc \in {"createProject", "addProductUser", "createSpace", "deleteRole",
                                    "revokeOld"})
  BY <1>1, <1>4, RunContinues
<1>6. run' = Failed \/ (Continues /\ GoesElsewhere)
  BY <1>1, <1>2, <1>5 DEF GoesElsewhere, Providing, Leaving
<1> QED BY <1>1, <1>3, <1>6, ElsewhereStep DEF Untouched

LEMMA LeavingEvents ==
  ASSUME Inv, EventsInOrder,
         \/ \E p \in Repos : RevokeOld(p)
         \/ OldRevoked \/ DropUser \/ DeleteProductRole \/ DeleteProductAccount
  PROVE  EventsInOrder'
<1>1. /\ run.pc \in Leaving /\ run.pc \in Calls /\ run.pc # "idle"
  BY DEF RevokeOld, OldRevoked, DropUser, DeleteProductRole, DeleteProductAccount, At, Calls, PC, Leaving
<1>2. Deploying <=> ~Deleting
  BY <1>1, RunFacts
<1>3. Untouched
  BY DEF RevokeOld, OldRevoked, DropUser, DeleteProductRole, DeleteProductAccount, Untouched, Rest,
         Refuse, Goes, clusterVars, objectVars, history
<1>4. \/ run' = Failed
      \/ run' = Do("revokeOld", run'.todo) \/ run' = GoTo("deleteRole")
      \/ Deploying /\ run' = GoTo("dropUser")
      \/ run' = GoTo("deleteAccount") \/ run' = Left
  <2>1. CASE \E p \in Repos : RevokeOld(p)
    <3>1. PICK p \in Repos : RevokeOld(p)
      BY <2>1
    <3>2. run' = Failed \/ run' = Do("revokeOld", run.todo \ {p})
      BY <3>1 DEF RevokeOld, Answer
    <3>3. run \in RunType
      BY <1>1, RunFacts
    <3>4. run' = Do("revokeOld", run.todo \ {p}) => run'.todo = run.todo \ {p}
      BY <3>3 DEF Do, RunType
    <3> QED BY <3>2, <3>4
  <2>2. CASE OldRevoked \/ DropUser \/ DeleteProductRole \/ DeleteProductAccount
    BY <2>2 DEF OldRevoked, DropUser, DeleteProductRole, DeleteProductAccount, Answer, Goes, Refuse
  <2> QED BY <2>1, <2>2
<1>5. \/ run' = Failed
      \/ Continues /\ run'.pc \in {"revokeOld", "deleteRole", "deleteAccount"}
      \/ Continues /\ Deploying /\ run'.pc = "dropUser"
      \/ Continues /\ run'.pc = IF Deploying THEN "createSpace" ELSE "deleteSpace"
  <2>1. CASE run' = Left
    BY <1>1, <2>1, LeftContinues
  <2> QED BY <1>1, <1>4, <2>1, RunContinues
<1>6. run' = Failed \/ (Continues /\ GoesElsewhere)
  <2>1. /\ {"revokeOld", "deleteRole", "deleteAccount", "createSpace", "dropUser"} \subseteq Providing
        /\ {"revokeOld", "deleteRole", "deleteAccount", "deleteSpace"}
             \subseteq FromUnlistened \ {"deleteSensors"}
        /\ Leaving \subseteq Providing /\ Leaving \subseteq FromUnlistened \ {"deleteSensors"}
    BY DEF Providing, Leaving, FromUnlistened
  <2> QED BY <1>1, <1>2, <1>5, <2>1 DEF GoesElsewhere
<1> QED BY <1>1, <1>3, <1>6, ElsewhereStep DEF Untouched

LEMMA SpaceEvents ==
  ASSUME Inv, EventsInOrder,
         CreateSpace \/ CreateProductAccount \/ AddUser \/ CreateAccountRole
  PROVE  EventsInOrder'
<1>1. /\ run.pc \in {"createSpace", "createAccount", "addUser", "createRole"}
      /\ run.pc \in Calls /\ run.pc \in Providing /\ run.pc # "idle"
  BY DEF CreateSpace, CreateProductAccount, AddUser, CreateAccountRole, At, Calls, PC, Providing
<1>2. /\ Deploying /\ run \in RunType /\ run.new \in Cache
  <2>1. run.pc \notin DeletePCs
    BY <1>1 DEF DeletePCs, Unlistening, Leaving, Ending
  <2> QED BY <1>1, <2>1, RunFacts
<1>3. Untouched
  BY DEF CreateSpace, CreateProductAccount, AddUser, CreateAccountRole, Untouched, Rest,
         Refuse, clusterVars, objectVars, history
<1> DEFINE n == [run.new EXCEPT !.space = run.spec.space]
           u == UpdateSpaces(run.usage, run.spec.account, Me, {run.spec.space})
<1>4. \/ run' = Failed
      \/ run' = [run EXCEPT !.pc = "createAccount", !.new = n]
      \/ run' = GoTo("addUser")
      \/ run' = [run EXCEPT !.pc = "createRole", !.usage = u]
      \/ run' = Do("grant", Perms(run.spec))
  <2>1. [run EXCEPT !.pc = "createAccount", !.new.space = run.spec.space] =
          [run EXCEPT !.pc = "createAccount", !.new = n]
    BY <1>2 DEF RunType
  <2>2. [run EXCEPT !.pc = "createRole",
                    !.usage = UpdateSpaces(@, run.spec.account, Me, {run.spec.space})] =
          [run EXCEPT !.pc = "createRole", !.usage = u]
    BY <1>2 DEF RunType
  <2> HIDE DEF n, u
  <2> QED BY <2>1, <2>2 DEF CreateSpace, CreateProductAccount, AddUser, CreateAccountRole, Answer, Refuse
<1>5. n.id = run.new.id
  BY <1>2 DEF Cache
<1> HIDE DEF n, u
<1>6. run' = Failed
      \/ (Continues /\ run'.pc \in {"createAccount", "addUser", "createRole", "grant"})
  BY <1>1, <1>4, <1>5, RunContinues
<1>7. run' = Failed \/ (Continues /\ GoesElsewhere)
  BY <1>1, <1>2, <1>6 DEF GoesElsewhere, Providing
<1> QED BY <1>1, <1>3, <1>7, ElsewhereStep DEF Untouched

LEMMA PermissionEvents ==
  ASSUME Inv, EventsInOrder, Granted \/ \E p \in Repos : Grant(p) \/ Revoke(p)
  PROVE  EventsInOrder'
<1>1. /\ run.pc \in {"grant", "revoke"}
      /\ run.pc \in Calls /\ run.pc \in Providing /\ run.pc # "idle"
  BY DEF Granted, Grant, Revoke, At, Calls, PC, Providing
<1>2. Deploying /\ run \in RunType
  <2>1. run.pc \notin DeletePCs
    BY <1>1 DEF DeletePCs, Unlistening, Leaving, Ending
  <2> QED BY <1>1, <2>1, RunFacts
<1>3. Untouched
  BY DEF Granted, Grant, Revoke, Untouched, Rest, Goes, clusterVars, objectVars, history
<1>4. \/ run' = Failed
      \/ \E todo : run' = Do("grant", todo) \/ run' = Do("revoke", todo)
      \/ \E u, todo : run' = [run EXCEPT !.pc = "revoke", !.usage = u, !.todo = todo]
  BY DEF Granted, Grant, Revoke, Answer, Goes
<1>5. run' = Failed \/ (Continues /\ run'.pc \in {"grant", "revoke"})
  <2>1. ASSUME NEW todo, run' = Do("grant", todo) PROVE Continues /\ run'.pc = "grant"
    BY <1>1, <2>1, RunContinues
  <2>2. ASSUME NEW todo, run' = Do("revoke", todo) PROVE Continues /\ run'.pc = "revoke"
    BY <1>1, <2>2, RunContinues
  <2>3. ASSUME NEW u, NEW todo, run' = [run EXCEPT !.pc = "revoke", !.usage = u, !.todo = todo]
        PROVE  Continues /\ run'.pc = "revoke"
    BY <1>1, <2>3, RunContinues
  <2> QED BY <1>4, <2>1, <2>2, <2>3
<1>6. run' = Failed \/ (Continues /\ GoesElsewhere)
  BY <1>1, <1>2, <1>5 DEF GoesElsewhere, Providing
<1> QED BY <1>1, <1>3, <1>6, ElsewhereStep DEF Untouched

LEMMA HookEvents ==
  ASSUME Inv, EventsInOrder, CreateHook \/ RemoveHook
  PROVE  EventsInOrder'
<1>1. /\ run.pc \in {"createHook", "removeHook"} /\ run.pc \in Calls /\ run.pc # "idle"
  BY DEF CreateHook, RemoveHook, At, Calls, PC
<1>2. /\ run \in RunType /\ run.new \in Cache /\ (Deploying <=> ~Deleting)
      /\ run.pc = "createHook" => Deploying
  <2>1. "createHook" \notin DeletePCs
    BY DEF DeletePCs, Unlistening, Leaving, Ending
  <2> QED BY <1>1, <2>1, RunFacts
<1>3. Untouched
  BY DEF CreateHook, RemoveHook, Untouched, HookRest, Refuse, clusterVars, objectVars, history
<1> DEFINE pc == IF Deploying THEN "createSensors" ELSE "app"
           n == [run.new EXCEPT !.hook = IF Deploying THEN HookOf(run.spec) ELSE NoRepo]
<1>4. \/ run' = Failed
      \/ run.pc = "createHook" /\ run' = GoTo("removeHook")
      \/ run.pc = "removeHook" /\ run' = [run EXCEPT !.pc = pc, !.new = n]
  <2>1. [run EXCEPT !.pc = pc, !.new.hook = IF Deploying THEN HookOf(run.spec) ELSE NoRepo] =
          [run EXCEPT !.pc = pc, !.new = n]
    BY <1>2 DEF RunType
  <2> HIDE DEF n
  <2> QED BY <2>1 DEF CreateHook, RemoveHook, Answer, Refuse, At
<1>5. n.id = run.new.id
  BY <1>2 DEF Cache
<1> HIDE DEF n, pc
<1>6. \/ run' = Failed
      \/ Continues /\ run.pc = "createHook" /\ run'.pc = "removeHook"
      \/ Continues /\ run.pc = "removeHook" /\ run'.pc = pc
  BY <1>1, <1>4, <1>5, RunContinues
<1>7. run' = Failed \/ (Continues /\ GoesElsewhere)
  BY <1>1, <1>2, <1>6 DEF GoesElsewhere, FromUnlistened, pc
<1> QED BY <1>1, <1>3, <1>7, ElsewhereStep DEF Untouched

LEMMA AppEvents ==
  ASSUME Inv, EventsInOrder, SyncApp
  PROVE  EventsInOrder'
<1>1. run.pc = "app" /\ run.pc \in Calls /\ run.pc # "idle"
  BY DEF SyncApp, At, Calls, PC
<1>2. run \in RunType /\ run.new \in Cache /\ (Deploying <=> ~Deleting)
  BY <1>1, RunFacts
<1>3. Untouched
  BY DEF SyncApp, Untouched, objectVars
<1> DEFINE n == [run.new EXCEPT !.app = @ \/ run.spec.app]
           next == [run EXCEPT !.new = n]
<1>4. /\ n.id = run.new.id
      /\ next = [run EXCEPT !.new.app = @ \/ run.spec.app]
  BY <1>2 DEF Cache, RunType
<1> HIDE DEF n
<1>5. run' = Failed \/ run' = AfterApp(next)
  BY <1>4 DEF SyncApp, Answer
<1>6. run' = AfterApp(next) =>
        /\ Continues
        /\ run'.pc \in IF Deploying THEN {"saveUsage"} ELSE {"deleteSpace", "revokeOld"}
  BY <1>2, <1>4 DEF AfterApp, RunType, Continues, SameReconcile
<1>7. run' = Failed \/ (Continues /\ GoesElsewhere)
  BY <1>1, <1>2, <1>5, <1>6 DEF GoesElsewhere, FromUnlistened, Leaving
<1> QED BY <1>1, <1>3, <1>7, ElsewhereStep DEF Untouched

LEMMA EndingEvents ==
  ASSUME Inv, EventsInOrder, DeleteSpace \/ DeleteProductUser \/ DeleteProduct \/ DeleteProject
  PROVE  EventsInOrder'
<1>1. /\ run.pc \in {"deleteSpace"} \cup Ending
      /\ run.pc \in Calls /\ run.pc # "idle"
  BY DEF DeleteSpace, DeleteProductUser, DeleteProduct, DeleteProject, At, Calls, PC, Ending
<1>2. Deleting /\ run \in RunType /\ run.new \in Cache
  <2>1. run.pc \notin DeployPCs
    BY <1>1 DEF DeployPCs, FromValidated, FromUsage, FromProduct, FromProject, FromSpace,
       FromAccount, FromUser, FromRole, FromGranted, FromSynced, FromSaved, Leaving, ListeningPCs,
       Unlistening, Ending
  <2> QED BY <1>1, <2>1, RunFacts
<1>3. Untouched
  BY DEF DeleteSpace, DeleteProductUser, DeleteProduct, DeleteProject, Untouched, Rest,
         Refuse, clusterVars, objectVars, history
<1> DEFINE pc == IF run.usage.runtimes = {} THEN "deleteProductUser" ELSE "saveUsage"
           n == [run.new EXCEPT !.space = NoSpace]
<1>4. \/ run' = Failed
      \/ run' = [run EXCEPT !.pc = pc, !.new = n]
      \/ run' = GoTo("deleteProduct") \/ run' = GoTo("deleteProject") \/ run' = GoTo("saveUsage")
  <2>1. [run EXCEPT !.pc = pc, !.new.space = NoSpace] = [run EXCEPT !.pc = pc, !.new = n]
    BY <1>2 DEF RunType
  <2> HIDE DEF n
  <2> QED BY <2>1 DEF DeleteSpace, DeleteProductUser, DeleteProduct, DeleteProject, Answer, Refuse
<1>5. n.id = run.new.id
  BY <1>2 DEF Cache
<1>6. pc \in {"deleteProductUser", "saveUsage"}
  OBVIOUS
<1> HIDE DEF n, pc
<1>7. run' = Failed \/ (Continues /\ run'.pc \in Ending \cup {"saveUsage"})
  BY <1>1, <1>4, <1>5, <1>6, RunContinues DEF Ending
<1>8. run' = Failed \/ (Continues /\ GoesElsewhere)
  <2>1. Ending \cup {"saveUsage", "deleteSpace"} \subseteq FromUnlistened \ {"deleteSensors"}
    BY DEF Ending, FromUnlistened
  <2> QED BY <1>1, <1>2, <1>7, <2>1 DEF GoesElsewhere
<1> QED BY <1>1, <1>3, <1>8, ElsewhereStep DEF Untouched

LEMMA CallFailsEvents ==
  ASSUME Inv, EventsInOrder, CallFails
  PROVE  EventsInOrder'
  BY ElsewhereStep DEF CallFails, clusterVars, objectVars, history

-----------------------------------------------------------------------------
(* The steps that listen. *)

\* How far a reconcile has come, of the runtime r on its way to target.
LEMMA ProgressFacts ==
  ASSUME Inv, EventsInOrder, run.pc \in Calls, NEW r \in Names, r = run.rt,
         NEW target, target = Target
  PROVE  LET want == target.tokens IN
    /\ run.pc \in Sourcing => Deploying /\ want # {}
    /\ At("listen") => run.todo \subseteq want /\ want \ run.todo \subseteq tokens[r]
    /\ At("forgetRepos") => /\ want \subseteq tokens[r] /\ tokens[r] \ want \subseteq run.todo
                            /\ run.todo \subseteq gitlab[r].repos \ want
    /\ run.pc \in {"createEntry", "createSource"} => tokens[r] = want
    /\ run.pc \in {"createCalendar"} \cup Unlistening /\ want # {} =>
         tokens[r] = want /\ gitlab[r] = [exists |-> TRUE, repos |-> want]
    /\ At("createCalendar") => target.calendar
    /\ run.pc \in Unlistening =>
         /\ run.kinds \subseteq cached[r] \ KindsOf(target)
         /\ want = {} /\ Listens(r) => "gitlab" \in run.kinds
         /\ r \in calendar => target.calendar \/ "calendar" \in run.kinds
    /\ run.pc \in Unlistening \ {"unlisten"} => "gitlab" \in run.kinds /\ gitlab[r].exists
    /\ At("unlistenRepos") => tokens[r] \subseteq run.todo
    /\ run.pc \in {"deleteEntry", "deleteSource"} => tokens[r] = {}
    /\ At("deleteSource") => r \notin entry
    /\ Recorded => EventsAre(r, target)
    /\ Deploying /\ run.pc \in FromSynced => run.new.id
<1>1. ~run.failed
  BY DEF EventsInOrder, RunIsCalm, Calls, FromSaved
<1> QED BY <1>1 DEF EventsInOrder, ListeningProgress

\* Who listens to what target asks for has nothing to unlisten.
LEMMA UnlisteningFacts ==
  ASSUME Inv, EventsInOrder, run.pc \in Unlistening, NEW r \in Names, r = run.rt,
         NEW target, target = Target
  PROVE  /\ run.kinds \subseteq cached[r] \ KindsOf(target)
         /\ run.kinds # {} => ~EventsAre(r, target)
         /\ "gitlab" \in run.kinds => target.tokens = {} /\ "gitlab" \in cached[r]
         /\ "calendar" \in run.kinds => target.calendar = FALSE
<1>1. run.pc \in Calls /\ run.pc # "idle"
  BY DEF Unlistening, Calls, PC
<1>2. run.kinds \subseteq cached[r] \ KindsOf(target)
  BY <1>1, ProgressFacts
<1>3. target.calendar \in BOOLEAN
  BY <1>1, RunEvents
<1> QED BY <1>2, <1>3 DEF EventsAre, KindsOf

LEMMA SensorsLater ==
  ASSUME run'.pc \in Sourcing \cup {"createCalendar", "createHook", "deleteSensors"} \cup Unlistening,
         (Deploying <=> ~Deleting)'
  PROVE  SensorsProgress'
  BY DEF SensorsProgress, Recorded, FromHook, FromUnlistened, FromSaved, Sourcing, Unlistening,
         Leaving, Ending, At

LEMMA ListenStep ==
  ASSUME Inv, EventsInOrder, run.pc \in Calls, NEW r \in Names, r = run.rt,
         NEW target, target = Target,
         UNCHANGED <<runtimes, late, recorded, usage>>,
         \A x \in Names \ {r} : SameOf(x),
         EventsAre(r, target) => EventsAre(r, target)',
         SensorsAre(r, target) => SensorsAre(r, target)',
         EventsFollow(r, target) => EventsFollow(r, target)',
         SensorsFollow(r, target) => SensorsFollow(r, target)',
         \A p \in listener' : \/ p \in tokens'[r] \/ p \in target.tokens
                              \/ p \in listener /\ p \notin tokens[r],
         run' = Failed \/ (Continues /\ ListeningProgress' /\ SensorsProgress')
  PROVE  EventsInOrder'
<1>1. run.pc # "idle"
  BY DEF Calls
<1>2. CASE run' = Failed
  BY <1>1, <1>2, FailedEvents, ReconcileStep
<1>3. CASE Continues /\ ListeningProgress' /\ SensorsProgress'
  <2>1. SameReconcile /\ ~run'.failed /\ (run.old.id => run'.new.id)
    BY <1>1, <1>3, RunEvents DEF Continues, EventsInOrder, RunIsCalm
  <2> QED BY <1>1, <1>3, <2>1, ReconcileStep
<1> QED BY <1>2, <1>3

\* What the next step knows.
LEMMA NextFacts ==
  ASSUME Inv, run.pc # "idle", Continues, NEW r \in Names, r = run.rt, NEW target, target = Target
  PROVE  /\ run'.rt = r /\ Target' = target /\ Deploying' = Deploying /\ Deleting' = Deleting
         /\ run'.new.id = run.new.id /\ run'.failed = run.failed
         /\ (Deploying <=> ~Deleting)'
<1>1. Deploying <=> ~Deleting
  BY RunFacts
<1> QED BY <1>1 DEF Continues, SameReconcile, Target, Deploying, Deleting

LEMMA SameListens ==
  ASSUME NEW r, SameOf(r), NEW target
  PROVE  /\ EventsAre(r, target) => EventsAre(r, target)'
         /\ SensorsAre(r, target) => SensorsAre(r, target)'
         /\ EventsFollow(r, target) => EventsFollow(r, target)'
         /\ SensorsFollow(r, target) => SensorsFollow(r, target)'
  BY SameOfFacts

\* The sensors are not touched.
LEMMA SameSensors ==
  ASSUME NEW r, NEW target, UNCHANGED sensors
  PROVE  /\ SensorsAre(r, target) => SensorsAre(r, target)'
         /\ SensorsFollow(r, target) => SensorsFollow(r, target)'
  BY DEF SensorsAre, SensorsFollow

LEMMA ListenToEvents ==
  ASSUME Inv, EventsInOrder, NEW p \in Repos, ListenTo(p)
  PROVE  EventsInOrder'
<1>1. /\ run.pc = "listen" /\ run.pc \in Calls /\ run.pc # "idle" /\ p \in run.todo
      /\ UNCHANGED <<runtimes, late, recorded, usage, entry, gitlab, calendar, sensors, cached>>
      /\ CreateTokens(run.rt, p) \/ (GrantToken(run.rt, p) /\ run' = Failed)
      /\ run' = Failed \/ run' = Do("listen", run.todo \ {p})
  BY DEF ListenTo, At, Calls, PC, ListenRest, Answer, Me, objectVars, history, clusterVars
<1>2. PICK r \in Names : r = run.rt
  BY <1>1, RunFacts
<1>3. PICK target : target = Target
  OBVIOUS
<1>4. /\ ListenerTypeOK /\ EventsFollow(r, target) /\ (Deploying <=> ~Deleting)
      /\ run.todo \subseteq target.tokens /\ target.tokens \ run.todo \subseteq tokens[r]
      /\ Deploying /\ target.tokens # {} /\ run.new.id /\ run \in RunType
  <2>1. "listen" \in Sourcing /\ "listen" \in FromSynced
    BY DEF Sourcing, FromSynced, ListeningPCs
  <2> QED BY <1>1, <1>2, <1>3, <2>1, RunEvents, RunFacts, ProgressFacts DEF At
<1>5. /\ \A x \in Names \ {r} : SameOf(x)
      /\ tokens'[r] = tokens[r] \cup {p} \/ (tokens' = tokens /\ run' = Failed)
      /\ listener' = listener \cup {p}
  BY <1>1, <1>2, <1>4 DEF SameOf, CreateTokens, GrantToken, ListenerTypeOK
<1>6. p \in target.tokens
  BY <1>1, <1>4
<1>7. EventsAre(r, target) => EventsAre(r, target)'
  BY <1>1, <1>5, <1>6 DEF EventsAre
<1>8. EventsFollow(r, target) => EventsFollow(r, target)'
  BY <1>1, <1>4, <1>5, <1>6 DEF EventsFollow, Listens
<1>9. \A q \in listener' : \/ q \in tokens'[r] \/ q \in target.tokens
                           \/ q \in listener /\ q \notin tokens[r]
  BY <1>5, <1>6
<1>10. ASSUME run' # Failed PROVE Continues /\ ListeningProgress' /\ SensorsProgress'
  <2>1. run' = Do("listen", run.todo \ {p}) /\ tokens'[r] = tokens[r] \cup {p}
    BY <1>1, <1>5, <1>10
  <2>2. Continues /\ run'.pc = "listen" /\ run'.todo = run.todo \ {p}
    BY <1>1, <1>4, <2>1, RunContinues DEF Do, RunType
  <2>3. SensorsProgress'
    BY <1>1, <1>2, <1>3, <2>2, NextFacts, SensorsLater DEF Sourcing
  <2>4. target.tokens \ run'.todo \subseteq tokens'[r] /\ run'.todo \subseteq target.tokens
    BY <1>4, <2>1, <2>2
  <2>5. ListeningProgress'
    BY <1>1, <1>2, <1>3, <1>4, <2>2, <2>4, NextFacts
    DEF ListeningProgress, At, Sourcing, Unlistening, Recorded, FromHook, FromSaved
  <2> QED BY <2>2, <2>3, <2>5
<1> QED BY <1>1, <1>2, <1>3, <1>5, <1>7, <1>8, <1>9, <1>10, SameSensors, ListenStep

\* What a step of the controller alone leaves as it was.
LEMMA LocalEvents ==
  ASSUME Inv, EventsInOrder, run.pc \in Calls, NEW r \in Names, r = run.rt,
         NEW target, target = Target,
         UNCHANGED <<listenerVars, runtimes, late, recorded, usage>>,
         run' = Failed \/ (Continues /\ ListeningProgress' /\ SensorsProgress')
  PROVE  EventsInOrder'
<1>1. \A x \in Names : SameOf(x)
  BY DEF SameOf, listenerVars
<1>2. \A p \in listener' : \/ p \in tokens'[r] \/ p \in target.tokens
                           \/ p \in listener /\ p \notin tokens[r]
  BY DEF listenerVars
<1> QED BY <1>1, <1>2, SameListens, ListenStep

LEMMA ListensToAllEvents ==
  ASSUME Inv, EventsInOrder, ListensToAll
  PROVE  EventsInOrder'
<1>1. /\ run.pc = "listen" /\ run.pc \in Calls /\ run.pc # "idle" /\ run.todo = {}
      /\ UNCHANGED <<listenerVars, runtimes, late, recorded, usage>>
      /\ run' = Do("forgetRepos", gitlab[run.rt].repos \ run.spec.tokens)
  BY DEF ListensToAll, At, Calls, PC, Goes, Me, objectVars, history, clusterVars
<1>2. PICK r \in Names : r = run.rt
  BY <1>1, RunFacts
<1>3. PICK target : target = Target
  OBVIOUS
<1>4. /\ EventsFollow(r, target) /\ (Deploying <=> ~Deleting) /\ target = run.spec
      /\ target.tokens \subseteq tokens[r]
      /\ Deploying /\ target.tokens # {} /\ run.new.id /\ run \in RunType
  <2>1. "listen" \in Sourcing /\ "listen" \in FromSynced
    BY DEF Sourcing, FromSynced, ListeningPCs
  <2>2. Deploying /\ target.tokens # {} /\ target.tokens \ run.todo \subseteq tokens[r]
    BY <1>1, <1>2, <1>3, <2>1, ProgressFacts DEF At
  <2>3. run.new.id
    BY ZenonT(60), <1>1, <1>2, <1>3, <2>1, <2>2, ProgressFacts
  <2> QED BY <1>1, <1>2, <1>3, <2>2, <2>3, RunEvents, RunFacts
<1>5. /\ Continues /\ run'.pc = "forgetRepos"
      /\ run'.todo = gitlab[r].repos \ target.tokens
  BY <1>1, <1>2, <1>4, RunContinues DEF Do, RunType
<1>6. UNCHANGED <<tokens, gitlab>>
  BY <1>1 DEF listenerVars
<1>7. SensorsProgress'
  BY <1>1, <1>2, <1>3, <1>5, NextFacts, SensorsLater DEF Sourcing
<1>8. tokens[r] \ target.tokens \subseteq run'.todo
  BY <1>4, <1>5 DEF EventsFollow
<1>9. ListeningProgress'
  BY <1>1, <1>2, <1>3, <1>4, <1>5, <1>6, <1>8, NextFacts
  DEF ListeningProgress, At, Sourcing, Unlistening, Recorded, FromHook, FromSaved
<1> QED BY <1>1, <1>2, <1>3, <1>5, <1>7, <1>9, LocalEvents

LEMMA ForgetRepoEvents ==
  ASSUME Inv, EventsInOrder, NEW p \in Repos, ForgetRepo(p)
  PROVE  EventsInOrder'
<1>1. /\ run.pc \in {"forgetRepos", "unlistenRepos"} /\ run.pc \in Calls /\ run.pc # "idle"
      /\ p \in run.todo
      /\ UNCHANGED <<runtimes, late, recorded, usage, entry, gitlab, calendar, sensors, cached>>
      /\ \/ UNCHANGED listenerVars /\ run' = Failed
         \/ DeleteTokens(run.rt, p)
         \/ RevokeToken(run.rt, p) /\ run' = Failed
      /\ run' = Failed \/ run' = Do(run.pc, run.todo \ {p})
  BY DEF ForgetRepo, At, Calls, PC, Refuse, Answer, Me, objectVars, history, clusterVars,
         listenerVars
<1>2. PICK r \in Names : r = run.rt
  BY <1>1, RunFacts
<1>3. PICK target : target = Target
  OBVIOUS
<1>4. /\ ListenerTypeOK /\ EventsFollow(r, target) /\ (Deploying <=> ~Deleting) /\ run \in RunType
      /\ Deploying => run.new.id
  <2>1. {"forgetRepos", "unlistenRepos"} \subseteq FromSynced
    BY DEF FromSynced, ListeningPCs, Unlistening
  <2> QED BY <1>1, <1>2, <1>3, <2>1, RunEvents, RunFacts, ProgressFacts
<1>5. run.pc = "forgetRepos" =>
        /\ Deploying /\ target.tokens # {} /\ p \notin target.tokens
        /\ target.tokens \subseteq tokens[r] /\ tokens[r] \ target.tokens \subseteq run.todo
        /\ run.todo \subseteq gitlab[r].repos \ target.tokens
  <2>1. "forgetRepos" \in Sourcing
    BY DEF Sourcing
  <2> QED BY <1>1, <1>2, <1>3, <2>1, ProgressFacts DEF At
<1>6. run.pc = "unlistenRepos" =>
        /\ target.tokens = {} /\ ~EventsAre(r, target) /\ "gitlab" \in cached[r]
        /\ "gitlab" \in run.kinds /\ gitlab[r].exists /\ tokens[r] \subseteq run.todo
        /\ run.kinds \subseteq cached[r] \ KindsOf(target)
        /\ r \in calendar => target.calendar \/ "calendar" \in run.kinds
  <2>1. "unlistenRepos" \in Unlistening \ {"unlisten"}
    BY DEF Unlistening
  <2>2. run.pc = "unlistenRepos" =>
          /\ "gitlab" \in run.kinds /\ gitlab[r].exists /\ tokens[r] \subseteq run.todo
          /\ r \in calendar => target.calendar \/ "calendar" \in run.kinds
    <3> SUFFICES ASSUME run.pc = "unlistenRepos"
                 PROVE  /\ "gitlab" \in run.kinds /\ gitlab[r].exists /\ tokens[r] \subseteq run.todo
                        /\ r \in calendar => target.calendar \/ "calendar" \in run.kinds
      OBVIOUS
    <3>1. run.pc \in Unlistening /\ run.pc \in Unlistening \ {"unlisten"} /\ At("unlistenRepos")
      BY <2>1 DEF At
    <3> QED BY <1>1, <1>2, <1>3, <3>1, ProgressFacts
  <2> QED BY <1>2, <1>3, <2>1, <2>2, UnlisteningFacts
<1>7. /\ \A x \in Names \ {r} : SameOf(x)
      /\ tokens'[r] = tokens[r] \ {p} \/ (tokens' = tokens /\ run' = Failed)
      /\ listener' \subseteq listener
      /\ listener' = listener \ {p} \/ tokens' = tokens
  BY <1>1, <1>2, <1>4 DEF SameOf, DeleteTokens, RevokeToken, ListenerTypeOK, listenerVars
<1>8. EventsAre(r, target) => EventsAre(r, target)'
  BY <1>1, <1>5, <1>6, <1>7 DEF EventsAre
<1>9. EventsFollow(r, target) => EventsFollow(r, target)'
  BY <1>1, <1>4, <1>5, <1>6, <1>7 DEF EventsFollow, Listens
<1>10. \A q \in listener' : \/ q \in tokens'[r] \/ q \in target.tokens
                            \/ q \in listener /\ q \notin tokens[r]
  BY <1>7
<1>11. ASSUME run' # Failed PROVE Continues /\ ListeningProgress' /\ SensorsProgress'
  <2>1. run' = Do(run.pc, run.todo \ {p}) /\ tokens'[r] = tokens[r] \ {p}
    BY <1>1, <1>7, <1>11
  <2>2. Continues /\ run'.pc = run.pc /\ run'.todo = run.todo \ {p} /\ run'.kinds = run.kinds
    BY <1>1, <1>4, <2>1, RunContinues DEF Do, RunType
  <2>3. SensorsProgress'
    BY <1>1, <1>2, <1>3, <2>2, NextFacts, SensorsLater DEF Sourcing, Unlistening
  <2>4. CASE run.pc = "forgetRepos"
    <3>1. /\ target.tokens \subseteq tokens'[r] /\ tokens'[r] \ target.tokens \subseteq run'.todo
          /\ run'.todo \subseteq gitlab'[r].repos \ target.tokens
      BY <1>1, <1>5, <2>1, <2>2, <2>4
    <3>2. ListeningProgress'
      BY <1>1, <1>2, <1>3, <1>4, <1>5, <2>2, <2>4, <3>1, NextFacts
      DEF ListeningProgress, At, Sourcing, Unlistening, Recorded, FromHook, FromSaved
    <3> QED BY <2>2, <2>3, <3>2
  <2>5. CASE run.pc = "unlistenRepos"
    <3>1. tokens'[r] \subseteq run'.todo
      BY <1>6, <2>1, <2>2, <2>5
    <3>2. ListeningProgress'
      BY <1>1, <1>2, <1>3, <1>4, <1>6, <2>2, <2>5, <3>1, NextFacts
      DEF ListeningProgress, At, Sourcing, Unlistening, Recorded, FromHook, FromSaved,
          FromUnlistened, Leaving, Ending
    <3> QED BY <2>2, <2>3, <3>2
  <2> QED BY <1>1, <2>4, <2>5
<1> QED BY <1>1, <1>2, <1>3, <1>7, <1>8, <1>9, <1>10, <1>11, SameSensors, ListenStep

LEMMA ReposForgottenEvents ==
  ASSUME Inv, EventsInOrder, ReposForgotten
  PROVE  EventsInOrder'
<1>1. /\ run.pc \in {"forgetRepos", "unlistenRepos"} /\ run.pc \in Calls /\ run.pc # "idle"
      /\ run.todo = {}
      /\ UNCHANGED <<listenerVars, runtimes, late, recorded, usage>>
      /\ run' = GoTo(IF run.pc = "forgetRepos" THEN "createEntry" ELSE "deleteEntry")
  BY DEF ReposForgotten, At, Calls, PC, Goes, objectVars, history, clusterVars
<1>2. PICK r \in Names : r = run.rt
  BY <1>1, RunFacts
<1>3. PICK target : target = Target
  OBVIOUS
<1>4. /\ (Deploying <=> ~Deleting) /\ run \in RunType /\ (Deploying => run.new.id)
  <2>1. {"forgetRepos", "unlistenRepos"} \subseteq FromSynced
    BY DEF FromSynced, ListeningPCs, Unlistening
  <2> QED BY <1>1, <1>2, <1>3, <2>1, RunFacts, ProgressFacts
<1>5. /\ Continues /\ run'.pc = (IF run.pc = "forgetRepos" THEN "createEntry" ELSE "deleteEntry")
      /\ run'.kinds = run.kinds
  BY <1>1, <1>4, RunContinues DEF GoTo, RunType
<1>6. UNCHANGED <<tokens, gitlab, entry, calendar, cached>>
  BY <1>1 DEF listenerVars
<1>7. SensorsProgress'
  BY <1>1, <1>2, <1>3, <1>5, NextFacts, SensorsLater DEF Sourcing, Unlistening
<1>8. CASE run.pc = "forgetRepos"
  <2>1. "forgetRepos" \in Sourcing
    BY DEF Sourcing
  <2>2. /\ Deploying /\ target.tokens # {}
        /\ target.tokens \subseteq tokens[r] /\ tokens[r] \ target.tokens \subseteq run.todo
    <3>1. At("forgetRepos") /\ run.pc \in Sourcing
      BY <1>8, <2>1 DEF At
    <3> QED BY <1>1, <1>2, <1>3, <3>1, ProgressFacts
  <2>3. tokens[r] = target.tokens
    BY <1>1, <2>2
  <2>4. ListeningProgress'
    BY <1>1, <1>2, <1>3, <1>4, <1>5, <1>6, <1>8, <2>2, <2>3, NextFacts
    DEF ListeningProgress, At, Sourcing, Unlistening, Recorded, FromHook, FromSaved
  <2> QED BY <1>1, <1>2, <1>3, <1>5, <1>7, <2>4, LocalEvents
<1>9. CASE run.pc = "unlistenRepos"
  <2>1. "unlistenRepos" \in Unlistening \ {"unlisten"} /\ run.pc \in Unlistening
    BY <1>9 DEF Unlistening
  <2>2. /\ "gitlab" \in run.kinds /\ gitlab[r].exists /\ tokens[r] = {}
        /\ r \in calendar => target.calendar \/ "calendar" \in run.kinds
    BY ZenonT(60), <1>1, <1>2, <1>3, <1>9, <2>1, ProgressFacts DEF At
  <2>3. /\ target.tokens = {} /\ run.kinds \subseteq cached[r] \ KindsOf(target)
    BY <1>2, <1>3, <2>1, <2>2, UnlisteningFacts
  <2>4. ListeningProgress'
    BY <1>1, <1>2, <1>3, <1>4, <1>5, <1>6, <1>9, <2>2, <2>3, NextFacts
    DEF ListeningProgress, At, Sourcing, Unlistening, Recorded, FromHook, FromSaved,
        FromUnlistened, Leaving, Ending
  <2> QED BY <1>1, <1>2, <1>3, <1>5, <1>7, <2>4, LocalEvents
<1> QED BY <1>1, <1>8, <1>9

\* The kinds that go are known, whatever is left of them.
LEMMA Unlistens ==
  ASSUME NEW r, NEW target, run'.rt = r, Target' = target, run'.pc = "unlisten",
         run'.kinds \subseteq cached'[r] \ KindsOf(target),
         target.tokens # {} => /\ tokens'[r] = target.tokens
                               /\ gitlab'[r] = [exists |-> TRUE, repos |-> target.tokens],
         target.tokens = {} /\ Listens(r)' => "gitlab" \in run'.kinds,
         r \in calendar' => target.calendar \/ "calendar" \in run'.kinds,
         Deploying' => run'.new.id, (Deploying <=> ~Deleting)'
  PROVE  ListeningProgress'
  BY DEF ListeningProgress, At, Sourcing, Unlistening, Recorded, FromHook, FromSaved,
         FromUnlistened, Leaving, Ending

LEMMA CreatingFacts ==
  ASSUME Inv, EventsInOrder, run.pc \in {"createEntry", "createSource", "createCalendar"},
         NEW r \in Names, r = run.rt, NEW target, target = Target
  PROVE  /\ run.pc \in Calls /\ run.pc # "idle" /\ ListenerTypeOK /\ EventsFollow(r, target)
         /\ Deploying /\ ~Deleting /\ target = run.spec /\ run.new.id /\ run \in RunType
         /\ target.calendar \in BOOLEAN
         /\ run.pc # "createCalendar" => target.tokens # {} /\ tokens[r] = target.tokens
         /\ run.pc = "createCalendar" =>
              /\ target.calendar
              /\ target.tokens # {} => /\ tokens[r] = target.tokens
                                       /\ gitlab[r] = [exists |-> TRUE, repos |-> target.tokens]
<1>1. run.pc \in Calls /\ run.pc # "idle" /\ run.pc \in FromSynced
  BY DEF Calls, PC, FromSynced, ListeningPCs
<1>2. Deploying /\ ~Deleting
  <2>1. run.pc \notin DeletePCs
    BY DEF DeletePCs, Unlistening, Leaving, Ending
  <2> QED BY <1>1, <2>1, RunFacts
<1>3. run.new.id
  BY <1>1, <1>2, ProgressFacts
<1>4. run.pc # "createCalendar" => target.tokens # {} /\ tokens[r] = target.tokens
  <2> SUFFICES ASSUME run.pc # "createCalendar"
               PROVE  target.tokens # {} /\ tokens[r] = target.tokens
    OBVIOUS
  <2>1. run.pc \in Sourcing /\ run.pc \in {"createEntry", "createSource"}
    BY DEF Sourcing
  <2> QED BY <1>1, <2>1, ProgressFacts
<1>5. run.pc = "createCalendar" =>
        /\ target.calendar
        /\ target.tokens # {} => /\ tokens[r] = target.tokens
                                 /\ gitlab[r] = [exists |-> TRUE, repos |-> target.tokens]
  <2> SUFFICES ASSUME run.pc = "createCalendar"
               PROVE  /\ target.calendar
                      /\ target.tokens # {} =>
                           /\ tokens[r] = target.tokens
                           /\ gitlab[r] = [exists |-> TRUE, repos |-> target.tokens]
    OBVIOUS
  <2>1. At("createCalendar") /\ run.pc \in {"createCalendar"} \cup Unlistening
    BY DEF At
  <2> QED BY <1>1, <2>1, ProgressFacts
<1> QED BY <1>1, <1>2, <1>3, <1>4, <1>5, RunEvents, RunFacts

LEMMA CreateEntryPointEvents ==
  ASSUME Inv, EventsInOrder, CreateEntryPoint
  PROVE  EventsInOrder'
<1>1. /\ run.pc = "createEntry" /\ run.pc # "idle"
      /\ UNCHANGED <<runtimes, late, recorded, usage, listener, tokens, gitlab, calendar, sensors,
                     cached>>
      /\ entry' = entry \cup {run.rt}
      /\ run' = Failed \/ run' = GoTo("createSource")
  BY DEF CreateEntryPoint, At, ListenRest, Answer, Me, objectVars, history, clusterVars
<1>2. PICK r \in Names : r = run.rt
  BY <1>1, RunFacts
<1>3. PICK target : target = Target
  OBVIOUS
<1>4. /\ run.pc \in Calls /\ ListenerTypeOK /\ Deploying /\ ~Deleting /\ run.new.id
      /\ target.tokens # {} /\ tokens[r] = target.tokens /\ run \in RunType
  BY <1>1, <1>2, <1>3, CreatingFacts
<1>5. \A x \in Names \ {r} : SameOf(x)
  BY <1>1, <1>2 DEF SameOf
<1>6. EventsAre(r, target) => EventsAre(r, target)'
  BY <1>1, <1>4 DEF EventsAre
<1>7. EventsFollow(r, target) => EventsFollow(r, target)'
  BY <1>1, <1>4 DEF EventsFollow
<1>8. \A q \in listener' : \/ q \in tokens'[r] \/ q \in target.tokens
                           \/ q \in listener /\ q \notin tokens[r]
  BY <1>1
<1>9. ASSUME run' # Failed PROVE Continues /\ ListeningProgress' /\ SensorsProgress'
  <2>1. Continues /\ run'.pc = "createSource"
    BY <1>1, <1>9, RunContinues
  <2>2. SensorsProgress'
    BY <1>1, <1>2, <1>3, <2>1, NextFacts, SensorsLater DEF Sourcing
  <2>3. ListeningProgress'
    BY <1>1, <1>2, <1>3, <1>4, <2>1, NextFacts
    DEF ListeningProgress, At, Sourcing, Unlistening, Recorded, FromHook, FromSaved
  <2> QED BY <2>1, <2>2, <2>3
<1> QED BY <1>1, <1>2, <1>3, <1>4, <1>5, <1>6, <1>7, <1>8, <1>9, SameSensors, ListenStep

LEMMA CreateGitlabEvents ==
  ASSUME Inv, EventsInOrder, CreateGitlab
  PROVE  EventsInOrder'
<1>1. /\ run.pc = "createSource" /\ run.pc # "idle"
      /\ UNCHANGED <<runtimes, late, recorded, usage, listener, tokens, entry, calendar, sensors,
                     cached>>
      /\ gitlab' = [gitlab EXCEPT ![run.rt] = [exists |-> TRUE, repos |-> run.spec.tokens]]
      /\ run' = Failed \/ run' = Onwards(run)
  BY DEF CreateGitlab, CreateGitlabSource, At, ListenRest, Answer, Me, objectVars, history,
         clusterVars
<1>2. PICK r \in Names : r = run.rt
  BY <1>1, RunFacts
<1>3. PICK target : target = Target
  OBVIOUS
<1>4. /\ run.pc \in Calls /\ ListenerTypeOK /\ Deploying /\ ~Deleting /\ run.new.id
      /\ target = run.spec /\ EventsFollow(r, target) /\ target.calendar \in BOOLEAN
      /\ target.tokens # {} /\ tokens[r] = target.tokens /\ run \in RunType
  BY <1>1, <1>2, <1>3, CreatingFacts
<1>5. /\ \A x \in Names \ {r} : SameOf(x)
      /\ gitlab'[r] = [exists |-> TRUE, repos |-> target.tokens]
  BY <1>1, <1>2, <1>4 DEF SameOf, ListenerTypeOK
<1>6. EventsAre(r, target) => EventsAre(r, target)'
  BY <1>1, <1>4, <1>5 DEF EventsAre
<1>7. EventsFollow(r, target) => EventsFollow(r, target)'
  BY <1>1, <1>4, <1>5 DEF EventsFollow
<1>8. \A q \in listener' : \/ q \in tokens'[r] \/ q \in target.tokens
                           \/ q \in listener /\ q \notin tokens[r]
  BY <1>1
<1>9. ASSUME run' # Failed PROVE Continues /\ ListeningProgress' /\ SensorsProgress'
  <2>1. CASE target.calendar
    <3>1. Continues /\ run'.pc = "createCalendar"
      BY <1>1, <1>4, <1>9, <2>1 DEF Onwards, RunType, Continues, SameReconcile
    <3>2. SensorsProgress'
      BY <1>1, <1>2, <1>3, <3>1, NextFacts, SensorsLater
    <3>3. ListeningProgress'
      BY <1>1, <1>2, <1>3, <1>4, <1>5, <2>1, <3>1, NextFacts
      DEF ListeningProgress, At, Sourcing, Unlistening, Recorded, FromHook, FromSaved
    <3> QED BY <3>1, <3>2, <3>3
  <2>2. CASE ~target.calendar
    <3>1. Continues /\ run'.pc = "unlisten" /\ run'.kinds = cached[r] \ KindsOf(target)
      BY <1>1, <1>2, <1>4, <1>9, <2>2
      DEF Onwards, RunType, Continues, SameReconcile, Missing, Me
    <3>2. SensorsProgress'
      BY <1>1, <1>2, <1>3, <3>1, NextFacts, SensorsLater DEF Unlistening
    <3>3. r \in calendar' => "calendar" \in run'.kinds
      BY <1>1, <1>4, <2>2, <3>1 DEF EventsFollow, KindsOf
    <3>4. ListeningProgress'
      BY <1>1, <1>2, <1>3, <1>4, <1>5, <3>1, <3>3, NextFacts, Unlistens
    <3> QED BY <3>1, <3>2, <3>4
  <2> QED BY <2>1, <2>2
<1> QED BY <1>1, <1>2, <1>3, <1>4, <1>5, <1>6, <1>7, <1>8, <1>9, SameSensors, ListenStep

LEMMA CreateCalendarEvents ==
  ASSUME Inv, EventsInOrder, CreateCalendar
  PROVE  EventsInOrder'
<1>1. /\ run.pc = "createCalendar" /\ run.pc # "idle"
      /\ UNCHANGED <<runtimes, late, recorded, usage, listener, tokens, entry, gitlab, sensors,
                     cached>>
      /\ calendar' = calendar \cup {run.rt}
      /\ run' = Failed \/ run' = [run EXCEPT !.pc = "unlisten", !.kinds = Missing]
  BY DEF CreateCalendar, At, ListenRest, Answer, Me, objectVars, history, clusterVars
<1>2. PICK r \in Names : r = run.rt
  BY <1>1, RunFacts
<1>3. PICK target : target = Target
  OBVIOUS
<1>4. /\ run.pc \in Calls /\ ListenerTypeOK /\ Deploying /\ ~Deleting /\ run.new.id
      /\ target = run.spec /\ EventsFollow(r, target) /\ target.calendar /\ run \in RunType
      /\ target.tokens # {} => /\ tokens[r] = target.tokens
                               /\ gitlab[r] = [exists |-> TRUE, repos |-> target.tokens]
  BY <1>1, <1>2, <1>3, CreatingFacts
<1>5. \A x \in Names \ {r} : SameOf(x)
  BY <1>1, <1>2 DEF SameOf
<1>6. EventsAre(r, target) => EventsAre(r, target)'
  BY <1>1, <1>4, <1>5 DEF EventsAre
<1>7. EventsFollow(r, target) => EventsFollow(r, target)'
  BY <1>1, <1>4, <1>5 DEF EventsFollow, Listens
<1>8. \A q \in listener' : \/ q \in tokens'[r] \/ q \in target.tokens
                           \/ q \in listener /\ q \notin tokens[r]
  BY <1>1
<1>9. ASSUME run' # Failed PROVE Continues /\ ListeningProgress' /\ SensorsProgress'
  <2>1. Continues /\ run'.pc = "unlisten" /\ run'.kinds = cached[r] \ KindsOf(target)
    BY <1>1, <1>2, <1>4, <1>9 DEF RunType, Continues, SameReconcile, Missing, Me
  <2>2. SensorsProgress'
    BY <1>1, <1>2, <1>3, <2>1, NextFacts, SensorsLater DEF Unlistening
  <2>3. target.tokens = {} /\ Listens(r)' => "gitlab" \in run'.kinds
    BY <1>1, <1>4, <2>1 DEF EventsFollow, Listens, KindsOf
  <2>4. ListeningProgress'
    BY <1>1, <1>2, <1>3, <1>4, <2>1, <2>3, NextFacts, Unlistens
  <2> QED BY <2>1, <2>2, <2>4
<1> QED BY <1>1, <1>2, <1>3, <1>4, <1>5, <1>6, <1>7, <1>8, <1>9, SameSensors, ListenStep

LEMMA UnlistenFacts ==
  ASSUME Inv, EventsInOrder, run.pc \in Unlistening, NEW r \in Names, r = run.rt,
         NEW target, target = Target
  PROVE  /\ run.pc \in Calls /\ run.pc # "idle" /\ ListenerTypeOK /\ EventsFollow(r, target)
         /\ (Deploying <=> ~Deleting) /\ run \in RunType
         /\ Deploying => run.new.id /\ target = run.spec
         /\ Deleting => run.old.id /\ target = NoSpec
         /\ run.kinds \subseteq cached[r] \ KindsOf(target)
         /\ target.tokens # {} => /\ tokens[r] = target.tokens
                                  /\ gitlab[r] = [exists |-> TRUE, repos |-> target.tokens]
         /\ target.tokens = {} /\ Listens(r) => "gitlab" \in run.kinds
         /\ r \in calendar => target.calendar \/ "calendar" \in run.kinds
<1>1. run.pc \in Calls /\ run.pc # "idle" /\ run.pc \in FromSynced
  BY DEF Unlistening, Calls, PC, FromSynced, ListeningPCs
<1>2. /\ run.kinds \subseteq cached[r] \ KindsOf(target)
      /\ target.tokens # {} => /\ tokens[r] = target.tokens
                               /\ gitlab[r] = [exists |-> TRUE, repos |-> target.tokens]
      /\ target.tokens = {} /\ Listens(r) => "gitlab" \in run.kinds
      /\ r \in calendar => target.calendar \/ "calendar" \in run.kinds
      /\ Deploying => run.new.id
  BY <1>1, ProgressFacts
<1> QED BY <1>1, <1>2, RunEvents, RunFacts

LEMMA UnlistenGitlabEvents ==
  ASSUME Inv, EventsInOrder, UnlistenGitlab
  PROVE  EventsInOrder'
<1>1. /\ run.pc = "unlisten" /\ run.pc \in Unlistening /\ "gitlab" \in run.kinds
      /\ UNCHANGED <<listenerVars, runtimes, late, recorded, usage>>
      /\ run' = IF gitlab[run.rt].exists THEN Do("unlistenRepos", gitlab[run.rt].repos)
                ELSE [run EXCEPT !.kinds = @ \ {"gitlab"}]
  BY DEF UnlistenGitlab, At, Unlistening, Goes, Me, objectVars, history, clusterVars
<1>0. run.pc # "idle"
  BY <1>1
<1>2. PICK r \in Names : r = run.rt
  BY <1>0, RunFacts
<1>3. PICK target : target = Target
  OBVIOUS
<1>4. /\ run.pc \in Calls /\ EventsFollow(r, target) /\ (Deploying <=> ~Deleting) /\ run \in RunType
      /\ Deploying => run.new.id
      /\ run.kinds \subseteq cached[r] \ KindsOf(target)
      /\ r \in calendar => target.calendar \/ "calendar" \in run.kinds
  BY <1>1, <1>2, <1>3, UnlistenFacts
<1>5. target.tokens = {}
  BY <1>1, <1>2, <1>3, UnlisteningFacts
<1>6. UNCHANGED <<tokens, gitlab, entry, calendar, cached>>
  BY <1>1 DEF listenerVars
<1>7. CASE gitlab[r].exists
  <2>1. run' = Do("unlistenRepos", gitlab[r].repos)
    BY <1>1, <1>2, <1>7
  <2>2. /\ Continues /\ run'.pc = "unlistenRepos" /\ run'.todo = gitlab[r].repos
        /\ run'.kinds = run.kinds
    BY ZenonT(60), <1>0, <1>4, <2>1, RunContinues DEF Do, RunType
  <2>3. SensorsProgress'
    BY <1>0, <1>2, <1>3, <2>2, NextFacts, SensorsLater DEF Unlistening
  <2>4. tokens'[r] \subseteq run'.todo
    BY <1>4, <1>5, <1>6, <2>2 DEF EventsFollow
  <2>5. ListeningProgress'
    BY <1>0, <1>1, <1>2, <1>3, <1>4, <1>5, <1>6, <1>7, <2>2, <2>4, NextFacts
    DEF ListeningProgress, At, Sourcing, Unlistening, Recorded, FromHook, FromSaved,
        FromUnlistened, Leaving, Ending
  <2> QED BY <1>1, <1>2, <1>3, <1>4, <2>2, <2>3, <2>5, LocalEvents
<1>8. CASE ~gitlab[r].exists
  <2>1. run' = [run EXCEPT !.kinds = run.kinds \ {"gitlab"}]
    BY <1>1, <1>2, <1>4, <1>8 DEF RunType
  <2>2. /\ Continues /\ run'.pc = "unlisten" /\ run'.kinds = run.kinds \ {"gitlab"}
    BY <1>1, <1>4, <2>1 DEF Continues, SameReconcile, RunType
  <2>3. SensorsProgress'
    BY <1>0, <1>2, <1>3, <2>2, NextFacts, SensorsLater DEF Unlistening
  <2>4. ~Listens(r)'
    BY <1>4, <1>5, <1>6, <1>8 DEF EventsFollow, Listens
  <2>5. ListeningProgress'
    BY <1>0, <1>2, <1>3, <1>4, <1>5, <1>6, <2>2, <2>4, NextFacts, Unlistens
  <2> QED BY <1>1, <1>2, <1>3, <1>4, <2>2, <2>3, <2>5, LocalEvents
<1> QED BY <1>7, <1>8

LEMMA DeleteEntryPointEvents ==
  ASSUME Inv, EventsInOrder, DeleteEntryPoint
  PROVE  EventsInOrder'
<1>1. /\ run.pc = "deleteEntry" /\ run.pc \in Unlistening /\ run.pc # "idle" /\ run.pc \in Calls
      /\ UNCHANGED <<runtimes, late, recorded, usage, listener, tokens, gitlab, calendar, sensors,
                     cached>>
      /\ entry' = entry \ {run.rt}
      /\ run' = Failed \/ run' = GoTo("deleteSource")
  BY DEF DeleteEntryPoint, At, Unlistening, ListenRest, Answer, Me, objectVars, history,
         clusterVars, Calls, PC
<1>2. PICK r \in Names : r = run.rt
  BY <1>1, RunFacts
<1>3. PICK target : target = Target
  OBVIOUS
<1>4. /\ EventsFollow(r, target) /\ (Deploying <=> ~Deleting) /\ run \in RunType
      /\ Deploying => run.new.id
      /\ run.kinds \subseteq cached[r] \ KindsOf(target)
      /\ r \in calendar => target.calendar \/ "calendar" \in run.kinds
  BY <1>1, <1>2, <1>3, UnlistenFacts
<1>5. "gitlab" \in run.kinds /\ gitlab[r].exists /\ tokens[r] = {}
  BY <1>1, <1>2, <1>3, ProgressFacts
<1>6. target.tokens = {} /\ ~EventsAre(r, target) /\ "gitlab" \in cached[r]
  BY <1>1, <1>2, <1>3, <1>5, UnlisteningFacts
<1>7. \A x \in Names \ {r} : SameOf(x)
  BY <1>1, <1>2 DEF SameOf
<1>8. EventsFollow(r, target) => EventsFollow(r, target)'
  BY <1>1, <1>5, <1>6 DEF EventsFollow, Listens
<1>9. \A q \in listener' : \/ q \in tokens'[r] \/ q \in target.tokens
                           \/ q \in listener /\ q \notin tokens[r]
  BY <1>1
<1>10. ASSUME run' # Failed PROVE Continues /\ ListeningProgress' /\ SensorsProgress'
  <2>1. Continues /\ run'.pc = "deleteSource" /\ run'.kinds = run.kinds
    BY <1>1, <1>4, <1>10, RunContinues DEF GoTo, RunType
  <2>2. SensorsProgress'
    BY <1>1, <1>2, <1>3, <2>1, NextFacts, SensorsLater DEF Unlistening
  <2>3. ListeningProgress'
    BY <1>1, <1>2, <1>3, <1>4, <1>5, <1>6, <2>1, NextFacts
    DEF ListeningProgress, At, Sourcing, Unlistening, Recorded, FromHook, FromSaved,
        FromUnlistened, Leaving, Ending
  <2> QED BY <2>1, <2>2, <2>3
<1> QED BY <1>1, <1>2, <1>3, <1>6, <1>7, <1>8, <1>9, <1>10, SameSensors, ListenStep

LEMMA DeleteGitlabEvents ==
  ASSUME Inv, EventsInOrder, DeleteGitlab
  PROVE  EventsInOrder'
<1>1. /\ run.pc = "deleteSource" /\ run.pc \in Unlistening /\ run.pc # "idle" /\ run.pc \in Calls
      /\ UNCHANGED <<runtimes, late, recorded, usage, listener, tokens, entry, calendar, sensors,
                     cached>>
      /\ gitlab' = [gitlab EXCEPT ![run.rt] = NoSource]
      /\ run' = Failed \/ run' = [run EXCEPT !.pc = "unlisten", !.kinds = @ \ {"gitlab"}]
  BY DEF DeleteGitlab, DeleteGitlabSource, At, Unlistening, ListenRest, Answer, Me, objectVars,
         history, clusterVars, Calls, PC
<1>2. PICK r \in Names : r = run.rt
  BY <1>1, RunFacts
<1>3. PICK target : target = Target
  OBVIOUS
<1>4. /\ EventsFollow(r, target) /\ (Deploying <=> ~Deleting) /\ run \in RunType
      /\ Deploying => run.new.id
      /\ run.kinds \subseteq cached[r] \ KindsOf(target) /\ ListenerTypeOK
      /\ r \in calendar => target.calendar \/ "calendar" \in run.kinds
  BY <1>1, <1>2, <1>3, UnlistenFacts
<1>5. "gitlab" \in run.kinds /\ tokens[r] = {} /\ r \notin entry
  BY <1>1, <1>2, <1>3, ProgressFacts DEF At
<1>6. target.tokens = {} /\ ~EventsAre(r, target)
  BY <1>1, <1>2, <1>3, <1>5, UnlisteningFacts
<1>7. (\A x \in Names \ {r} : SameOf(x)) /\ gitlab'[r] = NoSource
  BY <1>1, <1>2, <1>4 DEF SameOf, ListenerTypeOK
<1>8. ~Listens(r)'
  BY <1>1, <1>5, <1>7 DEF Listens, NoSource
<1>9. EventsFollow(r, target) => EventsFollow(r, target)'
  BY <1>1, <1>5, <1>7, <1>8 DEF EventsFollow, NoSource
<1>10. \A q \in listener' : \/ q \in tokens'[r] \/ q \in target.tokens
                            \/ q \in listener /\ q \notin tokens[r]
  BY <1>1
<1>11. ASSUME run' # Failed PROVE Continues /\ ListeningProgress' /\ SensorsProgress'
  <2>1. Continues /\ run'.pc = "unlisten" /\ run'.kinds = run.kinds \ {"gitlab"}
    BY <1>1, <1>4, <1>11 DEF Continues, SameReconcile, RunType
  <2>2. SensorsProgress'
    BY <1>1, <1>2, <1>3, <2>1, NextFacts, SensorsLater DEF Unlistening
  <2>3. ListeningProgress'
    BY <1>1, <1>2, <1>3, <1>4, <1>6, <1>8, <2>1, NextFacts, Unlistens
  <2> QED BY <2>1, <2>2, <2>3
<1> QED BY <1>1, <1>2, <1>3, <1>6, <1>7, <1>9, <1>10, <1>11, SameSensors, ListenStep

LEMMA DeleteCalendarEvents ==
  ASSUME Inv, EventsInOrder, DeleteCalendar
  PROVE  EventsInOrder'
<1>1. /\ run.pc = "unlisten" /\ run.pc \in Unlistening /\ run.pc # "idle" /\ run.pc \in Calls
      /\ "calendar" \in run.kinds
      /\ UNCHANGED <<runtimes, late, recorded, usage, listener, tokens, entry, gitlab, sensors,
                     cached>>
      /\ calendar' = calendar \ {run.rt} \/ (calendar' = calendar /\ run' = Failed)
      /\ run' = Failed \/ run' = [run EXCEPT !.kinds = @ \ {"calendar"}]
  BY DEF DeleteCalendar, At, Unlistening, Refuse, Answer, Me, objectVars, history, listenerVars,
         clusterVars, Calls, PC
<1>2. PICK r \in Names : r = run.rt
  BY <1>1, RunFacts
<1>3. PICK target : target = Target
  OBVIOUS
<1>4. /\ EventsFollow(r, target) /\ (Deploying <=> ~Deleting) /\ run \in RunType
      /\ Deploying => run.new.id
      /\ run.kinds \subseteq cached[r] \ KindsOf(target) /\ ListenerTypeOK
      /\ target.tokens # {} => /\ tokens[r] = target.tokens
                               /\ gitlab[r] = [exists |-> TRUE, repos |-> target.tokens]
      /\ target.tokens = {} /\ Listens(r) => "gitlab" \in run.kinds
  BY <1>1, <1>2, <1>3, UnlistenFacts
<1>5. ~EventsAre(r, target)
  BY <1>1, <1>2, <1>3, UnlisteningFacts
<1>6. \A x \in Names \ {r} : SameOf(x)
  BY <1>1, <1>2 DEF SameOf
<1>7. EventsFollow(r, target) => EventsFollow(r, target)'
  BY <1>1, <1>2 DEF EventsFollow, Listens
<1>8. \A q \in listener' : \/ q \in tokens'[r] \/ q \in target.tokens
                           \/ q \in listener /\ q \notin tokens[r]
  BY <1>1
<1>9. ASSUME run' # Failed PROVE Continues /\ ListeningProgress' /\ SensorsProgress'
  <2>1. /\ Continues /\ run'.pc = "unlisten" /\ run'.kinds = run.kinds \ {"calendar"}
        /\ r \notin calendar'
    BY <1>1, <1>2, <1>4, <1>9 DEF Continues, SameReconcile, RunType
  <2>2. SensorsProgress'
    BY <1>1, <1>2, <1>3, <2>1, NextFacts, SensorsLater DEF Unlistening
  <2>3. target.tokens = {} /\ Listens(r)' => "gitlab" \in run'.kinds
    BY <1>1, <1>4, <2>1 DEF Listens
  <2>4. ListeningProgress'
    BY <1>1, <1>2, <1>3, <1>4, <2>1, <2>3, NextFacts, Unlistens
  <2> QED BY <2>1, <2>2, <2>4
<1> QED BY <1>1, <1>2, <1>3, <1>5, <1>6, <1>7, <1>8, <1>9, SameSensors, ListenStep

LEMMA RecordKindsEvents ==
  ASSUME Inv, EventsInOrder, RecordKinds
  PROVE  EventsInOrder'
<1>1. /\ run.pc = "unlisten" /\ run.pc \in Unlistening /\ run.pc # "idle" /\ run.pc \in Calls
      /\ run.kinds = {}
      /\ UNCHANGED <<runtimes, late, recorded, usage, listener, tokens, entry, gitlab, calendar,
                     sensors>>
      /\ cached' = [cached EXCEPT ![run.rt] = IF Deploying THEN KindsOf(run.spec)
                                              ELSE IF run.old.id THEN {} ELSE @]
      /\ run' = Failed \/ run' = GoTo(IF Deploying THEN "createHook" ELSE "deleteSensors")
  BY DEF RecordKinds, At, Unlistening, ListenRest, Answer, Me, objectVars, history, clusterVars,
         Calls, PC
<1>2. PICK r \in Names : r = run.rt
  BY <1>1, RunFacts
<1>3. PICK target : target = Target
  OBVIOUS
<1>4. /\ EventsFollow(r, target) /\ (Deploying <=> ~Deleting) /\ run \in RunType
      /\ Deploying => run.new.id /\ target = run.spec
      /\ Deleting => run.old.id /\ target = NoSpec
      /\ ListenerTypeOK
      /\ target.tokens # {} => /\ tokens[r] = target.tokens
                               /\ gitlab[r] = [exists |-> TRUE, repos |-> target.tokens]
      /\ target.tokens = {} /\ Listens(r) => "gitlab" \in run.kinds
      /\ r \in calendar => target.calendar \/ "calendar" \in run.kinds
  BY <1>1, <1>2, <1>3, UnlistenFacts
<1>5. (\A x \in Names \ {r} : SameOf(x)) /\ cached'[r] = KindsOf(target)
  BY <1>1, <1>2, <1>4, NoSpecFacts DEF SameOf, ListenerTypeOK
<1>6. gitlab[r] \in [exists : BOOLEAN, repos : SUBSET Repos]
  BY <1>4 DEF ListenerTypeOK
<1>7. target.tokens = {} => gitlab[r] = NoSource /\ tokens[r] = {} /\ r \notin entry
  BY <1>1, <1>4, <1>6 DEF EventsFollow, Listens, NoSource
<1>8. EventsAre(r, target)'
  BY <1>1, <1>4, <1>5, <1>7 DEF EventsAre
<1>9. EventsFollow(r, target)'
  BY <1>8 DEF EventsAre, EventsFollow, KindsOf, Listens, NoSource
<1>10. \A q \in listener' : \/ q \in tokens'[r] \/ q \in target.tokens
                            \/ q \in listener /\ q \notin tokens[r]
  BY <1>1
<1>11. ASSUME run' # Failed PROVE Continues /\ ListeningProgress' /\ SensorsProgress'
  <2>1. Continues /\ run'.pc = IF Deploying THEN "createHook" ELSE "deleteSensors"
    BY <1>1, <1>11, RunContinues
  <2>2. SensorsProgress'
    BY <1>1, <1>2, <1>3, <2>1, NextFacts, SensorsLater
  <2>3. ListeningProgress'
    BY <1>1, <1>2, <1>3, <1>4, <1>8, <2>1, NextFacts
    DEF ListeningProgress, At, Sourcing, Unlistening
  <2> QED BY <2>1, <2>2, <2>3
<1> QED BY <1>1, <1>2, <1>3, <1>5, <1>8, <1>9, <1>10, <1>11, SameSensors, ListenStep

LEMMA PermissionsSyncedEvents ==
  ASSUME Inv, EventsInOrder, PermissionsSynced
  PROVE  EventsInOrder'
<1> DEFINE synced == [run EXCEPT !.new.perms = Perms(run.spec), !.new.account = run.spec.account]
           named == [synced EXCEPT !.new.id = TRUE]
           m == [run.new EXCEPT !.perms = Perms(run.spec), !.account = run.spec.account]
           n == [m EXCEPT !.id = TRUE]
<1>1. /\ run.pc = "revoke" /\ run.pc # "idle"
      /\ UNCHANGED <<listenerVars, runtimes, late, recorded, usage>>
      /\ run' = CASE ~(run.spec.tokens \subseteq run.repos) -> [Failed EXCEPT !.new = synced.new]
                  [] run.spec.tokens = {} -> Onwards(named)
                  [] OTHER -> [named EXCEPT !.pc = "listen", !.todo = run.spec.tokens]
  BY DEF PermissionsSynced, At, Goes, objectVars, history, clusterVars
<1>2. PICK r \in Names : r = run.rt
  BY <1>1, RunFacts
<1>3. PICK target : target = Target
  OBVIOUS
<1>4. /\ Deploying /\ ~Deleting /\ run \in RunType /\ run.new \in Cache /\ target = run.spec
      /\ EventsFollow(r, target) /\ ~run.failed /\ target.calendar \in BOOLEAN
      /\ run.old.id => run.new.id
  <2>1. run.pc \notin DeletePCs /\ run.pc \in Calls
    BY <1>1 DEF DeletePCs, Unlistening, Leaving, Ending, Calls, PC
  <2>2. run.old.id => run.new.id
    BY <1>2 DEF EventsInOrder, RunIsCalm
  <2> QED BY <1>1, <1>2, <1>3, <2>1, <2>2, RunEvents, RunFacts
<1>5. /\ synced = [run EXCEPT !.new = m] /\ synced.new = m /\ named = [run EXCEPT !.new = n]
      /\ m.id = run.new.id /\ n.id = TRUE
  BY <1>4 DEF RunType, Cache
<1> HIDE DEF synced, m, n
<1>6. \/ run' = [Failed EXCEPT !.new = m]
      \/ target.tokens = {} /\ run' = Onwards(named)
      \/ target.tokens # {} /\ run' = [named EXCEPT !.pc = "listen", !.todo = run.spec.tokens]
  BY <1>1, <1>4, <1>5
<1> HIDE DEF named
<1>7. UNCHANGED <<tokens, gitlab, entry, calendar, cached>>
  BY <1>1 DEF listenerVars
<1>8. CASE run' = [Failed EXCEPT !.new = m]
  <2>1. /\ SameReconcile /\ run'.failed /\ run'.pc \in FromSaved /\ run'.new.id = run.new.id
    BY <1>4, <1>5, <1>8, FailedFacts DEF SameReconcile, RunType, FromSaved
  <2> QED BY <1>1, <1>4, <2>1, QuietStep
<1>9. CASE target.tokens = {} /\ run' = Onwards(named) /\ target.calendar
  <2>1. run' = [run EXCEPT !.new = n, !.pc = "createCalendar"]
    BY <1>4, <1>5, <1>9 DEF Onwards, RunType
  <2>2. /\ SameReconcile /\ ~run'.failed /\ run'.new.id /\ run'.pc = "createCalendar"
    BY <1>4, <1>5, <2>1 DEF SameReconcile, RunType
  <2>3. run'.rt = r /\ Target' = target /\ Deploying' /\ (Deploying <=> ~Deleting)'
    BY <1>2, <1>3, <1>4, <2>2 DEF SameReconcile, Target, Deploying, Deleting
  <2>4. SensorsProgress'
    BY <2>2, <2>3, SensorsLater
  <2>5. ListeningProgress'
    BY <1>9, <2>2, <2>3 DEF ListeningProgress, At, Sourcing, Unlistening, Recorded, FromHook, FromSaved
  <2> QED BY <1>1, <2>2, <2>4, <2>5, QuietStep
<1>10. CASE target.tokens = {} /\ run' = Onwards(named) /\ ~target.calendar
  <2>1. run' = [run EXCEPT !.new = n, !.pc = "unlisten", !.kinds = Missing]
    BY <1>4, <1>5, <1>10 DEF Onwards, RunType
  <2>2. /\ SameReconcile /\ ~run'.failed /\ run'.new.id /\ run'.pc = "unlisten"
        /\ run'.kinds = cached[r] \ KindsOf(target)
    BY <1>2, <1>4, <1>5, <2>1 DEF SameReconcile, RunType, Missing, Me
  <2>3. run'.rt = r /\ Target' = target /\ Deploying' /\ (Deploying <=> ~Deleting)'
    BY <1>2, <1>3, <1>4, <2>2 DEF SameReconcile, Target, Deploying, Deleting
  <2>4. SensorsProgress'
    BY <2>2, <2>3, SensorsLater DEF Unlistening
  <2>5. /\ Listens(r)' => "gitlab" \in run'.kinds
        /\ r \in calendar' => "calendar" \in run'.kinds
    BY <1>4, <1>7, <1>10, <2>2 DEF EventsFollow, Listens, KindsOf
  <2>6. ListeningProgress'
    BY <1>7, <1>10, <2>2, <2>3, <2>5, Unlistens
  <2> QED BY <1>1, <2>2, <2>4, <2>6, QuietStep
<1>11. CASE target.tokens # {} /\ run' = [named EXCEPT !.pc = "listen", !.todo = run.spec.tokens]
  <2>1. run' = [run EXCEPT !.new = n, !.pc = "listen", !.todo = run.spec.tokens]
    BY <1>4, <1>5, <1>11 DEF RunType
  <2>2. /\ SameReconcile /\ ~run'.failed /\ run'.new.id /\ run'.pc = "listen"
        /\ run'.todo = target.tokens
    BY <1>4, <1>5, <2>1 DEF SameReconcile, RunType
  <2>3. run'.rt = r /\ Target' = target /\ Deploying' /\ (Deploying <=> ~Deleting)'
    BY <1>2, <1>3, <1>4, <2>2 DEF SameReconcile, Target, Deploying, Deleting
  <2>4. SensorsProgress'
    BY <2>2, <2>3, SensorsLater DEF Sourcing
  <2>5. ListeningProgress'
    BY <1>11, <2>2, <2>3 DEF ListeningProgress, At, Sourcing, Unlistening, Recorded, FromHook, FromSaved
  <2> QED BY <1>1, <2>2, <2>4, <2>5, QuietStep
<1> QED BY <1>4, <1>6, <1>8, <1>9, <1>10, <1>11

\* Sensors numbered without a gap are as many as their numbers; with a gap after
\* those wanted, the first number after them counts as surplus.
LEMMA SurplusFacts ==
  ASSUME ListenerTypeOK, NEW r \in Names, NEW n \in 0..MaxTriggers
  PROVE  /\ \A m \in 0..MaxTriggers : sensors[r] = 0..m - 1 => SurplusSensors(r, n) = n..m - 1
         /\ HasGap(sensors[r], n) => n \in SurplusSensors(r, n)
         /\ \A i \in SurplusSensors(r, n) : i \in Int /\ i >= n
<1>1. MaxTriggers \in Nat /\ n \in Nat /\ sensors[r] \subseteq 0..MaxTriggers - 1
  BY ListenerAssumption DEF ListenerTypeOK
<1>2. ASSUME NEW m \in Nat
      PROVE  IsFiniteSet(0..m - 1) /\ Cardinality(0..m - 1) = m
  <2>1. 0 \in Int /\ m - 1 \in Int
    OBVIOUS
  <2>2. /\ IsFiniteSet(0..m - 1)
        /\ Cardinality(0..m - 1) = IF 0 > m - 1 THEN 0 ELSE m - 1 - 0 + 1
    BY <2>1, FS_Interval
  <2> QED BY <2>2
<1>3. \A m \in 0..MaxTriggers : sensors[r] = 0..m - 1 => SurplusSensors(r, n) = n..m - 1
  <2> SUFFICES ASSUME NEW m \in 0..MaxTriggers, sensors[r] = 0..m - 1
               PROVE  SurplusSensors(r, n) = n..m - 1
    OBVIOUS
  <2>1. m \in Nat
    BY <1>1
  <2> QED BY <1>2, <2>1 DEF SurplusSensors
<1>4. IsFiniteSet(sensors[r]) /\ Cardinality(sensors[r]) \in Nat
  BY <1>1, <1>2, FS_Subset, FS_CardinalityType
<1>5. HasGap(sensors[r], n) => n \in SurplusSensors(r, n)
  <2> SUFFICES ASSUME HasGap(sensors[r], n) PROVE n \in SurplusSensors(r, n)
    OBVIOUS
  <2>1. 0..n - 1 \subseteq sensors[r] /\ sensors[r] # 0..n - 1
    BY DEF HasGap
  <2>2. Cardinality(0..n - 1) <= Cardinality(sensors[r])
        /\ Cardinality(0..n - 1) # Cardinality(sensors[r])
    BY <1>4, <2>1, FS_Subset
  <2>3. Cardinality(0..n - 1) = n
    BY <1>1, <1>2
  <2> QED BY <1>1, <1>4, <2>2, <2>3 DEF SurplusSensors
<1>6. \A i \in SurplusSensors(r, n) : i \in Int /\ i >= n
  BY <1>1, <1>4 DEF SurplusSensors
<1> QED BY <1>3, <1>5, <1>6

\* Up to where the steps below have come, and what they leave alone.
LEMMA SensorStepFacts ==
  ASSUME Inv, EventsInOrder, run.pc \in {"createSensors", "surplusSensors", "deleteSensors"},
         NEW r \in Names, r = run.rt, NEW target, target = Target
  PROVE  /\ run.pc \in Calls /\ run.pc # "idle" /\ ListenerTypeOK /\ run \in RunType
         /\ (Deploying <=> ~Deleting) /\ ~run.failed
         /\ run.pc = "deleteSensors" <=> Deleting
         /\ Deploying => target = run.spec /\ run.new.id /\ SensorsFollow(r, target)
         /\ Deleting => target = NoSpec
         /\ target.triggers \in 0..MaxTriggers
         /\ EventsAre(r, target)
         /\ run.pc = "surplusSensors" =>
              LET S == sensors[r]
                  n == target.triggers
              IN  /\ \A i \in run.surplus : i >= n
                  /\ S = (0..n - 1) \cup run.surplus \/ (HasGap(S, n) /\ n \in run.surplus)
<1>1. run.pc \in Calls /\ run.pc # "idle"
  BY DEF Calls, PC
<1>2. /\ (Deploying <=> ~Deleting) /\ run \in RunType
      /\ Deploying => run.pc \in DeployPCs
      /\ Deleting => run.pc \in DeletePCs
  BY <1>1, RunFacts
<1>3. run.pc = "deleteSensors" <=> Deleting
  BY <1>2 DEF DeletePCs, DeployPCs, FromValidated, FromUsage, FromProduct, FromProject, FromSpace,
         FromAccount, FromUser, FromRole, FromGranted, FromSynced, FromSaved, ListeningPCs,
         Unlistening, Leaving, Ending
<1>4. Recorded
  BY <1>2, <1>3 DEF Recorded, FromHook, FromUnlistened
<1>5. Deploying => run.pc \in FromSynced
  BY <1>2, <1>3 DEF FromSynced, ListeningPCs
<1>6. /\ ListenerTypeOK /\ ~run.failed
      /\ Deploying => target = run.spec /\ SensorsFollow(r, target)
      /\ Deleting => target = NoSpec
      /\ target.triggers \in 0..MaxTriggers
  BY <1>1, RunEvents
<1>7. EventsAre(r, target) /\ (Deploying => run.new.id)
  BY <1>1, <1>4, <1>5, ProgressFacts
<1>8. run.pc = "surplusSensors" =>
        LET S == sensors[r]
            n == target.triggers
        IN  /\ \A i \in run.surplus : i >= n
            /\ S = (0..n - 1) \cup run.surplus \/ (HasGap(S, n) /\ n \in run.surplus)
  BY <1>6 DEF EventsInOrder, SensorsProgress, At
<1> QED BY <1>1, <1>2, <1>3, <1>6, <1>7, <1>8

\* Nothing but the sensors of r is touched, and r goes on where its events are recorded.
LEMMA SensorStep ==
  ASSUME Inv, EventsInOrder, run.pc \in {"createSensors", "surplusSensors", "deleteSensors"},
         NEW r \in Names, r = run.rt, NEW target, target = Target,
         UNCHANGED <<listener, tokens, entry, gitlab, calendar, cached, runtimes, late, recorded, usage>>,
         \A x \in Names \ {r} : sensors'[x] = sensors[x],
         SensorsAre(r, target) => SensorsAre(r, target)',
         SensorsFollow(r, target) => SensorsFollow(r, target)',
         \/ run' = Failed
         \/ /\ Continues /\ SensorsProgress'
            /\ run'.pc \in {"surplusSensors", "removeHook", "app"}
  PROVE  EventsInOrder'
<1>1. /\ run.pc \in Calls /\ run.pc # "idle" /\ EventsAre(r, target)
      /\ Deploying => run.new.id
  BY SensorStepFacts
<1>2. /\ \A x \in Names \ {r} : SameOf(x)
      /\ \A p \in listener' : \/ p \in tokens'[r] \/ p \in target.tokens
                              \/ p \in listener /\ p \notin tokens[r]
  BY DEF SameOf
<1>3. /\ EventsAre(r, target)'
      /\ EventsFollow(r, target) => EventsFollow(r, target)'
  BY <1>1 DEF EventsAre, EventsFollow, Listens
<1>4. ASSUME run' # Failed PROVE ListeningProgress'
  <2>1. Continues /\ run'.pc \in {"surplusSensors", "removeHook", "app"}
    BY <1>4
  <2>2. /\ run'.rt = r /\ Target' = target /\ Deploying' = Deploying
        /\ run'.new.id = run.new.id
    BY <1>1, <2>1, NextFacts
  <2> QED BY <1>1, <1>3, <2>1, <2>2 DEF ListeningProgress, At, Sourcing, Unlistening
<1> QED BY <1>1, <1>2, <1>3, <1>4, ListenStep

LEMMA CreateSensorsEvents ==
  ASSUME Inv, EventsInOrder, CreateSensorsOf
  PROVE  EventsInOrder'
<1>1. run.pc = "createSensors" /\ run.pc # "idle"
  BY DEF CreateSensorsOf, At
<1>2. PICK r \in Names : r = run.rt
  BY <1>1, RunFacts
<1>3. PICK target : target = Target
  OBVIOUS
<1> DEFINE n == target.triggers
           surplus == SurplusSensors(r, n)
<1>4. /\ ListenerTypeOK /\ run \in RunType /\ Deploying /\ (Deploying <=> ~Deleting)
      /\ target = run.spec /\ n \in 0..MaxTriggers /\ SensorsFollow(r, target)
  BY <1>1, <1>2, <1>3, SensorStepFacts
<1>5. /\ UNCHANGED <<listener, tokens, entry, gitlab, calendar, cached, runtimes, late, recorded, usage>>
      /\ \E k \in 0..n :
           /\ CreateSensors(r, k)
           /\ run' = Failed \/ (k = n /\ run' = [run EXCEPT !.pc = "surplusSensors", !.surplus = surplus])
  <2>1. n \in Nat
    BY <1>4, ListenerAssumption
  <2> QED BY <1>2, <1>4, <2>1
      DEF CreateSensorsOf, SensorRest, ListenRest, Answer, Me, objectVars, history, clusterVars
<1>6. PICK k \in 0..n :
        /\ CreateSensors(r, k)
        /\ run' = Failed \/ (k = n /\ run' = [run EXCEPT !.pc = "surplusSensors", !.surplus = surplus])
  BY <1>5
<1>7. /\ \A x \in Names \ {r} : sensors'[x] = sensors[x]
      /\ sensors'[r] = sensors[r] \cup (0..k - 1)
  BY <1>4, <1>6 DEF CreateSensors, ListenerTypeOK
<1>8. /\ n \in Nat /\ k \in Nat /\ k <= n /\ n <= MaxTriggers /\ MaxTriggers \in Nat
      /\ 0..k - 1 \subseteq 0..n - 1
  BY <1>4, ListenerAssumption
<1>9. SensorsAre(r, target) => SensorsAre(r, target)'
  BY <1>7, <1>8 DEF SensorsAre
<1>10. HasGap(sensors[r], n) => sensors'[r] = sensors[r]
  BY <1>7, <1>8 DEF HasGap
<1>11. SensorsFollow(r, target) => SensorsFollow(r, target)'
  <2>1. CASE HasGap(sensors[r], n)
    BY <1>10, <2>1 DEF SensorsFollow
  <2>2. CASE IsInterval(sensors[r])
    <3>1. PICK m \in 0..MaxTriggers : sensors[r] = 0..m - 1
      BY <2>2 DEF IsInterval
    <3>2. sensors'[r] = IF k <= m THEN 0..m - 1 ELSE 0..k - 1
      BY <1>7, <1>8, <3>1
    <3> QED BY <1>8, <3>1, <3>2 DEF SensorsFollow, IsInterval
  <2> QED BY <2>1, <2>2 DEF SensorsFollow
<1>12. ASSUME run' # Failed
       PROVE  Continues /\ SensorsProgress' /\ run'.pc = "surplusSensors"
  <2>1. k = n /\ run' = [run EXCEPT !.pc = "surplusSensors", !.surplus = surplus]
    BY <1>6, <1>12
  <2> HIDE DEF surplus
  <2>2. Continues /\ run'.pc = "surplusSensors" /\ run'.surplus = surplus
    BY <1>4, <2>1 DEF Continues, SameReconcile, RunType
  <2>3. \A i \in surplus : i >= n
    BY <1>4, SurplusFacts DEF surplus
  <2>4. sensors'[r] = (0..n - 1) \cup surplus \/ (HasGap(sensors'[r], n) /\ n \in surplus)
    <3>1. CASE HasGap(sensors[r], n)
      BY <1>4, <1>10, <3>1, SurplusFacts DEF surplus
    <3>2. CASE IsInterval(sensors[r])
      <4>1. PICK m \in 0..MaxTriggers : sensors[r] = 0..m - 1
        BY <3>2 DEF IsInterval
      <4>2. surplus = n..m - 1
        BY <1>4, <4>1, SurplusFacts DEF surplus
      <4>3. m \in Nat
        BY <1>8
      <4>4. sensors'[r] = (0..m - 1) \cup (0..n - 1)
        BY <1>7, <2>1, <4>1
      <4> QED BY <1>8, <4>2, <4>3, <4>4
    <3> QED BY <1>4, <3>1, <3>2 DEF SensorsFollow
  <2>5. SensorsProgress'
    BY <1>1, <1>2, <1>3, <2>2, <2>3, <2>4, NextFacts DEF SensorsProgress, At
  <2> QED BY <2>2, <2>5
<1> QED BY <1>1, <1>2, <1>3, <1>5, <1>7, <1>9, <1>11, <1>12, SensorStep

LEMMA DeleteSurplusEvents ==
  ASSUME Inv, EventsInOrder, NEW i \in 0..MaxTriggers - 1, DeleteSurplus(i)
  PROVE  EventsInOrder'
<1>1. /\ run.pc = "surplusSensors" /\ run.pc # "idle"
      /\ i \in run.surplus /\ \A j \in run.surplus : i <= j
      /\ UNCHANGED <<runtimes, late, recorded, usage>>
      /\ \/ UNCHANGED listenerVars /\ run' = Failed
         \/ /\ i \in sensors[run.rt] /\ DeleteSensor(run.rt, i)
            /\ UNCHANGED <<listener, tokens, entry, gitlab, calendar, cached>>
            /\ run' = Failed \/ run' = [run EXCEPT !.surplus = @ \ {i}]
  BY DEF DeleteSurplus, CanDeleteSensor, At, Refuse, Answer, Me, objectVars, history, clusterVars
<1>2. PICK r \in Names : r = run.rt
  BY <1>1, RunFacts
<1>3. PICK target : target = Target
  OBVIOUS
<1> DEFINE n == target.triggers
           S == sensors[r]
           T == run.surplus \ {i}
<1>4. /\ ListenerTypeOK /\ run \in RunType /\ Deploying /\ (Deploying <=> ~Deleting)
      /\ n \in 0..MaxTriggers /\ ~run.failed /\ run.pc \in Calls
      /\ \A j \in run.surplus : j >= n
      /\ S = (0..n - 1) \cup run.surplus \/ (HasGap(S, n) /\ n \in run.surplus)
  BY <1>1, <1>2, <1>3, SensorStepFacts
<1>5. CASE UNCHANGED listenerVars /\ run' = Failed
  BY <1>1, <1>2, <1>3, <1>4, <1>5, LocalEvents
<1>6. CASE /\ i \in sensors[run.rt] /\ DeleteSensor(run.rt, i)
           /\ UNCHANGED <<listener, tokens, entry, gitlab, calendar, cached>>
           /\ run' = Failed \/ run' = [run EXCEPT !.surplus = @ \ {i}]
  <2>1. /\ \A x \in Names \ {r} : sensors'[x] = sensors[x]
        /\ sensors'[r] = S \ {i} /\ i \in S
    BY <1>2, <1>4, <1>6 DEF DeleteSensor, ListenerTypeOK
  <2>2. /\ n \in Nat /\ i \in Nat /\ i >= n /\ n <= MaxTriggers /\ MaxTriggers \in Nat
        /\ run.surplus \subseteq Int
    <3>1. run.surplus \subseteq 0..MaxTriggers - 1
      BY <1>4 DEF RunType
    <3> QED BY <1>1, <1>4, <3>1, ListenerAssumption
  <2>3. S = (0..n - 1) \cup run.surplus
    <3>1. HasGap(S, n) /\ n \in run.surplus => i = n
      BY <1>1, <2>2
    <3> QED BY <1>4, <2>1, <3>1 DEF HasGap
  <2>4. n \notin T
    BY <1>1, <1>4, <2>2
  <2>5. sensors'[r] = (0..n - 1) \cup T
    BY <2>1, <2>2, <2>3
  <2>6. SensorsAre(r, target) => SensorsAre(r, target)'
    BY <2>1, <2>2 DEF SensorsAre
  <2>7. SensorsFollow(r, target)'
    <3>1. CASE T = {}
      <4>1. sensors'[r] = 0..n - 1
        BY <2>5, <3>1
      <4> QED BY <1>4, <4>1 DEF SensorsFollow, IsInterval
    <3>2. CASE T # {}
      <4>1. PICK j \in T : TRUE
        BY <3>2
      <4>2. j >= n /\ j \in Int
        BY <1>4, <2>2, <4>1
      <4>3. j \notin 0..n - 1 /\ n \notin 0..n - 1
        BY <2>2, <4>2
      <4>4. HasGap(sensors'[r], n)
        BY <2>4, <2>5, <4>1, <4>3 DEF HasGap
      <4> QED BY <4>4 DEF SensorsFollow
    <3> QED BY <3>1, <3>2
  <2>8. ASSUME run' # Failed
        PROVE  Continues /\ SensorsProgress' /\ run'.pc = "surplusSensors"
    <3>1. Continues /\ run'.pc = "surplusSensors" /\ run'.surplus = T
      BY <1>1, <1>4, <1>6, <2>8 DEF Continues, SameReconcile, RunType
    <3>2. \A j \in T : j >= n
      BY <1>4
    <3>3. SensorsProgress'
      BY <1>1, <1>2, <1>3, <2>5, <3>1, <3>2, NextFacts DEF SensorsProgress, At
    <3> QED BY <3>1, <3>3
  <2> QED BY <1>1, <1>2, <1>3, <1>6, <2>1, <2>6, <2>7, <2>8, SensorStep
<1> QED BY <1>1, <1>5, <1>6

LEMMA SensorsSyncedEvents ==
  ASSUME Inv, EventsInOrder, SensorsSynced \/ DeleteAllSensors
  PROVE  EventsInOrder'
<1>1. /\ run.pc \in {"surplusSensors", "deleteSensors"} /\ run.pc # "idle"
      /\ UNCHANGED <<listener, tokens, entry, gitlab, calendar, cached, runtimes, late, recorded, usage>>
  BY DEF SensorsSynced, DeleteAllSensors, At, Goes, SensorRest, ListenRest, listenerVars, objectVars,
         history, clusterVars
<1>2. PICK r \in Names : r = run.rt
  BY <1>1, RunFacts
<1>3. PICK target : target = Target
  OBVIOUS
<1>4. /\ ListenerTypeOK /\ (Deploying <=> ~Deleting) /\ target.triggers \in 0..MaxTriggers
      /\ run.pc = "deleteSensors" <=> Deleting
      /\ Deleting => target = NoSpec
      /\ run.pc = "surplusSensors" =>
              LET S == sensors[r]
                  n == target.triggers
              IN  S = (0..n - 1) \cup run.surplus \/ (HasGap(S, n) /\ n \in run.surplus)
  BY <1>1, <1>2, <1>3, SensorStepFacts
<1>5. CASE SensorsSynced
  <2>1. /\ run.pc = "surplusSensors" /\ run.surplus = {} /\ run' = GoTo("app")
        /\ sensors' = sensors
    BY <1>5 DEF SensorsSynced, At, Goes, listenerVars
  <2>2. SensorsAre(r, target)'
    BY <1>4, <2>1 DEF SensorsAre
  <2>3. Continues /\ run'.pc = "app"
    BY <1>1, <2>1, RunContinues
  <2>4. SensorsProgress'
    BY <1>1, <1>2, <1>3, <2>2, <2>3, NextFacts DEF SensorsProgress, At
  <2> QED BY <1>1, <1>2, <1>3, <2>1, <2>2, <2>3, <2>4, SameSensors, SensorStep
<1>6. CASE DeleteAllSensors
  <2>1. /\ run.pc = "deleteSensors" /\ sensors' = [sensors EXCEPT ![r] = {}]
        /\ run' = Failed \/ run' = GoTo("removeHook")
    BY <1>2, <1>6 DEF DeleteAllSensors, DeleteSensors, At, Answer, Me
  <2>2. /\ \A x \in Names \ {r} : sensors'[x] = sensors[x]
        /\ sensors'[r] = {} /\ target.triggers = 0
    BY <1>4, <2>1, NoSpecFacts DEF ListenerTypeOK
  <2>3. SensorsAre(r, target)'
    BY <2>2 DEF SensorsAre
  <2>4. SensorsFollow(r, target)'
    <3>1. 0 \in 0..MaxTriggers /\ sensors'[r] = 0..0 - 1
      BY <2>2, ListenerAssumption
    <3> QED BY <3>1 DEF SensorsFollow, IsInterval
  <2>5. ASSUME run' # Failed
        PROVE  Continues /\ SensorsProgress' /\ run'.pc = "removeHook"
    <3>1. Continues /\ run'.pc = "removeHook"
      BY <1>1, <2>1, <2>5, RunContinues
    <3>2. SensorsProgress'
      BY <1>1, <1>2, <1>3, <2>3, <3>1, NextFacts DEF SensorsProgress, At
    <3> QED BY <3>1, <3>2
  <2> QED BY <1>1, <1>2, <1>3, <2>1, <2>2, <2>3, <2>4, <2>5, SensorStep
<1> QED BY <1>5, <1>6

-----------------------------------------------------------------------------
(* The objects: users, and the steps around the calls.                      *)

\* No reconcile is in progress.
LEMMA IdleProgress ==
  ASSUME run'.rt \notin Names
  PROVE  RunIsCalm' /\ ListeningProgress' /\ SensorsProgress'
  BY DEF RunIsCalm, ListeningProgress, SensorsProgress

\* The object of r becomes o, and what all listen to is as it was.
LEMMA ObjectStep ==
  ASSUME Inv, EventsInOrder, NEW r \in Names, NEW o \in Runtime, runtimes' = [runtimes EXCEPT ![r] = o],
         UNCHANGED listenerVars, usage.known => usage'.known, recorded' # {} => usage'.known,
         late' = NoRequest \/ (late' = late /\ (runtimes[r].phase = "none" \/ Settled(r) =>
                                 o.phase = "none" \/ (o.phase = "live" /\ o.applied = o.spec))),
         o.phase = "none" \/ (o.phase = "live" /\ o.applied = o.spec) =>
           EventsAre(r, o.spec) /\ SensorsAre(r, o.spec),
         o.phase = "live" => EventsFollow(r, o.spec) /\ SensorsFollow(r, o.spec),
         o.phase = "deleting" => EventsFollow(r, NoSpec) /\ usage.known,
         (o.phase = "live" /\ o.applied = o.spec) \/ o.phase = "deleting" => o.cache.id,
         o.phase = "none" => o.spec = NoSpec,
         \A p \in listener : Live(r) /\ p \in runtimes[r].spec.tokens =>
           p \in tokens[r] \/ (o.phase = "live" /\ p \in o.spec.tokens),
         RunIsCalm', ListeningProgress', SensorsProgress'
  PROVE  EventsInOrder'
<1>1. /\ runtimes'[r] = o
      /\ \A x \in Names \ {r} : runtimes'[x] = runtimes[x]
  BY WorldIsTyped
<1>2. \A x \in Names \ {r} : /\ Live(x)' <=> Live(x)
                             /\ Settled(x)' <=> Settled(x)
  BY <1>1 DEF Live, Settled
<1>3. /\ Live(r)' <=> o.phase = "live"
      /\ Settled(r)' <=> (o.phase = "live" /\ o.applied = o.spec)
  BY <1>1 DEF Live, Settled
<1>4. \A x, spec : /\ EventsAre(x, spec)' <=> EventsAre(x, spec)
                   /\ SensorsAre(x, spec)' <=> SensorsAre(x, spec)
                   /\ EventsFollow(x, spec)' <=> EventsFollow(x, spec)
                   /\ SensorsFollow(x, spec)' <=> SensorsFollow(x, spec)
  BY DEF listenerVars, EventsAre, SensorsAre, EventsFollow, SensorsFollow, Listens
<1>5. ASSUME NEW x \in Names, NEW object, object = runtimes'[x], NEW spec, spec = object.spec
      PROVE /\ Settled(x)' \/ object.phase = "none" => EventsAre(x, spec)' /\ SensorsAre(x, spec)'
            /\ Live(x)' => EventsFollow(x, spec)' /\ SensorsFollow(x, spec)'
            /\ object.phase = "deleting" => EventsFollow(x, NoSpec)' /\ usage'.known
            /\ Settled(x)' \/ object.phase = "deleting" => object.cache.id
            /\ object.phase = "none" => spec = NoSpec
  <2>2. /\ EventsAre(x, spec)' <=> EventsAre(x, spec)
        /\ SensorsAre(x, spec)' <=> SensorsAre(x, spec)
        /\ EventsFollow(x, spec)' <=> EventsFollow(x, spec)
        /\ SensorsFollow(x, spec)' <=> SensorsFollow(x, spec)
        /\ EventsFollow(x, NoSpec)' <=> EventsFollow(x, NoSpec)
    BY <1>4
  <2>3. CASE x = r
    BY <1>1, <1>3, <1>5, <2>2, <2>3
  <2>4. CASE x # r
    <3>1. object = runtimes[x] /\ (Live(x)' <=> Live(x)) /\ (Settled(x)' <=> Settled(x))
      BY <1>1, <1>2, <1>5, <2>4
    <3>2. /\ Settled(x) \/ runtimes[x].phase = "none" => EventsAre(x, spec) /\ SensorsAre(x, spec)
          /\ Live(x) => EventsFollow(x, spec) /\ SensorsFollow(x, spec)
          /\ runtimes[x].phase = "deleting" => EventsFollow(x, NoSpec) /\ usage.known
          /\ Settled(x) \/ runtimes[x].phase = "deleting" => runtimes[x].cache.id
          /\ runtimes[x].phase = "none" => spec = NoSpec
      BY <1>5, <3>1 DEF EventsInOrder, ObjectsListen
    <3> QED BY <2>2, <3>1, <3>2
  <2> QED BY <2>3, <2>4
<1>6. ObjectsListen'
  BY <1>5 DEF ObjectsListen
<1>7. ListenerIsClaimed'
  <2> SUFFICES ASSUME NEW p \in listener
               PROVE  \E x \in Names : p \in tokens'[x] \/ (Live(x)' /\ p \in runtimes'[x].spec.tokens)
    BY DEF ListenerIsClaimed, listenerVars
  <2>1. PICK x \in Names : p \in tokens[x] \/ (Live(x) /\ p \in runtimes[x].spec.tokens)
    BY DEF EventsInOrder, ListenerIsClaimed
  <2>2. tokens' = tokens
    BY DEF listenerVars
  <2>3. CASE x = r
    BY <1>1, <1>3, <2>1, <2>2, <2>3
  <2>4. CASE x # r
    BY <1>1, <1>2, <2>1, <2>2, <2>4
  <2> QED BY <2>3, <2>4
<1>8. RecordIsKnown'
  BY DEF RecordIsKnown
<1>9. LateIsAlone'
  <2> SUFFICES ASSUME late' # NoRequest, NEW x \in Names
               PROVE  runtimes'[x].phase = "none" \/ Settled(x)'
    BY DEF LateIsAlone
  <2>1. late' = late /\ (runtimes[x].phase = "none" \/ Settled(x))
    BY DEF EventsInOrder, LateIsAlone
  <2> QED BY <1>1, <1>2, <1>3, <2>1
<1> QED BY <1>6, <1>7, <1>8, <1>9 DEF EventsInOrder

\* Objects, usage record and what all listen to are as they were.
LEMMA SameObjects ==
  ASSUME EventsInOrder, UNCHANGED <<listenerVars, runtimes, recorded, usage>>,
         late' = late \/ \A x \in Names : runtimes[x].phase = "none" \/ Settled(x),
         RunIsCalm', ListeningProgress', SensorsProgress'
  PROVE  EventsInOrder'
<1>1. \A x, spec : /\ EventsAre(x, spec)' <=> EventsAre(x, spec)
                   /\ SensorsAre(x, spec)' <=> SensorsAre(x, spec)
                   /\ EventsFollow(x, spec)' <=> EventsFollow(x, spec)
                   /\ SensorsFollow(x, spec)' <=> SensorsFollow(x, spec)
  BY DEF listenerVars, EventsAre, SensorsAre, EventsFollow, SensorsFollow, Listens
<1>2. \A x \in Names : /\ Live(x)' <=> Live(x)
                       /\ Settled(x)' <=> Settled(x)
  BY DEF Live, Settled
<1>3. ObjectsListen'
  <2> SUFFICES ASSUME NEW x \in Names, NEW spec, spec = runtimes[x].spec
               PROVE /\ Settled(x) \/ runtimes[x].phase = "none" =>
                          EventsAre(x, spec)' /\ SensorsAre(x, spec)'
                     /\ Live(x) => EventsFollow(x, spec)' /\ SensorsFollow(x, spec)'
                     /\ runtimes[x].phase = "deleting" => EventsFollow(x, NoSpec)' /\ usage.known
                     /\ Settled(x) \/ runtimes[x].phase = "deleting" => runtimes[x].cache.id
                     /\ runtimes[x].phase = "none" => spec = NoSpec
    BY <1>2 DEF ObjectsListen
  <2>1. /\ Settled(x) \/ runtimes[x].phase = "none" => EventsAre(x, spec) /\ SensorsAre(x, spec)
        /\ Live(x) => EventsFollow(x, spec) /\ SensorsFollow(x, spec)
        /\ runtimes[x].phase = "deleting" => EventsFollow(x, NoSpec) /\ usage.known
        /\ Settled(x) \/ runtimes[x].phase = "deleting" => runtimes[x].cache.id
        /\ runtimes[x].phase = "none" => spec = NoSpec
    BY DEF EventsInOrder, ObjectsListen
  <2>2. /\ EventsAre(x, spec)' <=> EventsAre(x, spec)
        /\ SensorsAre(x, spec)' <=> SensorsAre(x, spec)
        /\ EventsFollow(x, spec)' <=> EventsFollow(x, spec)
        /\ SensorsFollow(x, spec)' <=> SensorsFollow(x, spec)
        /\ EventsFollow(x, NoSpec)' <=> EventsFollow(x, NoSpec)
    BY <1>1
  <2> QED BY <2>1, <2>2
<1>4. ListenerIsClaimed'
  BY <1>2 DEF EventsInOrder, ListenerIsClaimed, listenerVars
<1>5. RecordIsKnown' /\ LateIsAlone'
  BY <1>2 DEF EventsInOrder, RecordIsKnown, LateIsAlone
<1> QED BY <1>3, <1>4, <1>5 DEF EventsInOrder

\* The reconcile ends, or the operator crashes.
LEMMA IdleEvents ==
  ASSUME EventsInOrder, run' = Idle, UNCHANGED <<listenerVars, runtimes, late, recorded, usage>>
  PROVE  EventsInOrder'
<1>1. run'.rt \notin Names
  BY IdleFacts
<1> QED BY <1>1, IdleProgress, SameObjects

LEMMA TouchProgress ==
  ASSUME Inv, NEW r, Touch(r), UNCHANGED listenerVars, ListeningProgress, SensorsProgress
  PROVE  ListeningProgress' /\ SensorsProgress'
<1>1. /\ run'.pc = run.pc /\ run'.op = run.op /\ run'.rt = run.rt /\ run'.spec = run.spec
      /\ run'.new = run.new /\ run'.todo = run.todo /\ run'.failed = run.failed
      /\ run'.kinds = run.kinds /\ run'.surplus = run.surplus
  BY WorldIsTyped DEF Touch, RunType
<1>2. /\ Deploying' = Deploying /\ Target' = Target /\ Recorded' = Recorded
      /\ \A pc : At(pc)' = At(pc)
  BY <1>1 DEF Deploying, Target, Recorded, At
<1>3. UNCHANGED <<tokens, gitlab, entry, calendar, sensors, cached>>
  BY DEF listenerVars
<1>4. \A x, spec : /\ EventsAre(x, spec)' <=> EventsAre(x, spec)
                   /\ SensorsAre(x, spec)' <=> SensorsAre(x, spec)
                   /\ Listens(x)' <=> Listens(x)
  BY <1>3 DEF EventsAre, SensorsAre, Listens
<1>5. ListeningProgress'
  <2>1. CASE run.rt \in Names /\ ~run.failed
    <3>1. PICK x \in Names : x = run.rt
      BY <2>1
    <3>2. PICK target : target = Target
      OBVIOUS
    <3>3. ListeningProgress
      OBVIOUS
    <3> QED BY <1>1, <1>2, <1>3, <1>4, <2>1, <3>1, <3>2, <3>3 DEF ListeningProgress
  <2>2. CASE ~(run.rt \in Names /\ ~run.failed)
    BY <1>1, <2>2 DEF ListeningProgress
  <2> QED BY <2>1, <2>2
<1>6. SensorsProgress'
  <2>1. CASE run.rt \in Names /\ ~run.failed
    <3>1. PICK x \in Names : x = run.rt
      BY <2>1
    <3>2. PICK target : target = Target
      OBVIOUS
    <3> QED BY <1>1, <1>2, <1>3, <1>4, <2>1, <3>1, <3>2 DEF SensorsProgress
  <2>2. CASE ~(run.rt \in Names /\ ~run.failed)
    BY <1>1, <2>2 DEF SensorsProgress
  <2> QED BY <2>1, <2>2
<1> QED BY <1>5, <1>6

\* All runtimes are deployed, and one is created or edited; a reconcile of it
\* that is in progress changes nothing any more.
LEMMA WriteEvents ==
  ASSUME Inv, EventsInOrder, \A x \in Names : runtimes[x].phase = "none" \/ Settled(x),
         NEW r \in Names, NEW spec \in Specs, Write(r, spec), late' = NoRequest,
         UNCHANGED <<listenerVars, recorded, usage>>
  PROVE  EventsInOrder'
<1> DEFINE o == IF runtimes[r].phase = "none" THEN [NoRuntime EXCEPT !.phase = "live", !.spec = spec]
                ELSE [runtimes[r] EXCEPT !.spec = spec]
<1>1. PICK old \in Runtime : old = runtimes[r]
  BY WorldIsTyped
<1>2. /\ runtimes' = [runtimes EXCEPT ![r] = o] /\ Touch(r) /\ old.phase # "deleting"
      /\ old.phase = "none" \/ Settled(r)
  BY <1>1 DEF Write
<1>3. /\ o \in Runtime /\ o.phase = "live" /\ o.spec = spec
      /\ o.applied = spec => Settled(r) /\ old.spec = spec /\ o.cache = old.cache
  <2>1. CASE old.phase = "none"
    <3>1. o = [NoRuntime EXCEPT !.phase = "live", !.spec = spec]
      BY <1>1, <2>1
    <3>2. o \in Runtime /\ o.phase = "live" /\ o.spec = spec /\ o.applied = NoSpec
      BY <3>1, ConstantFacts DEF Runtime
    <3> QED BY <3>2, ConstantFacts
  <2>2. CASE Settled(r)
    <3>1. old.phase = "live" /\ old.applied = old.spec
      BY <1>1, <2>2 DEF Settled, Live
    <3>2. o = [old EXCEPT !.spec = spec]
      BY <1>1, <3>1
    <3> QED BY <2>2, <3>1, <3>2 DEF Runtime
  <2> QED BY <1>2, <2>1, <2>2
<1> HIDE DEF o
<1>4. /\ EventsAre(r, old.spec) /\ SensorsAre(r, old.spec)
      /\ Settled(r) => old.cache.id
  BY <1>1, <1>2 DEF EventsInOrder, ObjectsListen
<1>5. EventsFollow(r, spec) /\ SensorsFollow(r, spec)
  <2>1. old.spec \in Specs \cup {NoSpec}
    BY DEF Runtime
  <2> QED BY <1>4, <2>1, AreFollow
<1>6. \A p \in listener : Live(r) /\ p \in runtimes[r].spec.tokens => p \in tokens[r]
  BY <1>1, <1>4 DEF EventsAre
<1>7. RunIsCalm'
  <2> SUFFICES ASSUME run.rt \in Names PROVE RunIsCalm'
    BY WorldIsTyped, <1>2 DEF Touch, RunType, RunIsCalm
  <2>1. PICK q \in Names : q = run.rt
    OBVIOUS
  <2>2. PICK wanted : wanted = run.spec
    OBVIOUS
  <2>3. /\ runtimes[q].phase = IF Deploying THEN "live" ELSE "deleting"
        /\ run.stale => Deploying /\ EventsAre(q, wanted) /\ SensorsAre(q, wanted)
        /\ run.old.id => run.new.id
        /\ run.failed => run.pc \in FromSaved
    BY <2>1, <2>2 DEF EventsInOrder, RunIsCalm
  <2>4. Settled(q) /\ Deploying
    BY <2>3 DEF Settled, Live
  <2>5. ~run.stale => runtimes[q].spec = wanted
    BY <2>1, <2>2 DEF Inv, ObjectIsRead
  <2>6. EventsAre(q, wanted) /\ SensorsAre(q, wanted)
    BY <2>3, <2>4, <2>5 DEF EventsInOrder, ObjectsListen
  <2>7. EventsAre(q, wanted)' /\ SensorsAre(q, wanted)'
    BY <2>6 DEF listenerVars, EventsAre, SensorsAre
  <2>8. runtimes'[q].phase = "live"
    BY <1>2, <1>3, <2>3, <2>4, WorldIsTyped
  <2>9. /\ run'.rt = q /\ run'.spec = wanted /\ run'.op = run.op /\ run'.pc = run.pc
        /\ run'.old = run.old /\ run'.new = run.new /\ run'.failed = run.failed
    BY <1>2, <2>1, <2>2, WorldIsTyped DEF Touch, RunType
  <2>10. Deploying'
    BY <2>4, <2>9 DEF Deploying
  <2> QED BY <2>3, <2>7, <2>8, <2>9, <2>10 DEF RunIsCalm
<1>8. ListeningProgress' /\ SensorsProgress'
  BY <1>2, TouchProgress DEF EventsInOrder
<1>9. /\ usage.known => usage'.known
      /\ recorded' # {} => usage'.known
  BY DEF EventsInOrder, RecordIsKnown
<1>10. /\ o.phase = "none" \/ (o.phase = "live" /\ o.applied = o.spec) =>
            EventsAre(r, o.spec) /\ SensorsAre(r, o.spec)
       /\ o.phase = "live" => EventsFollow(r, o.spec) /\ SensorsFollow(r, o.spec)
       /\ o.phase # "deleting"
       /\ o.applied = o.spec => o.cache.id
  BY <1>3, <1>4, <1>5
<1> QED BY <1>2, <1>3, <1>6, <1>7, <1>8, <1>9, <1>10, ObjectStep

\* All is deployed and quiet, and a runtime is deleted.
LEMMA DeleteRuntimeEvents ==
  ASSUME Inv, EventsInOrder, Quiet, NEW r \in Names, DeleteRuntime(r)
  PROVE  EventsInOrder'
<1>1. PICK old \in Runtime : old = runtimes[r]
  BY WorldIsTyped
<1>2. /\ run.pc = "idle" /\ run.rt \notin Names /\ late = NoRequest
      /\ old.phase = "live" /\ Settled(r) /\ r \in recorded
  BY <1>1, IdleFacts DEF Quiet, DeleteRuntime, Inv, RunIsSound
<1>3. /\ EventsAre(r, old.spec) /\ SensorsAre(r, old.spec) /\ old.cache.id
  BY <1>1, <1>2 DEF EventsInOrder, ObjectsListen
<1>4. old.finalizer
  <2>1. ~old.finalizer => old.cache = NoCache
    BY <1>1 DEF Inv, UnheldIsNew
  <2> QED BY <1>3, <2>1 DEF NoCache
<1>5. PICK o : o = [old EXCEPT !.phase = "deleting"]
  OBVIOUS
<1>6. /\ o \in Runtime /\ o.phase = "deleting" /\ o.cache = old.cache
      /\ runtimes' = [runtimes EXCEPT ![r] = o] /\ Touch(r) /\ late' = NoRequest
      /\ UNCHANGED <<listenerVars, recorded, usage>>
  BY <1>1, <1>2, <1>4, <1>5 DEF DeleteRuntime, Edited, Runtime, clusterVars, history
<1>7. EventsFollow(r, NoSpec)
  <2>1. old.spec \in Specs \cup {NoSpec}
    BY DEF Runtime
  <2> QED BY <1>3, <2>1, AreFollow
<1>8. usage.known
  BY <1>2 DEF EventsInOrder, RecordIsKnown
<1>9. \A p \in listener : Live(r) /\ p \in runtimes[r].spec.tokens => p \in tokens[r]
  BY <1>1, <1>3 DEF EventsAre
<1>10. run'.rt \notin Names
  BY <1>2, <1>6, WorldIsTyped DEF Touch, RunType
<1> QED BY <1>3, <1>6, <1>7, <1>8, <1>9, <1>10, IdleProgress, ObjectStep

LEMMA UserEvents ==
  ASSUME Inv, EventsInv, User, calm'
  PROVE  EventsInOrder'
<1>0. \A r \in Names : SpecsOf[r] \subseteq Specs
  BY DEF Specs
<1>1. Edited => Quiet /\ calm /\ UNCHANGED <<listenerVars, recorded, usage>>
  BY DEF Edited, clusterVars, history
<1>2. ASSUME NEW r \in Names, NEW spec \in Specs, Apply(r, spec) PROVE EventsInOrder'
  <2>1. Quiet /\ EventsInOrder /\ late' = late /\ Write(r, spec)
        /\ UNCHANGED <<listenerVars, recorded, usage>>
    BY <1>1, <1>2 DEF Apply, EventsInv
  <2>2. /\ \A x \in Names : runtimes[x].phase = "none" \/ Settled(x)
        /\ late' = NoRequest
    BY <2>1 DEF Quiet
  <2> QED BY <2>1, <2>2, WriteEvents
<1>3. ASSUME NEW r \in Names, NEW spec \in Specs, Admit(r, spec) PROVE EventsInOrder'
  <2>1. Quiet /\ EventsInOrder /\ UNCHANGED <<listenerVars, recorded, usage, runtimes, run>>
    BY <1>1, <1>3 DEF Admit, EventsInv
  <2>2. run'.rt \notin Names
    BY <2>1, IdleFacts DEF Quiet, Inv, RunIsSound
  <2>3. \A x \in Names : runtimes[x].phase = "none" \/ Settled(x)
    BY <2>1 DEF Quiet
  <2> QED BY <2>1, <2>2, <2>3, IdleProgress, SameObjects
<1>4. CASE WriteLate
  <2>1. /\ late # NoRequest /\ late' = NoRequest /\ calm
        /\ UNCHANGED <<listenerVars, recorded, usage>>
    BY <1>4 DEF WriteLate, clusterVars, history
  <2>2. late.rt \in Names /\ late.spec \in Specs
    BY <2>1, WorldIsTyped
  <2>3. EventsInOrder /\ \A x \in Names : runtimes[x].phase = "none" \/ Settled(x)
    BY <2>1 DEF EventsInv, EventsInOrder, LateIsAlone
  <2>4. runtimes[late.rt].phase # "deleting"
    BY <2>2, <2>3 DEF Settled, Live
  <2>5. Write(late.rt, late.spec)
    BY <1>4, <2>4 DEF WriteLate
  <2> QED BY <2>1, <2>2, <2>3, <2>5, WriteEvents
<1>5. ASSUME NEW r \in Names, DeleteRuntime(r) PROVE EventsInOrder'
  <2>1. Edited
    BY <1>5 DEF DeleteRuntime
  <2> QED BY <1>1, <1>5, <2>1, DeleteRuntimeEvents DEF EventsInv
<1>6. ASSUME NEW p \in Repos, DeleteCodeRepo(p) PROVE EventsInOrder'
  <2>1. Quiet /\ EventsInOrder
        /\ UNCHANGED <<listenerVars, recorded, usage, runtimes, late, run>>
    BY <1>1, <1>6 DEF DeleteCodeRepo, EventsInv
  <2>2. run'.rt \notin Names
    BY <2>1, IdleFacts DEF Quiet, Inv, RunIsSound
  <2> QED BY <2>1, <2>2, IdleProgress, SameObjects
<1> QED BY <1>0, <1>2, <1>3, <1>4, <1>5, <1>6 DEF User

-----------------------------------------------------------------------------
(* The course of a reconcile, around the calls. *)

LEMMA ReconcileEvents ==
  ASSUME Inv, EventsInOrder, NEW r \in Names, Reconcile(r)
  PROVE  EventsInOrder'
<1> DEFINE o == [runtimes[r] EXCEPT !.applied = IF @ = runtimes[r].spec THEN @ ELSE NoSpec]
<1>1. PICK old \in Runtime : old = runtimes[r]
  BY WorldIsTyped
<1>2. /\ old.phase \in {"live", "deleting"} /\ old.spec \in Specs
      /\ ~old.finalizer => old.phase # "deleting"
  BY <1>1, ObjectFacts DEF Reconcile, Runtime
<1>3. /\ o \in Runtime /\ o.phase = old.phase /\ o.spec = old.spec /\ o.cache = old.cache
      /\ o.applied = old.spec <=> old.applied = old.spec
  BY <1>1, <1>2, ConstantFacts DEF Runtime
<1>4. /\ runtimes' = [runtimes EXCEPT ![r] = o]
      /\ UNCHANGED <<listenerVars, late, recorded, usage>>
  BY DEF Reconcile, clusterVars, history
<1> HIDE DEF o
<1>5. /\ run'.rt = r
      /\ run'.pc = CASE ~old.finalizer -> "addFinalizer"
                     [] old.finalizer /\ old.phase = "live" -> "validate"
                     [] OTHER -> "getUsage"
      /\ run'.op = IF old.phase = "live" THEN "deploy" ELSE "delete"
      /\ run'.old = run'.new /\ ~run'.failed /\ ~run'.stale
  BY <1>1 DEF Reconcile, Live, Idle
<1>6. runtimes'[r] = o
  BY <1>3, <1>4, WorldIsTyped
<1>7. \/ run'.op = "deploy" /\ run'.pc \in {"addFinalizer", "validate"} /\ old.phase = "live"
      \/ run'.op = "delete" /\ run'.pc = "getUsage" /\ old.phase = "deleting"
  BY <1>1, <1>2, <1>5
<1>8. RunIsCalm'
  BY <1>3, <1>5, <1>6, <1>7 DEF RunIsCalm, Deploying
<1>9. ~Recorded'
  BY <1>7 DEF Recorded, Deploying, FromHook, FromUnlistened, FromSaved, Leaving, Ending
<1>10. ListeningProgress' /\ SensorsProgress'
  BY <1>7, <1>9 DEF ListeningProgress, SensorsProgress, Sourcing, Unlistening, At, FromSynced,
     ListeningPCs, FromSaved
<1>11. /\ Settled(r) => EventsAre(r, old.spec) /\ SensorsAre(r, old.spec)
       /\ old.phase = "live" => EventsFollow(r, old.spec) /\ SensorsFollow(r, old.spec)
       /\ old.phase = "deleting" => EventsFollow(r, NoSpec) /\ usage.known
       /\ Settled(r) \/ old.phase = "deleting" => old.cache.id
  BY <1>1 DEF EventsInOrder, ObjectsListen, Live
<1>12. Settled(r) <=> (old.phase = "live" /\ old.applied = old.spec)
  BY <1>1 DEF Settled, Live
<1>13. /\ o.phase = "none" \/ (o.phase = "live" /\ o.applied = o.spec) =>
            EventsAre(r, o.spec) /\ SensorsAre(r, o.spec)
       /\ o.phase = "live" => EventsFollow(r, o.spec) /\ SensorsFollow(r, o.spec)
       /\ o.phase = "deleting" => EventsFollow(r, NoSpec) /\ usage.known
       /\ (o.phase = "live" /\ o.applied = o.spec) \/ o.phase = "deleting" => o.cache.id
       /\ Live(r) => o.phase = "live" /\ o.spec = runtimes[r].spec
       /\ Settled(r) => o.phase = "live" /\ o.applied = o.spec
       /\ runtimes[r].phase # "none" /\ o.phase # "none"
  BY <1>1, <1>2, <1>3, <1>11, <1>12 DEF Live
<1>14. /\ usage.known => usage'.known
       /\ recorded' # {} => usage'.known
  BY <1>4 DEF EventsInOrder, RecordIsKnown
<1> QED BY <1>3, <1>4, <1>8, <1>10, <1>13, <1>14, ObjectStep

LEMMA AddFinalizerEvents ==
  ASSUME Inv, EventsInOrder, AddFinalizer
  PROVE  EventsInOrder'
<1>1. /\ run.pc = "addFinalizer" /\ run.pc # "idle"
      /\ UNCHANGED <<listenerVars, late, recorded, usage>>
  BY DEF AddFinalizer, At, clusterVars, history
<1>2. CASE run' = Idle /\ UNCHANGED runtimes
  BY <1>1, <1>2, IdleEvents
<1>3. CASE run' = GoTo("validate") /\ runtimes' = [runtimes EXCEPT ![run.rt].finalizer = TRUE]
  <2>1. PICK r \in Names : r = run.rt
    BY <1>1, RunFacts
  <2>2. PICK old \in Runtime : old = runtimes[r]
    BY WorldIsTyped
  <2>3. PICK o : o = [old EXCEPT !.finalizer = TRUE]
    OBVIOUS
  <2>4. /\ o \in Runtime /\ o.phase = old.phase /\ o.spec = old.spec /\ o.cache = old.cache
        /\ o.applied = old.applied
    BY <2>3 DEF Runtime
  <2>5. runtimes' = [runtimes EXCEPT ![r] = o] /\ runtimes'[r] = o
    BY <1>3, <2>1, <2>2, <2>3, WorldIsTyped
  <2>6. /\ run'.rt = r /\ run'.pc = "validate" /\ run'.spec = run.spec /\ run'.op = run.op
        /\ run'.old = run.old /\ run'.new = run.new /\ run'.failed = run.failed
        /\ run'.stale = run.stale
    BY <1>1, <1>3, <2>1, RunFacts DEF GoTo, RunType
  <2>7. PICK spec : spec = run.spec
    OBVIOUS
  <2>8. /\ old.phase = IF Deploying THEN "live" ELSE "deleting"
        /\ run.stale => Deploying /\ EventsAre(r, spec) /\ SensorsAre(r, spec)
        /\ run.old.id => run.new.id
        /\ ~run.failed
    BY <1>1, <2>1, <2>2, <2>7 DEF EventsInOrder, RunIsCalm, FromSaved
  <2>9. run.pc \notin DeletePCs
    BY <1>1 DEF DeletePCs, Unlistening, Leaving, Ending
  <2>10. Deploying /\ Deploying'
    BY <1>1, <2>6, <2>9, RunFacts DEF Deploying
  <2>11. EventsAre(r, spec) /\ SensorsAre(r, spec) => EventsAre(r, spec)' /\ SensorsAre(r, spec)'
    BY <1>1 DEF listenerVars, EventsAre, SensorsAre
  <2>12. RunIsCalm'
    BY <2>4, <2>5, <2>6, <2>7, <2>8, <2>10, <2>11 DEF RunIsCalm
  <2>13. ~Recorded'
    BY <2>6, <2>10 DEF Recorded, FromHook, FromSaved
  <2>14. ListeningProgress' /\ SensorsProgress'
    BY <2>6, <2>13 DEF ListeningProgress, SensorsProgress, Sourcing, Unlistening, At, FromSynced,
       ListeningPCs, FromSaved
  <2>15. /\ old.phase = "live" /\ Live(r)
         /\ Settled(r) <=> old.applied = old.spec
         /\ Settled(r) => EventsAre(r, old.spec) /\ SensorsAre(r, old.spec) /\ old.cache.id
         /\ EventsFollow(r, old.spec) /\ SensorsFollow(r, old.spec)
    BY <2>2, <2>8, <2>10 DEF EventsInOrder, ObjectsListen, Live, Settled
  <2>16. /\ usage.known => usage'.known
         /\ recorded' # {} => usage'.known
    BY <1>1 DEF EventsInOrder, RecordIsKnown
  <2>17. /\ o.phase = "live" /\ o.spec = runtimes[r].spec
         /\ o.applied = o.spec => EventsAre(r, o.spec) /\ SensorsAre(r, o.spec) /\ o.cache.id
         /\ EventsFollow(r, o.spec) /\ SensorsFollow(r, o.spec)
         /\ runtimes[r].phase = "none" \/ Settled(r) => o.applied = o.spec
    BY <2>2, <2>4, <2>15
  <2> QED BY <1>1, <2>4, <2>5, <2>12, <2>14, <2>16, <2>17, ObjectStep
<1> QED BY <1>2, <1>3 DEF AddFinalizer, Me

LEMMA ValidateEvents ==
  ASSUME Inv, EventsInOrder, Validate
  PROVE  EventsInOrder'
<1>1. /\ run.pc = "validate" /\ run.pc # "idle"
      /\ UNCHANGED <<listenerVars, runtimes, late, recorded, usage>>
  BY DEF Validate, At, clusterVars, objectVars, history
<1>2. CASE run' = Idle
  BY <1>1, <1>2, IdleEvents
<1>3. CASE run' = GoTo("getUsage")
  <2>1. Continues /\ run'.pc = "getUsage"
    BY <1>1, <1>3, RunContinues
  <2>2. /\ run.old.id => run.new.id
        /\ ~run.failed
    BY <1>1, RunFacts DEF EventsInOrder, RunIsCalm, FromSaved
  <2>3. SameReconcile /\ ~run'.failed /\ (run.old.id => run'.new.id)
    BY <2>1, <2>2 DEF Continues
  <2>4. ~Recorded'
    BY <2>1 DEF Recorded, FromHook, FromUnlistened, FromSaved, Leaving, Ending
  <2>5. ListeningProgress' /\ SensorsProgress'
    BY <2>1, <2>4 DEF ListeningProgress, SensorsProgress, Sourcing, Unlistening, At, FromSynced,
       ListeningPCs, FromSaved
  <2> QED BY <1>1, <2>3, <2>5, QuietStep
<1> QED BY <1>2, <1>3 DEF Validate

LEMMA GetUsageEvents ==
  ASSUME Inv, EventsInOrder, GetUsage
  PROVE  EventsInOrder'
<1>1. /\ run.pc = "getUsage" /\ run.pc # "idle"
      /\ UNCHANGED <<listenerVars, runtimes, late, recorded, usage>>
  BY DEF GetUsage, At, clusterVars, objectVars, history
<1>2. PICK r \in Names : r = run.rt
  BY <1>1, RunFacts
<1>3. PICK target : target = Target
  OBVIOUS
<1>4. /\ run \in RunType /\ (Deploying <=> ~Deleting) /\ EventsFollow(r, target)
      /\ Deleting => target = NoSpec /\ run.old.id /\ runtimes[r].phase = "deleting"
  BY <1>1, <1>2, <1>3, RunEvents, RunFacts
<1>5. /\ ~run.failed
      /\ run.old.id => run.new.id
  BY <1>1, <1>2 DEF EventsInOrder, RunIsCalm, FromSaved
<1>6. Deleting => usage.known
  BY <1>2, <1>4 DEF EventsInOrder, ObjectsListen
<1>7. CASE Deploying /\ run' = [run EXCEPT !.pc = "createProduct",
                                   !.usage = [usage EXCEPT !.runtimes = @ \cup {run.rt}]]
  <2>1. SameReconcile /\ ~run'.failed /\ run'.new = run.new /\ run'.pc = "createProduct"
        /\ Deploying'
    BY <1>4, <1>5, <1>7 DEF SameReconcile, RunType, Deploying
  <2>2. ~Recorded'
    BY <2>1 DEF Recorded, FromHook, FromSaved
  <2>3. ListeningProgress' /\ SensorsProgress'
    BY <2>1, <2>2 DEF ListeningProgress, SensorsProgress, Sourcing, Unlistening, At, FromSynced,
       ListeningPCs, FromSaved
  <2> QED BY <1>1, <1>5, <2>1, <2>3, QuietStep
<1>8. CASE Deleting /\ run' = [run EXCEPT !.pc = "unlisten",
                                  !.usage = [usage EXCEPT !.runtimes = @ \ {run.rt}],
                                  !.kinds = IF run.old.id THEN cached[run.rt] ELSE {}]
  <2>1. /\ SameReconcile /\ ~run'.failed /\ run'.new = run.new /\ run'.pc = "unlisten"
        /\ run'.kinds = cached[r]
    BY <1>2, <1>4, <1>5, <1>8 DEF SameReconcile, RunType
  <2>2. /\ run'.rt = r /\ Target' = target /\ Deleting' /\ (Deploying <=> ~Deleting)' /\ ~Deploying'
    BY <1>2, <1>3, <1>4, <1>8, <2>1 DEF SameReconcile, Target, Deploying, Deleting
  <2>3. SensorsProgress'
    BY <2>1, <2>2, SensorsLater DEF Unlistening
  <2>4. UNCHANGED <<tokens, gitlab, entry, calendar, cached>>
    BY <1>1 DEF listenerVars
  <2>5. target.tokens = {} /\ ~target.calendar /\ KindsOf(target) = {} /\ target = NoSpec
    BY <1>4, <1>8, NoSpecFacts
  <2>6. /\ run'.kinds \subseteq cached[r] \ KindsOf(target)
        /\ Listens(r)' => "gitlab" \in run'.kinds
        /\ r \in calendar' => "calendar" \in run'.kinds
    BY <1>4, <2>1, <2>4, <2>5 DEF EventsFollow, Listens
  <2>7. ListeningProgress'
    BY <2>1, <2>2, <2>4, <2>5, <2>6, Unlistens
  <2> QED BY <1>1, <1>5, <2>1, <2>3, <2>7, QuietStep
<1>9. CASE run' = [run EXCEPT !.pc = "saveStatus", !.failed = TRUE]
  <2>1. SameReconcile /\ run'.failed /\ run'.new = run.new /\ run'.pc \in FromSaved
    BY <1>4, <1>9 DEF SameReconcile, RunType, FromSaved
  <2> QED BY <1>1, <1>5, <2>1, QuietStep
<1> QED BY <1>4, <1>6, <1>7, <1>8, <1>9 DEF GetUsage, Me

LEMMA SaveUsageEvents ==
  ASSUME Inv, EventsInOrder, SaveUsage
  PROVE  EventsInOrder'
<1>1. /\ run.pc = "saveUsage" /\ run.pc # "idle"
      /\ UNCHANGED <<listenerVars, runtimes, late>>
      /\ run' = GoTo(IF Deleting /\ ~run.failed THEN "removeFinalizer" ELSE "saveStatus")
  BY DEF SaveUsage, At
<1>2. PICK r \in Names : r = run.rt
  BY <1>1, RunFacts
<1>3. PICK target : target = Target
  OBVIOUS
<1>4. PICK o \in Runtime : o = runtimes[r]
  BY WorldIsTyped
<1>5. /\ run \in RunType /\ (Deploying <=> ~Deleting)
      /\ Deploying => target = run.spec
  BY <1>1, <1>2, <1>3, RunEvents, RunFacts
<1>6. /\ usage.known => usage'.known
      /\ recorded' # {} => usage'.known
  <2>1. CASE UpdateProductUsage(run.usage)
    <3>1. EmptyUsage(TRUE).known /\ [run.usage EXCEPT !.known = TRUE].known
      BY <1>1, RunFacts DEF EmptyUsage, Usage
    <3> QED BY <2>1, <3>1 DEF UpdateProductUsage
  <2>2. CASE recorded' = recorded \ {run.rt} /\ UNCHANGED usage
    BY <2>2 DEF EventsInOrder, RecordIsKnown
  <2> QED BY <2>1, <2>2 DEF SaveUsage, Me
<1>7. /\ run'.rt = r /\ run'.spec = run.spec /\ run'.op = run.op /\ run'.old = run.old
      /\ run'.new = run.new /\ run'.failed = run.failed /\ run'.stale = run.stale
      /\ run'.pc = IF Deleting /\ ~run.failed THEN "removeFinalizer" ELSE "saveStatus"
  BY <1>1, <1>2, <1>5 DEF GoTo, RunType
<1>8. /\ Deploying' = Deploying /\ Target' = target
  BY <1>3, <1>7 DEF Deploying, Target
<1>9. PICK spec : spec = run.spec
  OBVIOUS
<1>10. \A x, s : /\ EventsAre(x, s)' <=> EventsAre(x, s)
                 /\ SensorsAre(x, s)' <=> SensorsAre(x, s)
  BY <1>1 DEF listenerVars, EventsAre, SensorsAre
<1>11. RunIsCalm'
  <2>1. /\ runtimes[r].phase = IF Deploying THEN "live" ELSE "deleting"
        /\ run.stale => Deploying /\ EventsAre(r, spec) /\ SensorsAre(r, spec)
        /\ run.old.id => run.new.id
    BY <1>2, <1>9 DEF EventsInOrder, RunIsCalm
  <2>2. run.stale => EventsAre(r, spec)' /\ SensorsAre(r, spec)'
    BY <1>10, <2>1
  <2>3. run.failed => run'.pc \in FromSaved
    BY <1>7 DEF FromSaved
  <2> QED BY <1>1, <1>7, <1>8, <1>9, <2>1, <2>2, <2>3 DEF RunIsCalm
<1>12. ~run.failed => /\ EventsAre(r, target) /\ SensorsAre(r, target)
                      /\ Deploying => run.new.id
  <2>1. Recorded
    BY <1>1 DEF Recorded, FromHook, FromUnlistened, FromSaved
  <2>2. /\ run.pc \notin {"createHook", "createSensors", "surplusSensors", "deleteSensors"}
        /\ ~(Deploying /\ At("removeHook")) /\ run.pc \in FromSynced
    BY <1>1 DEF At, FromSynced, FromSaved
  <2> QED BY <1>2, <1>3, <2>1, <2>2 DEF EventsInOrder, ListeningProgress, SensorsProgress
<1>13. ~run.failed => EventsAre(r, target)' /\ SensorsAre(r, target)'
  BY <1>10, <1>12
<1>14. ListeningProgress' /\ SensorsProgress'
  <2>1. run'.pc \notin Sourcing \cup Unlistening \cup {"createCalendar", "surplusSensors"}
    BY <1>7 DEF Sourcing, Unlistening
  <2> QED BY <1>7, <1>8, <1>12, <1>13, <2>1
      DEF ListeningProgress, SensorsProgress, At, Sourcing, Unlistening
<1>15. /\ Settled(r) \/ o.phase = "none" => EventsAre(r, o.spec) /\ SensorsAre(r, o.spec)
       /\ o.phase = "live" => EventsFollow(r, o.spec) /\ SensorsFollow(r, o.spec)
       /\ o.phase = "deleting" => EventsFollow(r, NoSpec) /\ usage.known
       /\ Settled(r) \/ o.phase = "deleting" => o.cache.id
       /\ Settled(r) <=> (o.phase = "live" /\ o.applied = o.spec)
       /\ Live(r) <=> o.phase = "live"
       /\ o.phase = "none" => o.spec = NoSpec
  BY <1>4 DEF EventsInOrder, ObjectsListen, Live, Settled
<1>16. runtimes' = [runtimes EXCEPT ![r] = o]
  BY <1>1, <1>4, WorldIsTyped
<1> QED BY <1>1, <1>4, <1>6, <1>11, <1>14, <1>15, <1>16, ObjectStep

LEMMA SaveStatusEvents ==
  ASSUME Inv, EventsInOrder, SaveStatus
  PROVE  EventsInOrder'
<1>1. /\ run.pc = "saveStatus" /\ run.pc # "idle" /\ run' = Idle
      /\ UNCHANGED <<listenerVars, late, recorded, usage>>
  BY DEF SaveStatus, At, clusterVars, history
<1>2. CASE UNCHANGED runtimes
  BY <1>1, <1>2, IdleEvents
<1>3. CASE ~UNCHANGED runtimes
  <2>1. PICK r \in Names : r = run.rt
    BY <1>1, RunFacts
  <2>2. PICK target : target = Target
    OBVIOUS
  <2>3. PICK old \in Runtime : old = runtimes[r]
    BY WorldIsTyped
  <2>4. PICK o : o = [old EXCEPT !.cache = run.new,
                         !.applied = IF Deploying /\ ~run.failed THEN run.spec ELSE @]
    OBVIOUS
  <2>5. runtimes' = [runtimes EXCEPT ![r] = o] /\ ~run.stale
    BY <1>3, <2>1, <2>3, <2>4 DEF SaveStatus, Me
  <2>6. /\ run.spec \in Specs /\ run.new \in Cache /\ run.old = old.cache
        /\ Deploying <=> ~Deleting
    BY <1>1, <2>1, <2>3, RunFacts
  <2>7. /\ Deploying => old.phase = "live" /\ target = run.spec /\ old.spec = run.spec
        /\ Deleting => old.phase = "deleting" /\ run.old.id
    BY <1>1, <2>1, <2>2, <2>3, <2>5, RunEvents
  <2>8. /\ o \in Runtime /\ o.phase = old.phase /\ o.spec = old.spec /\ o.cache = run.new
        /\ o.applied = IF Deploying /\ ~run.failed THEN run.spec ELSE old.applied
    BY <2>4, <2>6 DEF Runtime
  <2>9. run.old.id => run.new.id
    BY <2>1 DEF EventsInOrder, RunIsCalm
  <2>10. Deploying /\ ~run.failed =>
           EventsAre(r, target) /\ SensorsAre(r, target) /\ run.new.id
    <3>1. Deploying => Recorded
      BY <1>1 DEF Recorded, FromHook, FromSaved
    <3>2. /\ run.pc \notin {"createHook", "createSensors", "surplusSensors", "deleteSensors"}
          /\ ~(Deploying /\ At("removeHook")) /\ run.pc \in FromSynced
      BY <1>1 DEF At, FromSynced, FromSaved
    <3> QED BY <2>1, <2>2, <3>1, <3>2 DEF EventsInOrder, ListeningProgress, SensorsProgress
  <2>11. /\ Settled(r) => EventsAre(r, old.spec) /\ SensorsAre(r, old.spec) /\ old.cache.id
         /\ old.phase = "live" => EventsFollow(r, old.spec) /\ SensorsFollow(r, old.spec)
         /\ old.phase = "deleting" => EventsFollow(r, NoSpec) /\ usage.known
         /\ Settled(r) <=> (old.phase = "live" /\ old.applied = old.spec)
         /\ Live(r) <=> old.phase = "live"
    BY <2>3 DEF EventsInOrder, ObjectsListen, Live, Settled
  <2>12. old.phase \in {"live", "deleting"}
    BY <2>6, <2>7
  <2>13. /\ o.phase = "live" /\ o.applied = o.spec =>
              EventsAre(r, o.spec) /\ SensorsAre(r, o.spec) /\ o.cache.id
         /\ o.phase = "deleting" => o.cache.id
         /\ Settled(r) => o.phase = "live" /\ o.applied = o.spec
         /\ o.phase = "live" => EventsFollow(r, o.spec) /\ SensorsFollow(r, o.spec)
         /\ o.phase # "none" /\ runtimes[r].phase # "none"
         /\ Live(r) => o.phase = "live" /\ o.spec = runtimes[r].spec
    BY <2>3, <2>6, <2>7, <2>8, <2>9, <2>10, <2>11, <2>12
  <2>14. /\ usage.known => usage'.known
         /\ recorded' # {} => usage'.known
    BY <1>1 DEF EventsInOrder, RecordIsKnown
  <2>15. RunIsCalm' /\ ListeningProgress' /\ SensorsProgress'
    BY <1>1, IdleFacts, IdleProgress
  <2> QED BY <1>1, <2>5, <2>8, <2>11, <2>13, <2>14, <2>15, ObjectStep
<1> QED BY <1>2, <1>3

\* The object goes when nothing listens for it any more.
LEMMA RemoveFinalizerEvents ==
  ASSUME Inv, EventsInOrder, RemoveFinalizer
  PROVE  EventsInOrder'
<1>1. /\ run.pc = "removeFinalizer" /\ run.pc # "idle" /\ run' = Idle
      /\ UNCHANGED <<listenerVars, late, recorded, usage>>
  BY DEF RemoveFinalizer, At, clusterVars
<1>2. CASE UNCHANGED runtimes
  BY <1>1, <1>2, IdleEvents
<1>3. CASE runtimes' = [runtimes EXCEPT ![run.rt] = NoRuntime]
  <2>1. PICK r \in Names : r = run.rt
    BY <1>1, RunFacts
  <2>2. Deleting /\ ~Deploying /\ ~run.failed
    <3>1. run.pc \notin DeployPCs
      BY <1>1 DEF DeployPCs, FromValidated, FromUsage, FromProduct, FromProject, FromSpace,
         FromAccount, FromUser, FromRole, FromGranted, FromSynced, FromSaved, Leaving,
         ListeningPCs, Unlistening
    <3>2. ~run.failed
      BY <1>1, <2>1 DEF EventsInOrder, RunIsCalm, FromSaved
    <3> QED BY <1>1, <3>1, <3>2, RunFacts
  <2>3. PICK target : target = Target
    OBVIOUS
  <2>4. target = NoSpec /\ runtimes[r].phase = "deleting"
    BY <1>1, <2>1, <2>2, <2>3, RunEvents
  <2>5. EventsAre(r, target) /\ SensorsAre(r, target)
    <3>1. Recorded
      BY <1>1, <2>2 DEF Recorded, FromUnlistened
    <3>2. /\ run.pc \notin {"createHook", "createSensors", "surplusSensors", "deleteSensors"}
          /\ ~(Deploying /\ At("removeHook"))
      BY <1>1 DEF At
    <3> QED BY <2>1, <2>2, <2>3, <3>1, <3>2 DEF EventsInOrder, ListeningProgress, SensorsProgress
  <2>6. NoRuntime \in Runtime /\ NoRuntime.phase = "none" /\ NoRuntime.spec = NoSpec
    BY ConstantFacts DEF NoRuntime
  <2>7. ~Live(r) /\ runtimes[r].phase # "none" /\ ~Settled(r)
    BY <2>4 DEF Live, Settled
  <2>8. /\ usage.known => usage'.known
        /\ recorded' # {} => usage'.known
    BY <1>1 DEF EventsInOrder, RecordIsKnown
  <2>9. RunIsCalm' /\ ListeningProgress' /\ SensorsProgress'
    BY <1>1, IdleFacts, IdleProgress
  <2> QED BY <1>1, <1>3, <2>1, <2>4, <2>5, <2>6, <2>7, <2>8, <2>9, ObjectStep
<1> QED BY <1>2, <1>3 DEF RemoveFinalizer, Me

-----------------------------------------------------------------------------
(* All steps together. *)

LEMMA ProceedEvents ==
  ASSUME Inv, EventsInOrder, Proceed
  PROVE  EventsInOrder'
<1>1. CASE \E p \in Repos : RevokeOld(p) \/ Grant(p) \/ Revoke(p) \/ ListenTo(p) \/ ForgetRepo(p)
  BY <1>1, LeavingEvents, PermissionEvents, ListenToEvents, ForgetRepoEvents
<1>2. CASE AddFinalizer \/ Validate \/ GetUsage \/ SaveUsage \/ SaveStatus \/ RemoveFinalizer
  BY <1>2, AddFinalizerEvents, ValidateEvents, GetUsageEvents, SaveUsageEvents, SaveStatusEvents,
     RemoveFinalizerEvents
<1>3. CASE \/ CreateProduct \/ CreateProject \/ AddProductUser
           \/ OldRevoked \/ DropUser \/ DeleteProductRole \/ DeleteProductAccount
           \/ CreateSpace \/ CreateProductAccount \/ AddUser \/ CreateAccountRole
           \/ Granted \/ PermissionsSynced
  BY <1>3, ProductEvents, LeavingEvents, SpaceEvents, PermissionEvents, PermissionsSyncedEvents
<1>4. CASE \/ ListensToAll \/ ReposForgotten \/ CreateEntryPoint \/ CreateGitlab \/ CreateCalendar
           \/ UnlistenGitlab \/ DeleteEntryPoint \/ DeleteGitlab \/ DeleteCalendar \/ RecordKinds
  BY <1>4, ListensToAllEvents, ReposForgottenEvents, CreateEntryPointEvents, CreateGitlabEvents,
     CreateCalendarEvents, UnlistenGitlabEvents, DeleteEntryPointEvents, DeleteGitlabEvents,
     DeleteCalendarEvents, RecordKindsEvents
<1>5. CASE \/ CreateHook \/ RemoveHook \/ CreateSensorsOf \/ SensorsSynced \/ DeleteAllSensors
           \/ \E i \in 0..MaxTriggers - 1 : DeleteSurplus(i)
  BY <1>5, HookEvents, CreateSensorsEvents, DeleteSurplusEvents, SensorsSyncedEvents
<1>6. CASE SyncApp \/ DeleteSpace \/ DeleteProductUser \/ DeleteProduct \/ DeleteProject
  BY <1>6, AppEvents, EndingEvents
<1> QED BY <1>1, <1>2, <1>3, <1>4, <1>5, <1>6 DEF Proceed

LEMMA InitEvents == Init => EventsInv
<1> SUFFICES ASSUME Init PROVE EventsInOrder
  BY DEF EventsInv
<1>1. run.rt \notin Names /\ late = NoRequest /\ listener = {} /\ recorded = {}
  BY IdleFacts DEF Init, ListenerInit
<1>2. ASSUME NEW r \in Names
      PROVE  /\ runtimes[r].phase = "none" /\ runtimes[r].spec = NoSpec
             /\ EventsAre(r, NoSpec) /\ SensorsAre(r, NoSpec)
  <2>1. /\ tokens[r] = {} /\ gitlab[r] = NoSource /\ r \notin entry /\ r \notin calendar
        /\ sensors[r] = {} /\ cached[r] = {} /\ runtimes[r] = NoRuntime
    BY DEF Init, ListenerInit
  <2> QED BY <2>1, NoSpecFacts DEF EventsAre, SensorsAre, NoRuntime
<1>3. ObjectsListen
  BY <1>2 DEF ObjectsListen, Settled, Live
<1> QED BY <1>1, <1>3 DEF EventsInOrder, ListenerIsClaimed, RecordIsKnown, LateIsAlone, RunIsCalm,
        ListeningProgress, SensorsProgress

\* Users only stop being calm for good.
LEMMA CalmWasCalm ==
  ASSUME [Next]_vars, ~User, calm'
  PROVE  calm
<1>1. CASE Proceed
  BY <1>1
  DEF Proceed, AddFinalizer, Validate, GetUsage, CreateProduct, CreateProject, AddProductUser,
      OldRevoked, DropUser, DeleteProductRole, DeleteProductAccount, CreateSpace,
      CreateProductAccount, AddUser, CreateAccountRole, Granted, PermissionsSynced, RevokeOld,
      Grant, Revoke, ListenTo, ForgetRepo, ListensToAll, ReposForgotten, CreateEntryPoint,
      CreateGitlab, CreateCalendar, UnlistenGitlab, DeleteEntryPoint, DeleteGitlab, DeleteCalendar,
      RecordKinds, CreateHook, RemoveHook, CreateSensorsOf, SensorsSynced, DeleteAllSensors,
      DeleteSurplus, SyncApp, DeleteSpace, DeleteProductUser, DeleteProduct, DeleteProject,
      SaveUsage, SaveStatus, RemoveFinalizer, Rest, ListenRest, HookRest, SensorRest, objectVars
<1>2. CASE \/ \E r \in Names : Reconcile(r)
           \/ CallFails \/ Crash
           \/ \E s \in Spaces \cup {Product} : Gone(s)
           \/ UNCHANGED vars
  BY <1>2 DEF Reconcile, CallFails, Crash, Gone, vars, objectVars
<1> QED BY <1>1, <1>2 DEF Next

LEMMA StepKeepsEvents == Inv /\ EventsInv /\ [Next]_vars => EventsInv'
<1> SUFFICES ASSUME Inv, EventsInv, [Next]_vars, calm' PROVE EventsInOrder'
  BY DEF EventsInv
<1>1. CASE User
  BY <1>1, UserEvents
<1>2. CASE ~User
  <2>1. EventsInOrder
    BY <1>2, CalmWasCalm DEF EventsInv
  <2>2. CASE \E r \in Names : Reconcile(r)
    BY <2>1, <2>2, ReconcileEvents
  <2>3. CASE Proceed
    BY <2>1, <2>3, ProceedEvents
  <2>4. CASE CallFails
    BY <2>1, <2>4, CallFailsEvents
  <2>5. CASE Crash
    BY <2>1, <2>5, IdleEvents DEF Crash, clusterVars, objectVars, history
  <2>6. CASE (\E s \in Spaces \cup {Product} : Gone(s)) \/ UNCHANGED vars
    <3>1. UNCHANGED <<listenerVars, runtimes, late, recorded, usage, run>>
      BY <2>6 DEF Gone, NamespaceGone, vars, objectVars, history, clusterVars
    <3>2. UNCHANGED <<tokens, gitlab, entry, calendar, sensors, cached>>
      BY <3>1 DEF listenerVars
    <3>3. RunIsCalm'
      BY <2>1, <3>1, <3>2 DEF EventsInOrder, RunIsCalm, EventsAre, SensorsAre, Deploying
    <3>4. ListeningProgress' /\ SensorsProgress'
      BY <2>1, <3>1, <3>2
      DEF EventsInOrder, ListeningProgress, SensorsProgress, EventsAre, SensorsAre, Deploying,
          Target, Recorded, At, Listens
    <3> QED BY <2>1, <3>1, <3>3, <3>4, SameObjects
  <2> QED BY <1>2, <2>2, <2>3, <2>4, <2>5, <2>6 DEF Next
<1> QED BY <1>1, <1>2

\* With users who wait, nothing listens that no live runtime asks for: for any
\* runtimes and repositories, any number of edits, late requests, failures and
\* crashes.
THEOREM NoEventStays == Spec => []NoEventIsLeft
<1>1. Inv /\ EventsInv => NoEventIsLeft
  <2> SUFFICES ASSUME Inv, EventsInOrder, Quiet
               PROVE  /\ listener \subseteq UNION {runtimes[r].spec.tokens : r \in LiveOnes}
                      /\ \A r \in Names :
                           LET spec == runtimes[r].spec
                           IN  /\ tokens[r] = spec.tokens
                               /\ gitlab[r].exists \/ r \in entry => spec.tokens # {}
                               /\ r \in calendar => spec.calendar
                               /\ sensors[r] = 0..spec.triggers - 1
    BY DEF NoEventIsLeft, EventsInv
  <2>1. ASSUME NEW r \in Names
        PROVE  EventsAre(r, runtimes[r].spec) /\ SensorsAre(r, runtimes[r].spec)
    BY DEF Quiet, EventsInOrder, ObjectsListen
  <2>2. ASSUME NEW r \in Names, runtimes[r].spec.tokens # {}
        PROVE  r \in LiveOnes
    <3>1. runtimes[r].phase = "none" => runtimes[r].spec = NoSpec
      BY DEF EventsInOrder, ObjectsListen
    <3> QED BY <2>2, <3>1, NoSpecFacts DEF Quiet, Settled, LiveOnes
  <2>3. ASSUME NEW p \in listener
        PROVE  \E r \in LiveOnes : p \in runtimes[r].spec.tokens
    <3>1. PICK r \in Names : p \in tokens[r] \/ p \in runtimes[r].spec.tokens
      BY DEF EventsInOrder, ListenerIsClaimed
    <3>2. p \in runtimes[r].spec.tokens
      BY <2>1, <3>1 DEF EventsAre
    <3> QED BY <2>2, <3>2
  <2>4. ASSUME NEW r \in Names, NEW spec, spec = runtimes[r].spec
        PROVE  /\ tokens[r] = spec.tokens
               /\ gitlab[r].exists \/ r \in entry => spec.tokens # {}
               /\ r \in calendar => spec.calendar
               /\ sensors[r] = 0..spec.triggers - 1
    <3>1. EventsAre(r, spec) /\ SensorsAre(r, spec)
      BY <2>1, <2>4
    <3>2. gitlab[r].exists => spec.tokens # {}
      BY <3>1 DEF EventsAre, NoSource
    <3> QED BY <3>1, <3>2 DEF EventsAre, SensorsAre
  <2> QED BY <2>3, <2>4
<1>2. Init => Inv /\ EventsInv
  BY InitInv, InitEvents
<1>3. Inv /\ EventsInv /\ [Next]_vars => Inv' /\ EventsInv'
  BY StepKeepsInv, StepKeepsEvents
<1> QED BY <1>1, <1>2, <1>3, PTL DEF Spec

=============================================================================
