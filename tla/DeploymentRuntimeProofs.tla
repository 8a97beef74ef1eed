---------------------- MODULE DeploymentRuntimeProofs ----------------------
(***************************************************************************)
(* Theorems about DeploymentRuntime: type correctness, and that what a      *)
(* runtime was deployed to stays as long as it is in use (InUseIsKept) and  *)
(* that nothing else does (NothingLeftBehind), for any runtimes, spaces,    *)
(* accounts and repositories, and any number of edits, failures and         *)
(* crashes.                                                                 *)
(*                                                                         *)
(* The argument goes over three places.  The usage record names everything  *)
(* a kept runtime consists of (KeptIsRecorded), and so does the copy a      *)
(* reconcile works with (CopyIsRecorded); therefore whatever it computes to *)
(* be removed is in use by nobody that is kept (TodoIsHarmless), and the    *)
(* deployments of the kept ones stay complete (KeptIsDeployed).  A runtime  *)
(* becomes kept when its own reconcile has not failed, which has by then    *)
(* seen every part of the deployment done (DeploymentProgress).             *)
(*                                                                         *)
(* A reconcile of a kept runtime whose spec did not change leaves no        *)
(* account and drops nothing of its own: AppliedIsKnown says that the cache *)
(* it starts from names the account it deploys with.                        *)
(*                                                                         *)
(* NothingLeftBehind is the other direction: whatever the cluster, the      *)
(* secret store and the usage record have, some runtime claims, by its spec *)
(* or by the cache in its status (ClusterIsClaimed, UsageIsClaimed).  It    *)
(* needs what the run that checks it assumes: users wait for their last     *)
(* change to be deployed, and the usage record can be written.              *)
(***************************************************************************)
EXTENDS DeploymentRuntime, TLAPS

-----------------------------------------------------------------------------
(* The inductive invariant. *)

RunType ==
  [pc : PC, op : {"none", "deploy", "delete"}, rt : Names \cup {NoName},
   spec : Specs \cup {NoSpec}, old : Cache, new : Cache, usage : Usage,
   todo : SUBSET (Spaces \cup Repos), failed : BOOLEAN, stale : BOOLEAN]

\* Where the old account is being left, and where the product is.
Leaving == {"revokeOld", "dropUsers", "deleteRole", "deleteAccount", "leftAccount"}
Ending == {"deleteProductUser", "deleteProduct", "deleteProject"}

\* The steps of a deployment from one of its stages on.
FromSaved == {"saveUsage", "saveStatus"}
FromGranted == {"revoke", "deleteSpaces", "createApp"} \cup FromSaved
FromRole == {"grant"} \cup FromGranted
FromUsers == {"createRole"} \cup FromRole
FromAccount == {"addUsers"} \cup FromUsers
FromSpaces == Leaving \cup {"createAccount"} \cup FromAccount
FromProject == {"createSpaces"} \cup FromSpaces
FromProduct == {"createProject", "addProductUser"} \cup FromProject
FromUsage == {"createProduct"} \cup FromProduct

DeployPCs == {"addFinalizer", "getUsage"} \cup FromUsage
DeletePCs == {"addFinalizer", "getUsage", "deleteApp", "deleteSpaces", "saveUsage",
              "saveStatus", "removeFinalizer"} \cup (Leaving \ {"dropUsers"}) \cup Ending

\* A reconcile knows its runtime; it leaves an account only for another one.
RunIsSound ==
  /\ run \in RunType
  /\ run.pc = "idle" <=> run.rt = NoName
  /\ run.pc # "idle" =>
       /\ run.spec \in Specs
       /\ \/ Deploying /\ run.pc \in DeployPCs
          \/ Deleting /\ run.pc \in DeletePCs
  /\ run.pc \in Leaving =>
       run.old.account \in Accounts /\ (Deploying => run.old.account # run.spec.account)

\* The last deployment of r succeeded, and r has not been seen changed since.
Applied(r) == runtimes[r].phase = "live" /\ runtimes[r].applied # NoSpec
Kept(r) == r \in recorded /\ Applied(r)
SpecOf(r) == runtimes[r].applied

\* The status of such a runtime names its account; a reconcile of it deploys
\* the same again.
AppliedIsKnown ==
  /\ \A r \in Names : runtimes[r].phase # "none" => runtimes[r].spec \in Specs
  /\ \A r \in Names : Applied(r) => runtimes[r].cache.account = SpecOf(r).account
  /\ run.rt \in Names =>
       /\ Deleting => runtimes[run.rt].phase = "deleting"
       /\ Applied(run.rt) =>
            /\ SpecOf(run.rt) = run.spec
            /\ run.old.account = run.spec.account /\ run.new.account = run.spec.account

\* One use for each account and runtime.
UsesAreUnique(u) ==
  \A x, y \in u.account : x.account = y.account /\ x.runtime = y.runtime => x = y

RecordedSpaces(u, r, spec) == r \in u.runtimes /\ spec.spaces \subseteq u.space[r]
RecordedUse(u, r, spec) ==
  \E x \in u.account : /\ x.account = spec.account /\ x.runtime = r
                       /\ spec.spaces \subseteq x.spaces
RecordedPerm(u, r, spec) ==
  \E x \in u.account : /\ x.account = spec.account /\ x.runtime = r
                       /\ spec.spaces \subseteq x.spaces /\ spec.repo \in x.perms
InRecord(u, r, spec) == RecordedSpaces(u, r, spec) /\ RecordedPerm(u, r, spec)

HasSpaces(spec) == \A s \in spec.spaces : Operable(s)
HasUsers(spec) == \A s \in spec.spaces : spec.account \in users[s]
HasRole(spec) == roles[spec.account].exists /\ spec.spaces \subseteq roles[spec.account].spaces
HasPerm(spec) == spec.repo \in roles[spec.account].perms

\* Everything the deployment of r as spec consists of.
DeployedAs(r, spec) ==
  /\ Operable(Product) /\ project = "granted"
  /\ HasSpaces(spec) /\ HasUsers(spec) /\ spec.account \in accounts
  /\ HasRole(spec) /\ HasPerm(spec)
  /\ apps[r] = spec.spaces

KeptIsRecorded == UsesAreUnique(usage) /\ \A r \in Names : Kept(r) => InRecord(usage, r, SpecOf(r))
KeptIsDeployed == \A r \in Names : Kept(r) => DeployedAs(r, SpecOf(r))

\* What is kept is recorded in the copy of the usage record, too.
Copied == run.pc \in PC \ {"idle", "addFinalizer", "getUsage", "saveStatus", "removeFinalizer"}
CopyIsRecorded ==
  Copied => /\ UsesAreUnique(run.usage)
            /\ \A r \in Names : Kept(r) => InRecord(run.usage, r, SpecOf(r))

\* What is left to remove is nothing that is kept.
TodoIsHarmless ==
  \A r \in Names : Kept(r) =>
    LET spec == SpecOf(r) IN
    /\ At("revokeOld") /\ spec.account = run.old.account => spec.repo \notin run.todo
    /\ At("dropUsers") /\ spec.account = run.old.account => spec.spaces \cap run.todo = {}
    /\ run.pc \in {"deleteRole", "deleteAccount"} => spec.account # run.old.account
    /\ At("revoke") /\ spec.account = run.spec.account => spec.repo \notin run.todo
    /\ At("deleteSpaces") => spec.spaces \cap run.todo = {}
    /\ run.pc \notin Ending

\* How far a deployment has come that has not failed.
DeploymentProgress ==
  Deploying /\ ~run.failed =>
    LET spec == run.spec
        u == run.usage
    IN
    /\ run.pc \in FromUsage \ {"saveStatus"} => run.rt \in u.runtimes
    /\ run.pc \in FromProduct => Operable(Product)
    /\ run.pc \in FromProject => project = "granted"
    /\ At("createSpaces") => \A s \in spec.spaces \ run.todo : Operable(s)
    /\ run.pc \in FromSpaces => HasSpaces(spec)
    /\ run.pc \in FromSpaces \ {"saveStatus"} => RecordedSpaces(u, run.rt, spec)
    /\ run.pc \in FromAccount => spec.account \in accounts
    /\ At("addUsers") => \A s \in spec.spaces \ run.todo : spec.account \in users[s]
    /\ run.pc \in FromUsers => HasUsers(spec)
    /\ run.pc \in FromUsers \ {"saveStatus"} => RecordedUse(u, run.rt, spec)
    /\ run.pc \in FromRole => HasRole(spec)
    /\ run.pc \in FromGranted => HasPerm(spec)
    /\ run.pc \in FromGranted \ {"saveStatus"} => RecordedPerm(u, run.rt, spec)
    /\ At("revoke") => spec.repo \notin run.todo
    /\ At("deleteSpaces") => spec.spaces \cap run.todo = {}
    /\ run.pc \in FromSaved => apps[run.rt] = spec.spaces
    /\ run.pc \in {"deleteSpaces", "createApp"} \cup FromSaved => run.new.account = spec.account
    /\ At("saveStatus") /\ run.rt \in recorded => InRecord(usage, run.rt, spec)

RestTyped ==
  /\ ClusterTypeOK
  /\ runtimes \in [Names -> Runtime]
  /\ recorded \subseteq Names
  /\ edits \in 0..MaxEdits /\ faults \in 0..MaxFaults

Inv ==
  /\ RestTyped /\ RunIsSound /\ AppliedIsKnown /\ KeptIsRecorded /\ KeptIsDeployed
  /\ CopyIsRecorded /\ TodoIsHarmless /\ DeploymentProgress

-----------------------------------------------------------------------------
(* Constants. *)

LEMMA ConstantFacts ==
  /\ NoCache \in Cache /\ NoSpec \notin Specs
  /\ \A spec \in Specs : /\ spec.spaces \subseteq Spaces /\ spec.account \in Accounts
                         /\ spec.repo \in Repos /\ spec.account # NoAccount
  /\ EmptyUsage(FALSE) \in Usage /\ EmptyUsage(TRUE) \in Usage
  /\ NoRuntime \in Runtime
  /\ NoRuntime.phase = "none" /\ NoRuntime.applied = NoSpec /\ NoRuntime.cache = NoCache
<1>1. NoCache \in Cache
  BY DEF NoCache, Cache
<1>2. \A spec \in Specs : /\ spec.spaces \subseteq Spaces /\ spec.account \in Accounts
                          /\ spec.repo \in Repos /\ spec.account # NoAccount
  BY SpecsAssumption
<1>3. NoSpec \notin Specs
  BY <1>2 DEF NoSpec
<1>4. ASSUME NEW known \in BOOLEAN PROVE EmptyUsage(known) \in Usage
  BY DEF EmptyUsage, Usage
<1>5. /\ NoRuntime \in Runtime
      /\ NoRuntime.phase = "none" /\ NoRuntime.applied = NoSpec /\ NoRuntime.cache = NoCache
  BY <1>1 DEF NoRuntime, Runtime
<1> QED BY <1>1, <1>2, <1>3, <1>4, <1>5

LEMMA IdleFacts ==
  /\ Idle \in RunType /\ Idle.pc = "idle" /\ Idle.rt = NoName /\ Idle.op = "none"
  /\ NoName \notin Names
<1>1. NoCache \in Cache /\ EmptyUsage(FALSE) \in Usage
  BY ConstantFacts
<1>2. Idle \in RunType
  BY <1>1 DEF Idle, RunType, PC
<1> QED BY <1>2, SpecsAssumption DEF Idle

LEMMA GoToFacts ==
  ASSUME run \in RunType, NEW pc \in PC, NEW todo \in SUBSET (Spaces \cup Repos)
  PROVE  LET g == GoTo(pc, todo)
         IN /\ g \in RunType /\ g.pc = pc /\ g.todo = todo
            /\ g.op = run.op /\ g.rt = run.rt /\ g.spec = run.spec /\ g.old = run.old
            /\ g.new = run.new /\ g.usage = run.usage /\ g.failed = run.failed
            /\ g.stale = run.stale
  BY DEF RunType, GoTo

LEMMA FailedFacts ==
  ASSUME run \in RunType
  PROVE  /\ Failed \in RunType /\ Failed.pc = "saveUsage" /\ Failed.todo = {} /\ Failed.failed
         /\ Failed.op = run.op /\ Failed.rt = run.rt /\ Failed.spec = run.spec
         /\ Failed.old = run.old /\ Failed.new = run.new /\ Failed.usage = run.usage
<1>1. "saveUsage" \in PC /\ {} \in SUBSET (Spaces \cup Repos) /\ TRUE \in BOOLEAN
  BY DEF PC
<1> QED BY <1>1 DEF RunType, Failed

LEMMA TypedIsTypeOK == RestTyped /\ RunIsSound => TypeOK
<1> SUFFICES ASSUME RestTyped, RunIsSound PROVE TypeOK
  OBVIOUS
<1>1. /\ run.pc \in PC /\ run.op \in {"none", "deploy", "delete"}
      /\ run.rt \in Names \cup {NoName} /\ run.spec \in Specs \cup {NoSpec}
      /\ run.old \in Cache /\ run.new \in Cache /\ run.usage \in Usage
      /\ run.todo \subseteq Spaces \cup Repos
      /\ run.failed \in BOOLEAN /\ run.stale \in BOOLEAN
  BY DEF RunIsSound, RunType
<1>2. run.pc = "idle" <=> run.rt = NoName
  BY DEF RunIsSound
<1> QED BY <1>1, <1>2 DEF TypeOK, RestTyped

-----------------------------------------------------------------------------
(* Steps of a reconcile in general. *)

\* The runtime a reconcile is about, and what it has read.
SameReconcile ==
  /\ run'.op = run.op /\ run'.rt = run.rt /\ run'.spec = run.spec /\ run'.old = run.old

LEMMA KeptIsSame ==
  ASSUME UNCHANGED <<runtimes, recorded>>, NEW r
  PROVE  /\ Kept(r)' <=> Kept(r)
         /\ Applied(r)' <=> Applied(r)
         /\ SpecOf(r)' = SpecOf(r)
  BY DEF Kept, Applied, SpecOf

LEMMA KeptHasSpec ==
  ASSUME Inv, NEW r \in Names, Applied(r)
  PROVE  SpecOf(r) \in Specs
  BY DEF Inv, RestTyped, Applied, SpecOf, Runtime

\* A call, which leaves the objects and the usage record alone.
LEMMA CallStep ==
  ASSUME Inv, Copied, UNCHANGED <<usage, runtimes, recorded, edits>>, faults' \in 0..MaxFaults,
         ClusterTypeOK', KeptIsDeployed', SameReconcile,
         run'.usage = run.usage, run'.new.account = run.new.account,
         RunIsSound', TodoIsHarmless', DeploymentProgress'
  PROVE  Inv'
<1>1. RestTyped'
  BY DEF Inv, RestTyped
<1>2. AppliedIsKnown'
  BY KeptIsSame DEF Inv, AppliedIsKnown, SameReconcile, Deleting
<1>3. KeptIsRecorded'
  BY KeptIsSame DEF Inv, KeptIsRecorded, UsesAreUnique, InRecord, RecordedSpaces, RecordedPerm
<1>4. CopyIsRecorded'
  BY KeptIsSame
  DEF Inv, CopyIsRecorded, UsesAreUnique, InRecord, RecordedSpaces, RecordedPerm
<1> QED BY <1>1, <1>2, <1>3, <1>4 DEF Inv

LEMMA FailedStep ==
  ASSUME Inv, run.pc \in Calls, run' = Failed, faults' \in 0..MaxFaults,
         UNCHANGED <<usage, runtimes, recorded, edits>>, ClusterTypeOK', KeptIsDeployed'
  PROVE  Inv'
<1>1. /\ run' \in RunType /\ run'.pc = "saveUsage" /\ run'.todo = {} /\ run'.failed
      /\ run'.op = run.op /\ run'.rt = run.rt /\ run'.spec = run.spec
      /\ run'.old = run.old /\ run'.new = run.new /\ run'.usage = run.usage
  BY FailedFacts DEF Inv, RunIsSound
<1>2. Copied /\ run.pc # "idle"
  BY DEF Calls, Copied, PC
<1>3. RunIsSound'
  BY <1>1, <1>2
  DEF Inv, RunIsSound, Deploying, Deleting, DeployPCs, DeletePCs, Leaving, FromUsage,
      FromProduct, FromProject, FromSpaces, FromAccount, FromUsers, FromRole, FromGranted,
      FromSaved
<1>4. TodoIsHarmless'
  BY <1>1 DEF TodoIsHarmless, At, Ending
<1>5. DeploymentProgress'
  BY <1>1 DEF DeploymentProgress
<1> QED BY <1>1, <1>2, <1>3, <1>4, <1>5, CallStep DEF SameReconcile

LEMMA AnswerStep ==
  ASSUME Inv, run.pc \in Calls, NEW next, Answer(next),
         UNCHANGED <<usage, runtimes, recorded, edits>>, ClusterTypeOK', KeptIsDeployed',
         run' = next => /\ SameReconcile /\ run'.usage = run.usage
                        /\ run'.new.account = run.new.account
                        /\ RunIsSound' /\ TodoIsHarmless' /\ DeploymentProgress'
  PROVE  Inv'
<1>1. faults' \in 0..MaxFaults
  BY SpecsAssumption DEF Answer, Fault, Inv, RestTyped
<1>2. CASE run' = next
  <2>1. Copied
    BY DEF Calls, Copied, PC
  <2> QED BY <1>1, <1>2, <2>1, CallStep
<1>3. CASE run' = Failed
  BY <1>1, <1>3, FailedStep
<1> QED BY <1>2, <1>3 DEF Answer

\* Nothing that is kept is touched.
LEMMA KeptStays ==
  ASSUME Inv, UNCHANGED <<runtimes, recorded>>,
         \A r \in Names : \A spec \in Specs :
           Kept(r) /\ SpecOf(r) = spec /\ DeployedAs(r, spec) => DeployedAs(r, spec)'
  PROVE  KeptIsDeployed'
<1> SUFFICES ASSUME NEW r \in Names, Kept(r)' PROVE DeployedAs(r, SpecOf(r))'
  BY DEF KeptIsDeployed
<1>1. Kept(r) /\ SpecOf(r)' = SpecOf(r)
  BY KeptIsSame
<1>2. SpecOf(r) \in Specs
  BY <1>1, KeptHasSpec DEF Kept
<1>3. DeployedAs(r, SpecOf(r))
  BY <1>1 DEF Inv, KeptIsDeployed
<1> DEFINE spec == SpecOf(r)
<1>4. PICK s \in Specs : s = SpecOf(r)
  BY <1>2
<1>5. DeployedAs(r, s)'
  BY <1>1, <1>3, <1>4
<1> QED BY <1>1, <1>4, <1>5

-----------------------------------------------------------------------------
(* Users. *)

LEMMA TouchFacts ==
  ASSUME run \in RunType, NEW r, Touch(r)
  PROVE  /\ run' \in RunType /\ run'.pc = run.pc /\ run'.todo = run.todo /\ run'.new = run.new
         /\ run'.usage = run.usage /\ run'.failed = run.failed /\ SameReconcile
<1>1. (run.stale \/ run.rt = r) \in BOOLEAN
  BY DEF RunType
<1> QED BY <1>1 DEF Touch, RunType, SameReconcile

\* A user changes objects: what they do not leave as it was is not applied.
LEMMA UserStep ==
  ASSUME Inv, UNCHANGED <<clusterVars, recorded, faults>>, edits' \in 0..MaxEdits,
         NEW r \in Names, Touch(r), runtimes' \in [Names -> Runtime],
         \A x \in Names : /\ runtimes'[x].phase # "none" => runtimes'[x].spec \in Specs
                          /\ runtimes[x].phase = "deleting" => runtimes'[x].phase = "deleting"
                          /\ runtimes'[x].phase = "live" /\ runtimes'[x].applied # NoSpec =>
                               /\ runtimes[x].phase = "live"
                               /\ runtimes'[x].applied = runtimes[x].applied
                               /\ runtimes'[x].cache = runtimes[x].cache
  PROVE  Inv'
<1> USE DEF clusterVars
<1>1. /\ run' \in RunType /\ run'.pc = run.pc /\ run'.todo = run.todo /\ run'.new = run.new
      /\ run'.usage = run.usage /\ run'.failed = run.failed /\ SameReconcile
  BY TouchFacts DEF Inv, RunIsSound
<1>2. \A x \in Names : Kept(x)' => Kept(x) /\ SpecOf(x)' = SpecOf(x)
  BY DEF Kept, Applied, SpecOf
<1>3. RestTyped'
  BY DEF Inv, RestTyped, ClusterTypeOK
<1>4. RunIsSound'
  BY <1>1 DEF Inv, RunIsSound, SameReconcile, Deploying, Deleting
<1>5. AppliedIsKnown'
  BY <1>1 DEF Inv, AppliedIsKnown, SameReconcile, Deleting, Applied, SpecOf
<1>6. KeptIsRecorded'
  BY <1>2 DEF Inv, KeptIsRecorded, UsesAreUnique, InRecord, RecordedSpaces, RecordedPerm
<1>7. KeptIsDeployed'
  BY <1>2 DEF Inv, KeptIsDeployed, DeployedAs, Operable, HasSpaces, HasUsers, HasRole, HasPerm
<1>8. CopyIsRecorded'
  BY <1>1, <1>2
  DEF Inv, CopyIsRecorded, Copied, UsesAreUnique, InRecord, RecordedSpaces, RecordedPerm
<1>9. TodoIsHarmless'
  BY <1>1, <1>2 DEF Inv, TodoIsHarmless, At, SameReconcile
<1>10. DeploymentProgress'
  BY <1>1
  DEF Inv, DeploymentProgress, At, SameReconcile, Deploying, Operable, HasSpaces, HasUsers,
      HasRole, HasPerm, InRecord, RecordedSpaces, RecordedUse, RecordedPerm
<1> QED BY <1>3, <1>4, <1>5, <1>6, <1>7, <1>8, <1>9, <1>10 DEF Inv

LEMMA EditedFacts ==
  ASSUME Inv, Edited
  PROVE  edits' \in 0..MaxEdits /\ UNCHANGED <<clusterVars, recorded, faults>>
  BY SpecsAssumption DEF Edited, Inv, RestTyped

LEMMA UserKeepsInv ==
  ASSUME Inv, User
  PROVE  Inv'
<1>1. PICK r \in Names : \/ \E spec \in Specs : CreateRuntime(r, spec) \/ EditRuntime(r, spec)
                         \/ DeleteRuntime(r)
  BY DEF User
<1>2. Touch(r) /\ Edited
  BY <1>1 DEF CreateRuntime, EditRuntime, DeleteRuntime
<1>3. runtimes \in [Names -> Runtime]
  BY DEF Inv, RestTyped
<1>4. ASSUME NEW o \in Runtime, runtimes' = [runtimes EXCEPT ![r] = o],
             o.phase # "none" => o.spec \in Specs,
             runtimes[r].phase # "deleting",
             o.phase = "live" /\ o.applied # NoSpec =>
               /\ runtimes[r].phase = "live"
               /\ o.applied = runtimes[r].applied /\ o.cache = runtimes[r].cache
      PROVE  Inv'
  <2>1. /\ runtimes' \in [Names -> Runtime] /\ runtimes'[r] = o
        /\ \A x \in Names \ {r} : runtimes'[x] = runtimes[x]
    BY <1>3, <1>4
  <2>2. \A x \in Names : runtimes[x].phase # "none" => runtimes[x].spec \in Specs
    BY DEF Inv, AppliedIsKnown
  <2> QED BY <1>2, <1>4, <2>1, <2>2, EditedFacts, UserStep
<1>5. ASSUME NEW spec \in Specs, CreateRuntime(r, spec) PROVE Inv'
  <2> DEFINE o == [NoRuntime EXCEPT !.phase = "live", !.spec = spec]
  <2>1. o \in Runtime /\ o.phase = "live" /\ o.spec = spec /\ o.applied = NoSpec
    BY ConstantFacts DEF NoRuntime, Runtime
  <2>2. runtimes' = [runtimes EXCEPT ![r] = o] /\ runtimes[r].phase = "none"
    BY <1>5 DEF CreateRuntime
  <2> HIDE DEF o
  <2> QED BY <1>4, <2>1, <2>2
<1>6. ASSUME NEW spec \in Specs, EditRuntime(r, spec) PROVE Inv'
  <2> DEFINE o == [runtimes[r] EXCEPT !.spec = spec]
  <2>1. runtimes' = [runtimes EXCEPT ![r] = o] /\ runtimes[r].phase = "live"
    BY <1>6 DEF EditRuntime
  <2>2. /\ o \in Runtime /\ o.phase = runtimes[r].phase /\ o.spec = spec
        /\ o.applied = runtimes[r].applied /\ o.cache = runtimes[r].cache
    BY <1>3 DEF Runtime
  <2> HIDE DEF o
  <2> QED BY <1>4, <2>1, <2>2
<1>7. CASE DeleteRuntime(r)
  <2> DEFINE o == IF runtimes[r].finalizer THEN [runtimes[r] EXCEPT !.phase = "deleting"]
                  ELSE NoRuntime
  <2>1. runtimes' = [runtimes EXCEPT ![r] = o] /\ runtimes[r].phase = "live"
    BY <1>7 DEF DeleteRuntime
  <2>2. o \in Runtime /\ o.phase # "live" /\ (o.phase # "none" => o.spec = runtimes[r].spec)
    BY <1>3, ConstantFacts DEF Runtime
  <2>3. runtimes[r].spec \in Specs
    BY <2>1 DEF Inv, AppliedIsKnown
  <2> HIDE DEF o
  <2> QED BY <1>4, <2>1, <2>2, <2>3
<1> QED BY <1>1, <1>5, <1>6, <1>7

-----------------------------------------------------------------------------
(* The beginning and the end of a reconcile. *)

LEMMA InitInv == Init => Inv
<1> SUFFICES ASSUME Init PROVE Inv
  OBVIOUS
<1>1. run = Idle /\ run \in RunType /\ run.pc = "idle" /\ run.rt = NoName /\ run.op = "none"
      /\ NoName \notin Names
  BY IdleFacts DEF Init
<1>2. \A r \in Names : runtimes[r].phase = "none"
  BY ConstantFacts DEF Init
<1>3. RestTyped
  <2>1. NoRole \in Role /\ EmptyUsage(FALSE) \in Usage /\ NoRuntime \in Runtime
    BY ConstantFacts DEF NoRole, Role
  <2>2. 0 \in 0..MaxEdits /\ MaxFaults \in 0..MaxFaults
    BY SpecsAssumption
  <2> QED BY <2>1, <2>2 DEF Init, ClusterInit, RestTyped, ClusterTypeOK
<1>4. RunIsSound
  BY <1>1 DEF RunIsSound, Leaving
<1>5. \A r \in Names : ~Applied(r)
  BY <1>2 DEF Applied
<1>6. AppliedIsKnown /\ KeptIsDeployed /\ CopyIsRecorded /\ TodoIsHarmless /\ DeploymentProgress
  BY <1>1, <1>2, <1>5
  DEF AppliedIsKnown, KeptIsDeployed, CopyIsRecorded, Copied, TodoIsHarmless, Kept,
      DeploymentProgress, Deploying
<1>7. KeptIsRecorded
  BY <1>5 DEF Init, ClusterInit, EmptyUsage, KeptIsRecorded, UsesAreUnique, Kept
<1> QED BY <1>3, <1>4, <1>6, <1>7 DEF Inv

\* The reconcile ends, or is lost: nothing is in progress.
LEMMA IdleStep ==
  ASSUME Inv, run' = Idle, faults' \in 0..MaxFaults,
         UNCHANGED <<clusterVars, runtimes, recorded, edits>>
  PROVE  Inv'
<1> USE DEF clusterVars
<1>1. run' \in RunType /\ run'.pc = "idle" /\ run'.rt = NoName /\ run'.op = "none"
      /\ NoName \notin Names
  BY IdleFacts
<1>2. RestTyped'
  BY DEF Inv, RestTyped, ClusterTypeOK
<1>3. RunIsSound'
  BY <1>1 DEF RunIsSound, Leaving
<1>4. AppliedIsKnown'
  BY <1>1, KeptIsSame DEF Inv, AppliedIsKnown
<1>5. KeptIsRecorded' /\ KeptIsDeployed'
  BY KeptIsSame
  DEF Inv, KeptIsRecorded, UsesAreUnique, InRecord, RecordedSpaces, RecordedPerm,
      KeptIsDeployed, DeployedAs, Operable, HasSpaces, HasUsers, HasRole, HasPerm
<1>6. CopyIsRecorded' /\ TodoIsHarmless' /\ DeploymentProgress'
  BY <1>1 DEF CopyIsRecorded, Copied, TodoIsHarmless, At, Ending, DeploymentProgress, Deploying
<1> QED BY <1>2, <1>3, <1>4, <1>5, <1>6 DEF Inv

LEMMA FaultFacts ==
  ASSUME Inv
  PROVE  /\ Fault => faults' \in 0..MaxFaults
         /\ UNCHANGED faults => faults' \in 0..MaxFaults
  BY SpecsAssumption DEF Inv, RestTyped, Fault

LEMMA CrashKeepsInv ==
  ASSUME Inv, Crash
  PROVE  Inv'
  BY FaultFacts, IdleStep DEF Crash

LEMMA CallFailsKeepsInv ==
  ASSUME Inv, CallFails
  PROVE  Inv'
<1>1. KeptIsDeployed' /\ ClusterTypeOK'
  BY KeptIsSame
  DEF CallFails, clusterVars, Inv, RestTyped, ClusterTypeOK, KeptIsDeployed, DeployedAs,
      Operable, HasSpaces, HasUsers, HasRole, HasPerm
<1> QED BY <1>1, FaultFacts, FailedStep DEF CallFails, clusterVars

\* A step outside the calls: what it does not leave as it was is not applied.
LEMMA OutsideStep ==
  ASSUME Inv, UNCHANGED <<clusterVars, recorded, edits>>, faults' \in 0..MaxFaults,
         runtimes' \in [Names -> Runtime], RunIsSound',
         \/ run'.pc \in {"idle", "addFinalizer", "getUsage", "removeFinalizer"}
         \/ run'.pc = "saveStatus" /\ run'.failed,
         \A x \in Names : /\ runtimes'[x].phase # "none" => runtimes'[x].spec \in Specs
                          /\ Applied(x)' => /\ Applied(x) /\ SpecOf(x)' = SpecOf(x)
                                            /\ runtimes'[x].cache = runtimes[x].cache,
         \A x \in Names : run'.rt = x =>
           /\ Deleting' => runtimes'[x].phase = "deleting"
           /\ Applied(x)' =>
                /\ SpecOf(x)' = run'.spec
                /\ run'.old.account = run'.spec.account /\ run'.new.account = run'.spec.account
  PROVE  Inv'
<1> USE DEF clusterVars
<1>1. \A x \in Names : Kept(x)' => Kept(x) /\ SpecOf(x)' = SpecOf(x)
  BY DEF Kept
<1>2. RestTyped'
  BY DEF Inv, RestTyped, ClusterTypeOK
<1>3. AppliedIsKnown'
  <2>1. \A x \in Names : Applied(x)' => runtimes'[x].cache.account = SpecOf(x)'.account
    BY DEF Inv, AppliedIsKnown
  <2>2. \A x \in Names : run'.rt = x =>
           /\ Deleting' => runtimes'[x].phase = "deleting"
           /\ Applied(x)' =>
                /\ SpecOf(x)' = run'.spec
                /\ run'.old.account = run'.spec.account /\ run'.new.account = run'.spec.account
    OBVIOUS
  <2> QED BY <2>1, <2>2 DEF AppliedIsKnown, SpecOf, Applied
<1>4. KeptIsRecorded'
  BY <1>1 DEF Inv, KeptIsRecorded, UsesAreUnique, InRecord, RecordedSpaces, RecordedPerm
<1>5. KeptIsDeployed'
  BY <1>1 DEF Inv, KeptIsDeployed, DeployedAs, Operable, HasSpaces, HasUsers, HasRole, HasPerm
<1>6. CopyIsRecorded' /\ TodoIsHarmless'
  BY DEF CopyIsRecorded, Copied, TodoIsHarmless, At, Ending
<1>7. DeploymentProgress'
  BY DEF DeploymentProgress, At, FromUsage, FromProduct, FromProject, FromSpaces, FromAccount,
         FromUsers, FromRole, FromGranted, FromSaved, Leaving
<1> QED BY <1>2, <1>3, <1>4, <1>5, <1>6, <1>7 DEF Inv

LEMMA ReconcileKeepsInv ==
  ASSUME Inv, NEW r \in Names, Reconcile(r)
  PROVE  Inv'
<1>1. runtimes \in [Names -> Runtime] /\ runtimes[r].phase # "none" /\ runtimes[r].spec \in Specs
  BY DEF Inv, RestTyped, AppliedIsKnown, Reconcile
<1>2. /\ run'.rt = r /\ run'.pc \in {"getUsage", "addFinalizer"}
      /\ run'.op = (IF runtimes[r].phase = "live" THEN "deploy" ELSE "delete")
      /\ run'.spec = runtimes[r].spec /\ run'.old = runtimes[r].cache /\ run'.new = runtimes[r].cache
      /\ run' \in RunType
  <2>1. runtimes[r].cache \in Cache
    BY <1>1 DEF Runtime
  <2>2. Idle \in RunType
    BY IdleFacts
  <2>3. "getUsage" \in PC /\ "addFinalizer" \in PC
    BY DEF PC
  <2> QED BY <1>1, <2>1, <2>2, <2>3 DEF Reconcile, Idle, RunType
<1>3. RunIsSound'
  <2>1. run'.pc \notin Leaving /\ run'.pc # "idle" /\ run'.rt # NoName
    BY <1>2, IdleFacts DEF Leaving
  <2>2. \/ Deploying' /\ run'.pc \in DeployPCs
        \/ Deleting' /\ run'.pc \in DeletePCs
    BY <1>2 DEF Deploying, Deleting, DeployPCs, DeletePCs
  <2> QED BY <1>1, <1>2, <2>1, <2>2 DEF RunIsSound
<1> DEFINE o == [runtimes[r] EXCEPT !.applied = IF @ = runtimes[r].spec THEN @ ELSE NoSpec]
<1>4. /\ o \in Runtime /\ o.phase = runtimes[r].phase /\ o.spec = runtimes[r].spec
      /\ o.cache = runtimes[r].cache
      /\ o.applied # NoSpec => o.applied = runtimes[r].applied /\ o.applied = runtimes[r].spec
  BY <1>1 DEF Runtime
<1>5. runtimes' = [runtimes EXCEPT ![r] = o]
  BY DEF Reconcile
<1>6. runtimes' \in [Names -> Runtime] /\ runtimes'[r] = o
      /\ \A x \in Names \ {r} : runtimes'[x] = runtimes[x]
  <2> HIDE DEF o
  <2> QED BY <1>1, <1>4, <1>5
<1> HIDE DEF o
<1>7. \A x \in Names : /\ runtimes'[x].phase # "none" => runtimes'[x].spec \in Specs
                       /\ Applied(x)' => /\ Applied(x) /\ SpecOf(x)' = SpecOf(x)
                                         /\ runtimes'[x].cache = runtimes[x].cache
  BY <1>4, <1>6 DEF Inv, AppliedIsKnown, Applied, SpecOf
<1>8. Applied(r)' =>
        /\ SpecOf(r)' = run'.spec
        /\ run'.old.account = run'.spec.account /\ run'.new.account = run'.spec.account
  BY <1>2, <1>4, <1>6, <1>7 DEF Inv, AppliedIsKnown, Applied, SpecOf
<1>9. Deleting' => runtimes'[r].phase = "deleting"
  <2>1. runtimes[r].phase \in {"none", "live", "deleting"}
    BY <1>1 DEF Runtime
  <2> QED BY <1>1, <1>2, <1>4, <1>6, <2>1 DEF Deleting
<1>10. /\ UNCHANGED <<clusterVars, recorded, edits>> /\ faults' \in 0..MaxFaults
  BY FaultFacts DEF Reconcile
<1> QED BY <1>2, <1>3, <1>6, <1>7, <1>8, <1>9, <1>10, OutsideStep

\* The run is about one of the runtimes.
LEMMA RunFacts ==
  ASSUME Inv, run.pc # "idle"
  PROVE  /\ run \in RunType /\ run.rt \in Names /\ run.rt # NoName /\ run.spec \in Specs
         /\ run.usage \in Usage /\ run.old \in Cache /\ run.new \in Cache
         /\ run.todo \subseteq Spaces \cup Repos
         /\ runtimes \in [Names -> Runtime] /\ runtimes[run.rt] \in Runtime
         /\ Deploying <=> ~Deleting
         /\ Deploying => run.pc \in DeployPCs
         /\ Deleting => run.pc \in DeletePCs
         /\ Deleting => runtimes[run.rt].phase = "deleting" /\ ~Applied(run.rt)
         /\ Applied(run.rt) =>
              /\ SpecOf(run.rt) = run.spec
              /\ run.old.account = run.spec.account /\ run.new.account = run.spec.account
<1>1. run \in RunType /\ run.rt # NoName /\ run.spec \in Specs
  BY DEF Inv, RunIsSound
<1>2. run.rt \in Names /\ run.usage \in Usage /\ run.old \in Cache /\ run.new \in Cache
      /\ run.todo \subseteq Spaces \cup Repos
  BY <1>1 DEF RunType
<1>3. runtimes \in [Names -> Runtime] /\ runtimes[run.rt] \in Runtime
  BY <1>2 DEF Inv, RestTyped
<1>4. /\ Deploying <=> ~Deleting
      /\ Deploying => run.pc \in DeployPCs
      /\ Deleting => run.pc \in DeletePCs
  BY DEF Inv, RunIsSound, Deploying, Deleting
<1>5. /\ Deleting => runtimes[run.rt].phase = "deleting" /\ ~Applied(run.rt)
      /\ Applied(run.rt) =>
           /\ SpecOf(run.rt) = run.spec
           /\ run.old.account = run.spec.account /\ run.new.account = run.spec.account
  BY <1>2 DEF Inv, AppliedIsKnown, Applied
<1> QED BY <1>1, <1>2, <1>3, <1>4, <1>5

\* The reconcile goes on outside the calls, and takes its object off or not.
LEMMA GoesOnOutside ==
  ASSUME Inv, run.pc # "idle", UNCHANGED <<clusterVars, recorded, edits>>, faults' \in 0..MaxFaults,
         NEW o \in Runtime, runtimes' = [runtimes EXCEPT ![run.rt] = o],
         \/ o.phase = "none" /\ run'.pc = "idle"
         \/ /\ o.phase = runtimes[run.rt].phase /\ o.spec = runtimes[run.rt].spec
            /\ o.cache = runtimes[run.rt].cache /\ o.applied = runtimes[run.rt].applied,
         RunIsSound',
         \/ run'.pc = "idle"
         \/ /\ SameReconcile /\ run'.new = run.new
            /\ \/ run'.pc \in {"getUsage", "removeFinalizer"}
               \/ run'.pc = "saveStatus" /\ run'.failed
  PROVE  Inv'
<1>1. /\ runtimes' \in [Names -> Runtime] /\ runtimes'[run.rt] = o
      /\ \A x \in Names \ {run.rt} : runtimes'[x] = runtimes[x]
  BY RunFacts
<1>2. \A x \in Names : /\ runtimes'[x].phase # "none" => runtimes'[x].spec \in Specs
                       /\ Applied(x)' => /\ Applied(x) /\ SpecOf(x)' = SpecOf(x)
                                         /\ runtimes'[x].cache = runtimes[x].cache
  BY <1>1 DEF Inv, AppliedIsKnown, Applied, SpecOf
<1>3. CASE run'.pc = "idle"
  <2>1. run'.rt = NoName /\ NoName \notin Names
    BY <1>3, IdleFacts DEF RunIsSound
  <2> QED BY <1>1, <1>2, <1>3, <2>1, OutsideStep
<1>4. CASE /\ SameReconcile /\ run'.new = run.new
           /\ \/ run'.pc \in {"getUsage", "removeFinalizer"}
              \/ run'.pc = "saveStatus" /\ run'.failed
  <2>1. run'.rt = run.rt /\ run'.op = run.op /\ run'.spec = run.spec /\ run'.old = run.old
    BY <1>4 DEF SameReconcile
  <2>2. Deleting' => runtimes'[run.rt].phase = "deleting"
    BY <1>1, <1>4, <2>1, RunFacts DEF Deleting
  <2>3. Applied(run.rt) =>
          /\ SpecOf(run.rt) = run.spec
          /\ run.old.account = run.spec.account /\ run.new.account = run.spec.account
    BY RunFacts
  <2>4. (runtimes'[run.rt].phase = "live" /\ runtimes'[run.rt].applied # NoSpec) =>
          /\ runtimes'[run.rt].applied = run.spec
          /\ run.old.account = run.spec.account /\ run.new.account = run.spec.account
    BY <1>1, <1>4, <2>3 DEF Applied, SpecOf
  <2>5. \A x \in Names : run'.rt = x =>
           /\ Deleting' => runtimes'[x].phase = "deleting"
           /\ Applied(x)' =>
                /\ SpecOf(x)' = run'.spec
                /\ run'.old.account = run'.spec.account /\ run'.new.account = run'.spec.account
    BY <1>4, <2>1, <2>2, <2>4 DEF Applied, SpecOf
  <2> QED BY <1>1, <1>2, <1>4, <2>5, OutsideStep
<1> QED BY <1>3, <1>4

\* The reconcile goes on at another step of its course.
LEMMA GoesOn ==
  ASSUME Inv, run.pc # "idle", run' \in RunType, SameReconcile,
         run'.pc \in PC \ {"idle"},
         Deploying => run'.pc \in DeployPCs, Deleting => run'.pc \in DeletePCs,
         run'.pc \in Leaving =>
           \/ run.pc \in Leaving
           \/ run.old.account \in Accounts /\ (Deploying => run.old.account # run.spec.account)
  PROVE  RunIsSound'
<1>1. run.rt # NoName /\ run.spec \in Specs /\ (Deploying \/ Deleting)
  BY RunFacts
<1>2. run'.pc \in Leaving =>
        run.old.account \in Accounts /\ (Deploying => run.old.account # run.spec.account)
  BY DEF Inv, RunIsSound
<1> QED BY <1>1, <1>2 DEF RunIsSound, SameReconcile, Deploying, Deleting

LEMMA AddFinalizerKeepsInv ==
  ASSUME Inv, AddFinalizer
  PROVE  Inv'
<1>1. run.pc = "addFinalizer"
  BY DEF AddFinalizer, At
<1>2. CASE run' = Idle /\ UNCHANGED runtimes
  BY <1>2, FaultFacts, IdleStep DEF AddFinalizer
<1>3. CASE runtimes' = [runtimes EXCEPT ![run.rt].finalizer = TRUE] /\ run' = GoTo("getUsage", {})
           /\ UNCHANGED faults
  <2> DEFINE o == [runtimes[run.rt] EXCEPT !.finalizer = TRUE]
  <2>1. /\ o \in Runtime /\ o.phase = runtimes[run.rt].phase /\ o.spec = runtimes[run.rt].spec
        /\ o.cache = runtimes[run.rt].cache /\ o.applied = runtimes[run.rt].applied
    BY <1>1, RunFacts DEF Runtime
  <2>2. runtimes' = [runtimes EXCEPT ![run.rt] = o]
    BY <1>3
  <2>3. "getUsage" \in PC /\ {} \in SUBSET (Spaces \cup Repos)
    BY DEF PC
  <2>4. /\ run' \in RunType /\ run'.pc = "getUsage" /\ SameReconcile /\ run'.new = run.new
    BY <1>1, <1>3, <2>3, RunFacts, GoToFacts DEF SameReconcile
  <2>5. RunIsSound'
    BY <1>1, <2>3, <2>4, GoesOn DEF DeployPCs, DeletePCs, Leaving
  <2>7. UNCHANGED <<clusterVars, recorded, edits>> /\ faults' \in 0..MaxFaults
    BY <1>3, FaultFacts DEF AddFinalizer
  <2> HIDE DEF o
  <2> QED BY <1>1, <2>1, <2>2, <2>4, <2>5, <2>7, GoesOnOutside
<1> QED BY <1>2, <1>3 DEF AddFinalizer

LEMMA RemoveFinalizerKeepsInv ==
  ASSUME Inv, RemoveFinalizer
  PROVE  Inv'
<1>1. run.pc = "removeFinalizer" /\ run' = Idle
  BY DEF RemoveFinalizer, At
<1>2. CASE UNCHANGED runtimes
  BY <1>1, <1>2, FaultFacts, IdleStep DEF RemoveFinalizer
<1>3. CASE runtimes' = [runtimes EXCEPT ![run.rt] = NoRuntime] /\ UNCHANGED faults
  <2>1. NoRuntime \in Runtime /\ NoRuntime.phase = "none"
    BY ConstantFacts
  <2>2. run' \in RunType /\ run'.pc = "idle" /\ run'.rt = NoName
    BY <1>1, IdleFacts
  <2>3. RunIsSound'
    BY <2>2 DEF RunIsSound, Leaving
  <2>4. UNCHANGED <<clusterVars, recorded, edits>> /\ faults' \in 0..MaxFaults
    BY <1>3, FaultFacts DEF RemoveFinalizer
  <2> QED BY <1>1, <1>3, <2>1, <2>2, <2>3, <2>4, GoesOnOutside
<1> QED BY <1>2, <1>3 DEF RemoveFinalizer

\* The last write of the status: a deployment that has not failed is applied.
LEMMA SaveStatusKeepsInv ==
  ASSUME Inv, SaveStatus
  PROVE  Inv'
<1> USE DEF clusterVars
<1>1. run.pc = "saveStatus" /\ run' = Idle
  BY DEF SaveStatus, At
<1>2. CASE UNCHANGED runtimes
  BY <1>1, <1>2, FaultFacts, IdleStep DEF SaveStatus
<1>3. CASE ~UNCHANGED runtimes
  <2>0. PICK r \in Names : r = run.rt
    BY <1>1, RunFacts
  <2> DEFINE o == [runtimes[run.rt] EXCEPT !.cache = run.new,
                       !.applied = IF Deploying /\ ~run.failed THEN run.spec ELSE @]
  <2>1. run' \in RunType /\ run'.pc = "idle" /\ run'.rt = NoName /\ run'.op = "none"
        /\ NoName \notin Names
    BY <1>1, IdleFacts
  <2>2. run.rt \in Names /\ run.spec \in Specs /\ run.new \in Cache
        /\ runtimes[run.rt] \in Runtime /\ runtimes \in [Names -> Runtime]
    BY <1>1, RunFacts
  <2>3. runtimes' = [runtimes EXCEPT ![r] = o] /\ UNCHANGED faults
    BY <1>3, <2>0 DEF SaveStatus
  <2>4. /\ o \in Runtime /\ o.phase = runtimes[r].phase /\ o.spec = runtimes[r].spec
        /\ o.cache = run.new
        /\ o.applied = IF Deploying /\ ~run.failed THEN run.spec ELSE runtimes[r].applied
    BY <2>0, <2>2 DEF Runtime
  <2> HIDE DEF o
  <2>5. /\ runtimes' \in [Names -> Runtime] /\ runtimes'[r] = o
        /\ \A x \in Names \ {r} : runtimes'[x] = runtimes[x]
    BY <2>0, <2>2, <2>3, <2>4
  <2>6. \A x \in Names \ {r} : (Kept(x)' <=> Kept(x)) /\ (Applied(x)' <=> Applied(x))
                                    /\ SpecOf(x)' = SpecOf(x)
    BY <2>5 DEF SaveStatus, Kept, Applied, SpecOf
  <2>7. RestTyped'
    BY <2>3, <2>5 DEF SaveStatus, Inv, RestTyped, ClusterTypeOK
  <2>8. RunIsSound'
    BY <2>1 DEF RunIsSound, Leaving
  <2>9. CopyIsRecorded' /\ TodoIsHarmless' /\ DeploymentProgress'
    BY <2>1 DEF CopyIsRecorded, Copied, TodoIsHarmless, At, Ending, DeploymentProgress, Deploying
  <2>10. CASE Deploying /\ ~run.failed
    <3>1. SpecOf(r)' = run.spec
      BY <2>4, <2>5, <2>10 DEF SpecOf
    <3>2. run.new.account = run.spec.account
      BY <1>1, <2>10 DEF Inv, DeploymentProgress, FromSaved
    <3>3. AppliedIsKnown'
      <4>1. \A x \in Names : runtimes'[x].phase # "none" => runtimes'[x].spec \in Specs
        BY <2>4, <2>5 DEF Inv, AppliedIsKnown
      <4>2. \A x \in Names : Applied(x)' => runtimes'[x].cache.account = SpecOf(x)'.account
        <5>1. ASSUME NEW x \in Names \ {r}, Applied(x)'
              PROVE  runtimes'[x].cache.account = SpecOf(x)'.account
          BY <5>1, <2>5, <2>6 DEF Inv, AppliedIsKnown
        <5>2. runtimes'[r].cache.account = SpecOf(r)'.account
          BY <2>4, <2>5, <3>1, <3>2
        <5> QED BY <5>1, <5>2
      <4> QED BY <2>1, <4>1, <4>2 DEF AppliedIsKnown
    <3>4. r \in recorded => InRecord(usage, r, run.spec)
      BY <1>1, <2>0, <2>10 DEF Inv, DeploymentProgress, At
    <3>5. KeptIsRecorded'
      <4>1. \A x \in Names : Kept(x)' => InRecord(usage, x, SpecOf(x)')
        <5>1. ASSUME NEW x \in Names \ {r}, Kept(x)' PROVE InRecord(usage, x, SpecOf(x)')
          BY <5>1, <2>6 DEF Inv, KeptIsRecorded
        <5>2. ASSUME Kept(r)' PROVE InRecord(usage, r, SpecOf(r)')
          BY <5>2, <3>1, <3>4 DEF Kept, SaveStatus
        <5> QED BY <5>1, <5>2
      <4> QED BY <4>1
          DEF Inv, KeptIsRecorded, SaveStatus, UsesAreUnique, InRecord, RecordedSpaces, RecordedPerm
    <3>6. DeployedAs(r, run.spec)
      BY <1>1, <2>0, <2>10
      DEF Inv, DeploymentProgress, DeployedAs, FromProduct, FromProject, FromSpaces, FromAccount,
          FromUsers, FromRole, FromGranted, FromSaved
    <3>7. KeptIsDeployed'
      <4>1. \A x \in Names : Kept(x)' => DeployedAs(x, SpecOf(x)')
        <5>1. ASSUME NEW x \in Names \ {r}, Kept(x)' PROVE DeployedAs(x, SpecOf(x)')
          BY <5>1, <2>6 DEF Inv, KeptIsDeployed
        <5>2. DeployedAs(r, SpecOf(r)')
          BY <3>1, <3>6
        <5> QED BY <5>1, <5>2
      <4> QED BY <4>1 DEF KeptIsDeployed, SaveStatus, DeployedAs, Operable, HasSpaces, HasUsers,
                          HasRole, HasPerm
    <3> QED BY <2>7, <2>8, <2>9, <3>3, <3>5, <3>7 DEF Inv
  <2>11. CASE ~(Deploying /\ ~run.failed)
    <3>1. (Applied(r)' <=> Applied(r)) /\ SpecOf(r)' = SpecOf(r)
      BY <2>4, <2>5, <2>11 DEF Applied, SpecOf
    <3>2. Applied(r) => run.new.account = SpecOf(r).account
      BY <1>1, <2>0, RunFacts
    <3>3. AppliedIsKnown'
      <4>1. \A x \in Names : runtimes'[x].phase # "none" => runtimes'[x].spec \in Specs
        BY <2>4, <2>5 DEF Inv, AppliedIsKnown
      <4>2. \A x \in Names : Applied(x)' => runtimes'[x].cache.account = SpecOf(x)'.account
        <5>1. ASSUME NEW x \in Names \ {r}, Applied(x)'
              PROVE  runtimes'[x].cache.account = SpecOf(x)'.account
          BY <5>1, <2>5, <2>6 DEF Inv, AppliedIsKnown
        <5>2. Applied(r)' => runtimes'[r].cache.account = SpecOf(r)'.account
          BY <2>4, <2>5, <3>1, <3>2
        <5> QED BY <5>1, <5>2
      <4> QED BY <2>1, <4>1, <4>2 DEF AppliedIsKnown
    <3>4. \A x \in Names : (Kept(x)' => Kept(x)) /\ SpecOf(x)' = SpecOf(x)
      BY <2>6, <3>1 DEF Kept, SaveStatus
    <3>5. KeptIsRecorded'
      BY <3>4 DEF Inv, KeptIsRecorded, SaveStatus, UsesAreUnique, InRecord, RecordedSpaces,
                  RecordedPerm
    <3>6. KeptIsDeployed'
      BY <3>4 DEF Inv, KeptIsDeployed, SaveStatus, DeployedAs, Operable, HasSpaces, HasUsers,
                  HasRole, HasPerm
    <3> QED BY <2>7, <2>8, <2>9, <3>3, <3>5, <3>6 DEF Inv
  <2> QED BY <2>10, <2>11
<1> QED BY <1>2, <1>3

-----------------------------------------------------------------------------
(* The copy of the usage record. *)

\* Any step of a reconcile that leaves the objects and the record alone.
LEMMA AnyStep ==
  ASSUME Inv, run.pc # "idle", UNCHANGED <<usage, runtimes, recorded, edits>>,
         faults' \in 0..MaxFaults, ClusterTypeOK', KeptIsDeployed', SameReconcile,
         Applied(run.rt) => run'.new.account = run.spec.account,
         RunIsSound', CopyIsRecorded', TodoIsHarmless', DeploymentProgress'
  PROVE  Inv'
<1>1. RestTyped'
  BY DEF Inv, RestTyped
<1>2. KeptIsRecorded'
  BY KeptIsSame DEF Inv, KeptIsRecorded, UsesAreUnique, InRecord, RecordedSpaces, RecordedPerm
<1>3. AppliedIsKnown'
  <2>1. PICK r \in Names : r = run.rt
    BY RunFacts
  <2>2. run'.rt = r /\ run'.op = run.op /\ run'.spec = run.spec /\ run'.old = run.old
    BY <2>1 DEF SameReconcile
  <2>3. Applied(r) => run'.new.account = run.spec.account
    BY <2>1
  <2>4. /\ Deleting => runtimes[r].phase = "deleting"
        /\ Applied(r) => SpecOf(r) = run.spec /\ run.old.account = run.spec.account
    BY <2>1, RunFacts
  <2> QED BY <2>2, <2>3, <2>4 DEF Inv, AppliedIsKnown, Applied, SpecOf, Deleting
<1> QED BY <1>1, <1>2, <1>3 DEF Inv

\* A step of the controller alone: no call, no write.
LEMMA LocalStep ==
  ASSUME Inv, run.pc # "idle", UNCHANGED <<clusterVars, runtimes, recorded, edits>>,
         faults' \in 0..MaxFaults, SameReconcile,
         Applied(run.rt) => run'.new.account = run.spec.account,
         RunIsSound', CopyIsRecorded', TodoIsHarmless', DeploymentProgress'
  PROVE  Inv'
<1> USE DEF clusterVars
<1>1. ClusterTypeOK'
  BY DEF Inv, RestTyped, ClusterTypeOK
<1>2. KeptIsDeployed'
  BY KeptIsSame
  DEF Inv, KeptIsDeployed, DeployedAs, Operable, HasSpaces, HasUsers, HasRole, HasPerm
<1> QED BY <1>1, <1>2, AnyStep

\* The copy stays as it is.
LEMMA SameCopy ==
  ASSUME Inv, Copied, UNCHANGED <<runtimes, recorded>>, run'.usage = run.usage
  PROVE  CopyIsRecorded'
  BY KeptIsSame DEF Inv, CopyIsRecorded, UsesAreUnique, InRecord, RecordedSpaces, RecordedPerm

LEMMA GetUsageKeepsInv ==
  ASSUME Inv, GetUsage
  PROVE  Inv'
<1>1. run.pc = "getUsage" /\ UNCHANGED <<clusterVars, runtimes, recorded, edits>>
      /\ faults' \in 0..MaxFaults
  BY FaultFacts DEF GetUsage, At
<1>2. /\ run \in RunType /\ run.rt \in Names
      /\ Deleting => ~Applied(run.rt)
      /\ Applied(run.rt) => run.new.account = run.spec.account
  BY <1>1, RunFacts
<1>3. usage \in Usage
  BY DEF Inv, RestTyped, ClusterTypeOK
<1>4. UsesAreUnique(usage) /\ \A r \in Names : Kept(r) => InRecord(usage, r, SpecOf(r))
  BY DEF Inv, KeptIsRecorded
<1>5. CASE Deploying /\ run' = [run EXCEPT !.pc = "createProduct",
                                           !.usage = [usage EXCEPT !.runtimes = @ \cup {run.rt}]]
  <2> DEFINE u == [usage EXCEPT !.runtimes = @ \cup {run.rt}]
  <2>1. /\ u \in Usage /\ u.runtimes = usage.runtimes \cup {run.rt}
        /\ u.space = usage.space /\ u.account = usage.account
    BY <1>2, <1>3 DEF Usage
  <2>2. run' = [run EXCEPT !.pc = "createProduct", !.usage = u]
    BY <1>5
  <2> HIDE DEF u
  <2>3. "createProduct" \in PC
    BY DEF PC
  <2>4. /\ run' \in RunType /\ SameReconcile /\ run'.pc = "createProduct" /\ run'.usage = u
        /\ run'.new = run.new /\ run'.failed = run.failed /\ run'.todo = run.todo
    BY <1>2, <2>1, <2>2, <2>3 DEF RunType, SameReconcile
  <2>5. RunIsSound'
    BY <1>1, <1>5, <2>3, <2>4, GoesOn DEF DeployPCs, FromUsage, Leaving, Deploying, Deleting
  <2>6. CopyIsRecorded'
    BY <1>1, <1>4, <2>1, <2>4, KeptIsSame
    DEF CopyIsRecorded, UsesAreUnique, InRecord, RecordedSpaces, RecordedPerm
  <2>7. TodoIsHarmless'
    BY <2>4 DEF TodoIsHarmless, At, Ending
  <2>8. DeploymentProgress'
    BY <2>1, <2>4
    DEF DeploymentProgress, At, SameReconcile, FromUsage, FromProduct, FromProject, FromSpaces,
        FromAccount, FromUsers, FromRole, FromGranted, FromSaved, Leaving
  <2> QED BY <1>1, <1>2, <2>4, <2>5, <2>6, <2>7, <2>8, LocalStep
<1>6. CASE Deleting /\ run' = [run EXCEPT !.pc = "deleteApp",
                                 !.usage = [usage EXCEPT !.runtimes = @ \ {run.rt},
                                                         !.space[run.rt] = {}]]
  <2> DEFINE u == [usage EXCEPT !.runtimes = @ \ {run.rt}, !.space[run.rt] = {}]
  <2>1. /\ u \in Usage /\ u.runtimes = usage.runtimes \ {run.rt} /\ u.account = usage.account
        /\ \A r \in Names \ {run.rt} : u.space[r] = usage.space[r]
    BY <1>2, <1>3 DEF Usage
  <2>2. run' = [run EXCEPT !.pc = "deleteApp", !.usage = u]
    BY <1>6
  <2> HIDE DEF u
  <2>3. "deleteApp" \in PC
    BY DEF PC
  <2>4. /\ run' \in RunType /\ SameReconcile /\ run'.pc = "deleteApp" /\ run'.usage = u
        /\ run'.new = run.new /\ run'.failed = run.failed /\ run'.todo = run.todo
    BY <1>2, <2>1, <2>2, <2>3 DEF RunType, SameReconcile
  <2>5. RunIsSound'
    BY <1>1, <1>6, <2>3, <2>4, GoesOn DEF DeletePCs, Leaving, Deploying, Deleting
  <2>6. CopyIsRecorded'
    <3>1. \A r \in Names : Kept(r) => r # run.rt
      BY <1>2, <1>6 DEF Kept
    <3>2. UsesAreUnique(u)
      BY <1>4, <2>1 DEF UsesAreUnique
    <3>3. \A r \in Names : Kept(r) => InRecord(u, r, SpecOf(r))
      BY <1>4, <2>1, <3>1 DEF InRecord, RecordedSpaces, RecordedPerm
    <3> QED BY <1>1, <2>4, <3>2, <3>3, KeptIsSame
        DEF CopyIsRecorded, UsesAreUnique, InRecord, RecordedSpaces, RecordedPerm
  <2>7. TodoIsHarmless'
    BY <2>4 DEF TodoIsHarmless, At, Ending
  <2>8. DeploymentProgress'
    BY <1>6, <2>4 DEF DeploymentProgress, SameReconcile, Deleting, Deploying
  <2> QED BY <1>1, <1>2, <2>4, <2>5, <2>6, <2>7, <2>8, LocalStep
<1>7. CASE Deleting /\ run' = GoTo("removeFinalizer", {})
  <2>1. "removeFinalizer" \in PC /\ {} \in SUBSET (Spaces \cup Repos)
    BY DEF PC
  <2>2. /\ run' \in RunType /\ SameReconcile /\ run'.pc = "removeFinalizer" /\ run'.new = run.new
    BY <1>2, <1>7, <2>1, GoToFacts DEF SameReconcile
  <2>3. RunIsSound'
    BY <1>1, <1>7, <2>1, <2>2, GoesOn DEF DeletePCs, Leaving, Deploying, Deleting
  <2>4. CopyIsRecorded' /\ TodoIsHarmless'
    BY <2>2 DEF CopyIsRecorded, Copied, TodoIsHarmless, At, Ending
  <2>5. DeploymentProgress'
    BY <1>7, <2>2 DEF DeploymentProgress, SameReconcile, Deleting, Deploying
  <2> QED BY <1>1, <1>2, <2>2, <2>3, <2>4, <2>5, LocalStep
<1>8. CASE run' = [run EXCEPT !.pc = "saveStatus", !.failed = TRUE]
  <2>1. "saveStatus" \in PC
    BY DEF PC
  <2>2. /\ run' \in RunType /\ SameReconcile /\ run'.pc = "saveStatus" /\ run'.new = run.new
        /\ run'.failed
    BY <1>2, <1>8, <2>1 DEF RunType, SameReconcile
  <2>3. RunIsSound'
    BY <1>1, <2>1, <2>2, GoesOn
    DEF DeployPCs, DeletePCs, Leaving, FromUsage, FromProduct, FromProject, FromSpaces,
        FromAccount, FromUsers, FromRole, FromGranted, FromSaved
  <2>4. CopyIsRecorded' /\ TodoIsHarmless' /\ DeploymentProgress'
    BY <2>2 DEF CopyIsRecorded, Copied, TodoIsHarmless, At, Ending, DeploymentProgress
  <2> QED BY <1>1, <1>2, <2>2, <2>3, <2>4, LocalStep
<1> QED BY <1>5, <1>6, <1>7, <1>8 DEF GetUsage

\* The copy is written back: what it says of the run's own runtime counts from
\* then on, what it says of the others was so before.
LEMMA SaveUsageKeepsInv ==
  ASSUME Inv, SaveUsage
  PROVE  Inv'
<1>1. PICK r \in Names : r = run.rt
  BY RunFacts DEF SaveUsage, At
<1>2. /\ run.pc = "saveUsage" /\ UNCHANGED <<ns, users, accounts, project, apps, roles>>
      /\ UNCHANGED <<runtimes, edits>> /\ faults' \in 0..MaxFaults
  BY FaultFacts DEF SaveUsage, At
<1>3. /\ run \in RunType /\ run.usage \in Usage /\ usage \in Usage /\ recorded \subseteq Names
      /\ Deleting => ~Applied(r)
      /\ Applied(r) => SpecOf(r) = run.spec
  BY <1>1, <1>2, RunFacts DEF Inv, RestTyped, ClusterTypeOK
<1>4. \A x : (Applied(x)' <=> Applied(x)) /\ SpecOf(x)' = SpecOf(x)
  BY <1>2 DEF Applied, SpecOf
<1>5. /\ UsesAreUnique(run.usage)
      /\ \A x \in Names : Kept(x) => InRecord(run.usage, x, SpecOf(x))
  BY <1>2 DEF Inv, CopyIsRecorded, Copied, PC
<1>6. Deploying /\ ~run.failed =>
        /\ InRecord(run.usage, r, run.spec) /\ DeployedAs(r, run.spec)
        /\ run.new.account = run.spec.account
  BY <1>1, <1>2
  DEF Inv, DeploymentProgress, DeployedAs, InRecord, FromUsage, FromProduct, FromProject,
      FromSpaces, FromAccount, FromUsers, FromRole, FromGranted, FromSaved, Leaving
<1>7. /\ run' \in RunType /\ SameReconcile /\ run'.new = run.new /\ run'.failed = run.failed
      /\ run'.pc = IF Deleting /\ ~run.failed THEN "removeFinalizer" ELSE "saveStatus"
  <2>1. "saveStatus" \in PC /\ "removeFinalizer" \in PC /\ {} \in SUBSET (Spaces \cup Repos)
    BY DEF PC
  <2> QED BY <1>3, <2>1, GoToFacts DEF SaveUsage, SameReconcile
<1>8. RunIsSound'
  <2>1. "saveStatus" \in PC /\ "removeFinalizer" \in PC
    BY DEF PC
  <2>2. Deploying => run'.pc \in DeployPCs
    BY <1>7 DEF Deploying, Deleting, DeployPCs, FromUsage, FromProduct, FromProject, FromSpaces,
                FromAccount, FromUsers, FromRole, FromGranted, FromSaved
  <2>3. Deleting => run'.pc \in DeletePCs
    BY <1>7 DEF DeletePCs
  <2> QED BY <1>2, <1>7, <2>1, <2>2, <2>3, GoesOn DEF Leaving
<1>9. CopyIsRecorded' /\ TodoIsHarmless'
  BY <1>7 DEF CopyIsRecorded, Copied, TodoIsHarmless, At, Ending
<1>10. AppliedIsKnown'
  BY <1>2, <1>4, <1>7 DEF Inv, AppliedIsKnown, SameReconcile, Deleting
<1>11. CASE UNCHANGED usage /\ recorded' = recorded \ {run.rt}
  <2>1. \A x \in Names : Kept(x)' => Kept(x) /\ SpecOf(x)' = SpecOf(x)
    BY <1>4, <1>11 DEF Kept
  <2>2. RestTyped'
    BY <1>2, <1>11 DEF Inv, RestTyped, ClusterTypeOK
  <2>3. KeptIsRecorded'
    BY <1>11, <2>1
    DEF Inv, KeptIsRecorded, UsesAreUnique, InRecord, RecordedSpaces, RecordedPerm
  <2>4. KeptIsDeployed'
    BY <1>2, <2>1 DEF Inv, KeptIsDeployed, DeployedAs, Operable, HasSpaces, HasUsers, HasRole,
                      HasPerm
  <2>5. DeploymentProgress'
    <3>1. run'.rt \notin recorded'
      BY <1>7, <1>11 DEF SameReconcile
    <3>2. Deploying' /\ ~run'.failed => run'.new.account = run'.spec.account
                                        /\ DeployedAs(r, run.spec) /\ run'.rt = r
                                        /\ run'.spec = run.spec /\ run'.pc = "saveStatus"
      BY <1>1, <1>6, <1>7 DEF SameReconcile, Deploying, Deleting
    <3> QED BY <1>2, <3>1, <3>2
        DEF DeploymentProgress, DeployedAs, At, Operable, HasSpaces, HasUsers, HasRole, HasPerm,
            FromUsage, FromProduct, FromProject, FromSpaces, FromAccount, FromUsers, FromRole,
            FromGranted, FromSaved, Leaving
  <2> QED BY <1>8, <1>9, <1>10, <2>2, <2>3, <2>4, <2>5 DEF Inv
<1>12. CASE /\ UpdateProductUsage(run.usage)
            /\ recorded' = IF run.failed THEN recorded ELSE recorded \cup {run.rt}
  <2>1. \A x \in Names : Kept(x)' => /\ SpecOf(x)' = SpecOf(x)
                                     /\ InRecord(run.usage, x, SpecOf(x))
                                     /\ DeployedAs(x, SpecOf(x))
    <3>1. ASSUME NEW x \in Names, Kept(x)', Kept(x)
          PROVE  InRecord(run.usage, x, SpecOf(x)) /\ DeployedAs(x, SpecOf(x))
      BY <1>5, <3>1 DEF Inv, KeptIsDeployed
    <3>2. ASSUME NEW x \in Names, Kept(x)', ~Kept(x)
          PROVE  InRecord(run.usage, x, SpecOf(x)) /\ DeployedAs(x, SpecOf(x))
      <4>1. Applied(x) /\ x = r /\ ~run.failed
        BY <1>1, <1>4, <1>12, <3>2 DEF Kept
      <4>2. Deploying
        BY <1>2, <1>3, <4>1, RunFacts
      <4> QED BY <1>3, <1>6, <4>1, <4>2
    <3> QED BY <1>4, <3>1, <3>2
  <2>2. /\ usage' \in Usage
        /\ run.usage.runtimes # {} =>
             /\ usage'.runtimes = run.usage.runtimes /\ usage'.space = run.usage.space
             /\ usage'.account = run.usage.account
        /\ run.usage.runtimes = {} => usage'.account = {}
    <3>1. EmptyUsage(TRUE) \in Usage /\ EmptyUsage(TRUE).account = {}
      BY ConstantFacts DEF EmptyUsage
    <3> QED BY <1>3, <1>12, <3>1 DEF UpdateProductUsage, Usage
  <2>3. RestTyped'
    BY <1>1, <1>2, <1>3, <1>12, <2>2 DEF Inv, RestTyped, ClusterTypeOK
  <2>4. UsesAreUnique(usage')
    BY <1>5, <2>2 DEF UsesAreUnique
  <2>5. \A x \in Names, spec \in Specs : InRecord(run.usage, x, spec) => InRecord(usage', x, spec)
    BY <2>2 DEF InRecord, RecordedSpaces, RecordedPerm
  <2>6. \A x \in Names : Kept(x)' => SpecOf(x) \in Specs
    BY <1>4, KeptHasSpec DEF Kept
  <2>7. KeptIsRecorded'
    BY <2>1, <2>4, <2>5, <2>6
    DEF KeptIsRecorded, UsesAreUnique, InRecord, RecordedSpaces, RecordedPerm
  <2>8. KeptIsDeployed'
    BY <1>2, <2>1 DEF KeptIsDeployed, DeployedAs, Operable, HasSpaces, HasUsers, HasRole, HasPerm
  <2>9. DeploymentProgress'
    <3>1. Deploying' /\ ~run'.failed => /\ run'.new.account = run'.spec.account
                                        /\ DeployedAs(r, run.spec) /\ run'.rt = r
                                        /\ run'.spec = run.spec /\ run'.pc = "saveStatus"
                                        /\ InRecord(usage', r, run.spec)
      BY <1>1, <1>2, <1>6, <1>7, <2>5, RunFacts DEF SameReconcile, Deploying, Deleting
    <3> QED BY <1>2, <3>1
        DEF DeploymentProgress, DeployedAs, At, Operable, HasSpaces, HasUsers, HasRole, HasPerm,
            FromUsage, FromProduct, FromProject, FromSpaces, FromAccount, FromUsers, FromRole,
            FromGranted, FromSaved, Leaving, InRecord, RecordedSpaces, RecordedPerm
  <2> QED BY <1>8, <1>9, <1>10, <2>3, <2>7, <2>8, <2>9 DEF Inv
<1> QED BY <1>11, <1>12 DEF SaveUsage

-----------------------------------------------------------------------------
(* The product and its spaces. *)

LEMMA RunGoesTo ==
  ASSUME Inv, run.pc # "idle", NEW pc \in PC \ {"idle"}, NEW todo \in SUBSET (Spaces \cup Repos),
         run' = GoTo(pc, todo)
  PROVE  /\ run' \in RunType /\ SameReconcile /\ run'.pc = pc /\ run'.todo = todo
         /\ run'.new = run.new /\ run'.usage = run.usage /\ run'.failed = run.failed
  BY RunFacts, GoToFacts DEF SameReconcile

\* A call takes effect and the reconcile goes on at pc.
LEMMA CallGoesOn ==
  ASSUME Inv, run.pc \in Calls, NEW pc \in PC \ {"idle"}, NEW todo \in SUBSET (Spaces \cup Repos),
         Answer(GoTo(pc, todo)), UNCHANGED <<usage, runtimes, recorded, edits>>,
         ClusterTypeOK', KeptIsDeployed',
         Deploying => pc \in DeployPCs, Deleting => pc \in DeletePCs,
         pc \in Leaving =>
           \/ run.pc \in Leaving
           \/ run.old.account \in Accounts /\ (Deploying => run.old.account # run.spec.account),
         run' = GoTo(pc, todo) => TodoIsHarmless' /\ DeploymentProgress'
  PROVE  Inv'
<1>1. run.pc # "idle" /\ Copied
  BY DEF Calls, Copied, PC
<1>2. ASSUME run' = GoTo(pc, todo)
      PROVE  /\ SameReconcile /\ run'.usage = run.usage
             /\ run'.new.account = run.new.account
             /\ RunIsSound' /\ TodoIsHarmless' /\ DeploymentProgress'
  <2>1. /\ run' \in RunType /\ SameReconcile /\ run'.pc = pc
        /\ run'.new = run.new /\ run'.usage = run.usage
    BY <1>1, <1>2, RunGoesTo
  <2>2. RunIsSound'
    BY <1>1, <2>1, GoesOn
  <2> QED BY <1>2, <2>1, <2>2
<1> QED BY <1>2, AnswerStep

LEMMA RefuseKeepsInv ==
  ASSUME Inv, run.pc \in Calls, Refuse
  PROVE  Inv'
<1>1. ClusterTypeOK' /\ KeptIsDeployed'
  BY KeptIsSame
  DEF Refuse, clusterVars, Inv, RestTyped, ClusterTypeOK, KeptIsDeployed, DeployedAs,
      Operable, HasSpaces, HasUsers, HasRole, HasPerm
<1> QED BY <1>1, FaultFacts, FailedStep DEF Refuse, clusterVars

\* A panic leaves the cluster alone, and the cache to be saved is the one read:
\* both name the account of a runtime that is deployed (AppliedIsKnown).
LEMMA PanicFacts ==
  ASSUME run \in RunType, run' = [Failed EXCEPT !.new = run.old]
  PROVE  /\ run' \in RunType /\ run'.pc = "saveUsage" /\ run'.todo = {} /\ run'.failed
         /\ SameReconcile /\ run'.new = run.old /\ run'.usage = run.usage
         /\ run'.stale = run.stale
<1> DEFINE f == Failed
<1>1. /\ f \in RunType /\ f.pc = "saveUsage" /\ f.todo = {} /\ f.failed
      /\ f.op = run.op /\ f.rt = run.rt /\ f.spec = run.spec /\ f.old = run.old
      /\ f.usage = run.usage
  BY FailedFacts
<1>2. f.stale = run.stale
  BY DEF RunType, Failed
<1>3. run' = [f EXCEPT !.new = run.old] /\ run.old \in Cache
  BY DEF RunType
<1> HIDE DEF f
<1> QED BY <1>1, <1>2, <1>3 DEF RunType, SameReconcile

LEMMA PanicKeepsInv ==
  ASSUME Inv, run.pc \in Calls, Panic
  PROVE  Inv'
<1>1. /\ run' \in RunType /\ run'.pc = "saveUsage" /\ run'.todo = {} /\ run'.failed
      /\ SameReconcile /\ run'.new = run.old /\ run'.usage = run.usage
  BY PanicFacts DEF Panic, Inv, RunIsSound
<1>2. Copied /\ run.pc # "idle"
  BY DEF Calls, Copied, PC
<1>3. UNCHANGED <<usage, runtimes, recorded, edits, faults>>
  BY DEF Panic, clusterVars
<1>4. ClusterTypeOK' /\ KeptIsDeployed'
  BY KeptIsSame
  DEF Panic, clusterVars, Inv, RestTyped, ClusterTypeOK, KeptIsDeployed, DeployedAs,
      Operable, HasSpaces, HasUsers, HasRole, HasPerm
<1>5. RestTyped'
  BY <1>3, <1>4 DEF Inv, RestTyped
<1>6. RunIsSound'
  BY <1>1, <1>2
  DEF Inv, RunIsSound, SameReconcile, Deploying, Deleting, DeployPCs, DeletePCs, Leaving, FromUsage,
      FromProduct, FromProject, FromSpaces, FromAccount, FromUsers, FromRole, FromGranted,
      FromSaved
<1>7. AppliedIsKnown'
  BY <1>1, <1>3, KeptIsSame DEF Inv, AppliedIsKnown, SameReconcile, Deleting
<1>8. KeptIsRecorded'
  BY <1>3, KeptIsSame DEF Inv, KeptIsRecorded, UsesAreUnique, InRecord, RecordedSpaces, RecordedPerm
<1>9. CopyIsRecorded'
  BY <1>1, <1>2, <1>3, KeptIsSame
  DEF Inv, CopyIsRecorded, UsesAreUnique, InRecord, RecordedSpaces, RecordedPerm
<1>10. TodoIsHarmless'
  BY <1>1 DEF TodoIsHarmless, At, Ending
<1>11. DeploymentProgress'
  BY <1>1 DEF DeploymentProgress
<1> QED BY <1>4, <1>5, <1>6, <1>7, <1>8, <1>9, <1>10, <1>11 DEF Inv

\* Nothing of a deployment is taken away.
ClusterGrows ==
  /\ \A s \in Spaces \cup {Product} : Operable(s) => Operable(s)'
  /\ \A s \in Spaces : users[s] \subseteq users'[s]
  /\ accounts \subseteq accounts'
  /\ project = "granted" => project' = "granted"
  /\ \A a \in Accounts : /\ roles[a].exists => roles'[a].exists
                         /\ roles[a].spaces \subseteq roles'[a].spaces
                         /\ roles[a].perms \subseteq roles'[a].perms

LEMMA GrowthFacts ==
  ASSUME ClusterGrows, NEW spec \in Specs
  PROVE  /\ Operable(Product) => Operable(Product)'
         /\ HasSpaces(spec) => HasSpaces(spec)'
         /\ HasUsers(spec) => HasUsers(spec)'
         /\ HasRole(spec) => HasRole(spec)'
         /\ HasPerm(spec) => HasPerm(spec)'
  BY ConstantFacts DEF ClusterGrows, HasSpaces, HasUsers, HasRole, HasPerm

LEMMA GrowthKeeps ==
  ASSUME Inv, UNCHANGED <<runtimes, recorded, apps>>, ClusterGrows
  PROVE  KeptIsDeployed'
<1>1. ASSUME NEW r \in Names, NEW spec \in Specs, DeployedAs(r, spec) PROVE DeployedAs(r, spec)'
  BY <1>1, GrowthFacts DEF DeployedAs, ClusterGrows
<1> QED BY <1>1, KeptStays

LEMMA CreateProductKeepsInv ==
  ASSUME Inv, CreateProduct
  PROVE  Inv'
<1> USE DEF clusterVars
<1>1. run.pc = "createProduct" /\ run.pc \in Calls
  BY DEF CreateProduct, At, Calls, PC
<1>2. CASE Refuse
  BY <1>1, <1>2, RefuseKeepsInv
<1>3. CASE CreateNamespace(Product) /\ Answer(GoTo("createProject", {}))
           /\ UNCHANGED <<users, accounts, project, apps, roles, usage, runtimes, recorded, edits>>
  <2>1. ns \in [Spaces \cup {Product} -> {"none", "active", "terminating"}]
    BY DEF Inv, RestTyped, ClusterTypeOK
  <2>2. ClusterTypeOK' /\ ClusterGrows /\ Operable(Product)'
    BY <1>3, <2>1 DEF CreateNamespace, Inv, RestTyped, ClusterTypeOK, ClusterGrows, Operable
  <2>3. KeptIsDeployed'
    BY <1>3, <2>2, GrowthKeeps
  <2>4. "createProject" \in PC \ {"idle"} /\ {} \in SUBSET (Spaces \cup Repos)
    BY DEF PC
  <2>5. ~Deleting
    BY <1>1, RunFacts DEF DeletePCs, Leaving, Ending
  <2>6. ASSUME run' = GoTo("createProject", {}) PROVE TodoIsHarmless' /\ DeploymentProgress'
    <3>1. /\ SameReconcile /\ run'.pc = "createProject" /\ run'.usage = run.usage
          /\ run'.failed = run.failed
      BY <1>1, <2>4, <2>6, RunGoesTo
    <3>2. Deploying /\ ~run.failed => run.rt \in run.usage.runtimes
      BY <1>1 DEF Inv, DeploymentProgress, FromUsage
    <3>3. TodoIsHarmless'
      BY <3>1 DEF TodoIsHarmless, At, Ending
    <3>4. DeploymentProgress'
      BY <2>2, <3>1, <3>2
      DEF DeploymentProgress, At, SameReconcile, Deploying, FromProduct, FromProject, FromSpaces,
          FromAccount, FromUsers, FromRole, FromGranted, FromSaved, Leaving
    <3> QED BY <3>3, <3>4
  <2> QED BY <1>1, <1>3, <2>2, <2>3, <2>4, <2>5, <2>6, CallGoesOn
      DEF DeployPCs, FromUsage, FromProduct, Leaving
<1> QED BY <1>2, <1>3 DEF CreateProduct

LEMMA CreateProjectKeepsInv ==
  ASSUME Inv, CreateProject
  PROVE  Inv'
<1>1. /\ run.pc = "createProject" /\ run.pc \in Calls /\ Answer(GoTo("addProductUser", {}))
      /\ UNCHANGED <<ns, users, accounts, apps, roles, usage, runtimes, recorded, edits>>
  BY DEF CreateProject, At, Calls, PC
<1>2. ClusterTypeOK' /\ ClusterGrows /\ UNCHANGED ns
  BY DEF CreateProject, Inv, RestTyped, ClusterTypeOK, ClusterGrows, Operable
<1>3. KeptIsDeployed'
  BY <1>1, <1>2, GrowthKeeps
<1>4. "addProductUser" \in PC \ {"idle"} /\ {} \in SUBSET (Spaces \cup Repos)
  BY DEF PC
<1>5. ~Deleting
  BY <1>1, RunFacts DEF DeletePCs, Leaving, Ending
<1>6. ASSUME run' = GoTo("addProductUser", {}) PROVE TodoIsHarmless' /\ DeploymentProgress'
  <2>1. /\ SameReconcile /\ run'.pc = "addProductUser" /\ run'.usage = run.usage
        /\ run'.failed = run.failed
    BY <1>1, <1>4, <1>6, RunGoesTo
  <2>2. Deploying /\ ~run.failed => run.rt \in run.usage.runtimes /\ Operable(Product)
    BY <1>1 DEF Inv, DeploymentProgress, FromUsage, FromProduct
  <2>3. TodoIsHarmless'
    BY <2>1 DEF TodoIsHarmless, At, Ending
  <2>4. DeploymentProgress'
    BY <1>2, <2>1, <2>2
    DEF DeploymentProgress, At, SameReconcile, Deploying, FromProject, FromSpaces, Operable,
        FromAccount, FromUsers, FromRole, FromGranted, FromSaved, Leaving
  <2> QED BY <2>3, <2>4
<1> QED BY <1>1, <1>2, <1>3, <1>4, <1>5, <1>6, CallGoesOn
    DEF DeployPCs, FromUsage, FromProduct, Leaving

LEMMA AddProductUserKeepsInv ==
  ASSUME Inv, AddProductUser
  PROVE  Inv'
<1>1. /\ run.pc = "addProductUser" /\ run.pc \in Calls
      /\ Answer(GoTo("createSpaces", run.spec.spaces))
      /\ UNCHANGED <<ns, users, accounts, apps, roles, usage, runtimes, recorded, edits>>
  BY DEF AddProductUser, At, Calls, PC
<1>2. ClusterTypeOK' /\ ClusterGrows /\ UNCHANGED ns /\ project' = "granted"
  BY DEF AddProductUser, Inv, RestTyped, ClusterTypeOK, ClusterGrows, Operable
<1>3. KeptIsDeployed'
  BY <1>1, <1>2, GrowthKeeps
<1>4. "createSpaces" \in PC \ {"idle"} /\ run.spec.spaces \in SUBSET (Spaces \cup Repos)
  BY <1>1, RunFacts, ConstantFacts DEF PC
<1>5. ~Deleting
  BY <1>1, RunFacts DEF DeletePCs, Leaving, Ending
<1>6. ASSUME run' = GoTo("createSpaces", run.spec.spaces) PROVE TodoIsHarmless' /\ DeploymentProgress'
  <2>1. /\ SameReconcile /\ run'.pc = "createSpaces" /\ run'.usage = run.usage
        /\ run'.failed = run.failed /\ run'.todo = run.spec.spaces
    BY <1>1, <1>4, <1>6, RunGoesTo
  <2>2. Deploying /\ ~run.failed => run.rt \in run.usage.runtimes /\ Operable(Product)
    BY <1>1 DEF Inv, DeploymentProgress, FromUsage, FromProduct
  <2>3. TodoIsHarmless'
    BY <2>1 DEF TodoIsHarmless, At, Ending
  <2>4. DeploymentProgress'
    BY <1>2, <2>1, <2>2
    DEF DeploymentProgress, At, SameReconcile, Deploying, FromSpaces, Operable,
        FromAccount, FromUsers, FromRole, FromGranted, FromSaved, Leaving
  <2> QED BY <2>3, <2>4
<1> QED BY <1>1, <1>2, <1>3, <1>4, <1>5, <1>6, CallGoesOn
    DEF DeployPCs, FromUsage, FromProduct, FromProject, Leaving

LEMMA CreateSpaceKeepsInv ==
  ASSUME Inv, NEW s \in Spaces, CreateSpace(s)
  PROVE  Inv'
<1> USE DEF clusterVars
<1>1. run.pc = "createSpaces" /\ run.pc \in Calls
  BY DEF CreateSpace, At, Calls, PC
<1>2. CASE Refuse
  BY <1>1, <1>2, RefuseKeepsInv
<1>3. CASE CreateNamespace(s) /\ Answer(GoTo("createSpaces", run.todo \ {s}))
           /\ UNCHANGED <<users, accounts, project, apps, roles, usage, runtimes, recorded, edits>>
  <2>1. ns \in [Spaces \cup {Product} -> {"none", "active", "terminating"}]
    BY DEF Inv, RestTyped, ClusterTypeOK
  <2>2. ClusterTypeOK' /\ ClusterGrows /\ Operable(s)'
    BY <1>3, <2>1 DEF CreateNamespace, Inv, RestTyped, ClusterTypeOK, ClusterGrows, Operable
  <2>3. KeptIsDeployed'
    BY <1>3, <2>2, GrowthKeeps
  <2>4. "createSpaces" \in PC \ {"idle"} /\ run.todo \ {s} \in SUBSET (Spaces \cup Repos)
    BY <1>1, RunFacts DEF PC
  <2>5. ~Deleting
    BY <1>1, RunFacts DEF DeletePCs, Leaving, Ending
  <2>6. ASSUME run' = GoTo("createSpaces", run.todo \ {s}) PROVE TodoIsHarmless' /\ DeploymentProgress'
    <3>1. /\ SameReconcile /\ run'.pc = "createSpaces" /\ run'.usage = run.usage
          /\ run'.failed = run.failed /\ run'.todo = run.todo \ {s}
      BY <1>1, <2>4, <2>6, RunGoesTo
    <3>2. Deploying /\ ~run.failed =>
            /\ run.rt \in run.usage.runtimes /\ Operable(Product) /\ project = "granted"
            /\ \A t \in run.spec.spaces \ run.todo : Operable(t)
      BY <1>1 DEF Inv, DeploymentProgress, FromUsage, FromProduct, FromProject, At
    <3>3. TodoIsHarmless'
      BY <3>1 DEF TodoIsHarmless, At, Ending
    <3>4. run.spec.spaces \subseteq Spaces
      BY <1>1, RunFacts, ConstantFacts
    <3>5. Deploying /\ ~run.failed => \A t \in run.spec.spaces \ run'.todo : Operable(t)'
      BY <2>2, <3>1, <3>2, <3>4 DEF ClusterGrows
    <3>6. Operable(Product) => Operable(Product)'
      BY <2>2 DEF ClusterGrows
    <3>7. DeploymentProgress'
      BY <1>3, <3>1, <3>2, <3>5, <3>6
      DEF DeploymentProgress, At, SameReconcile, Deploying, FromSpaces, Operable,
          FromAccount, FromUsers, FromRole, FromGranted, FromSaved, Leaving
    <3> QED BY <3>3, <3>7
  <2> QED BY <1>1, <1>3, <2>2, <2>3, <2>4, <2>5, <2>6, CallGoesOn
      DEF DeployPCs, FromUsage, FromProduct, FromProject, Leaving
<1> QED BY <1>2, <1>3 DEF CreateSpace

\* What is recorded for another runtime is in use.
LEMMA RecordedIsUsed ==
  ASSUME NEW u, NEW r \in Names, NEW spec, InRecord(u, r, spec), NEW except, r \notin except
  PROVE  /\ spec.repo \in PermsUsed(u, spec.account, except)
         /\ spec.spaces \subseteq AccountSpacesUsed(u, spec.account, except)
         /\ UsesOf(u, spec.account, except) # {}
         /\ spec.spaces \subseteq SpacesUsed(u, except)
<1>1. PICK x \in u.account : /\ x.account = spec.account /\ x.runtime = r
                             /\ spec.spaces \subseteq x.spaces /\ spec.repo \in x.perms
  BY DEF InRecord, RecordedPerm
<1>2. x \in UsesOf(u, spec.account, except)
  BY <1>1 DEF UsesOf
<1>3. spec.spaces \subseteq u.space[r] /\ r \in Names \ except
  BY DEF InRecord, RecordedSpaces
<1> QED BY <1>1, <1>2, <1>3 DEF PermsUsed, AccountSpacesUsed, SpacesUsed

LEMMA SpacesCreatedKeepsInv ==
  ASSUME Inv, SpacesCreated
  PROVE  Inv'
<1>1. /\ run.pc = "createSpaces" /\ run.todo = {}
      /\ UNCHANGED <<clusterVars, runtimes, recorded, edits>> /\ faults' \in 0..MaxFaults
  BY FaultFacts DEF SpacesCreated, At
<1>2. PICK q \in Names : q = run.rt
  BY <1>1, RunFacts
<1>3. /\ run \in RunType /\ run.spec \in Specs /\ run.spec.spaces \subseteq Spaces
      /\ run.spec.account \in Accounts /\ run.usage \in Usage /\ run.old \in Cache /\ run.new \in Cache
      /\ Applied(q) =>
           /\ SpecOf(q) = run.spec
           /\ run.old.account = run.spec.account /\ run.new.account = run.spec.account
      /\ Deploying /\ ~Deleting
  BY <1>1, <1>2, RunFacts, ConstantFacts DEF DeletePCs, Leaving, Ending
<1> DEFINE u == [run.usage EXCEPT !.space[run.rt] = run.spec.spaces]
           n == [run.new EXCEPT !.spaces = @ \cup run.spec.spaces]
<1>4. /\ u \in Usage /\ u.runtimes = run.usage.runtimes /\ u.account = run.usage.account
      /\ u.space[q] = run.spec.spaces /\ \A r \in Names \ {q} : u.space[r] = run.usage.space[r]
  BY <1>2, <1>3 DEF Usage
<1>5. n \in Cache /\ n.account = run.new.account
  BY <1>3 DEF Cache
<1>6. OldPerms \subseteq Repos
  BY <1>3 DEF OldPerms, Cache
<1>7. PICK moved \in BOOLEAN : moved <=> run.old.account \notin {NoAccount, run.spec.account}
  OBVIOUS
<1>8. run' = [run EXCEPT !.usage = u, !.new = n, !.pc = IF moved THEN "revokeOld" ELSE "createAccount",
                         !.todo = IF moved THEN OldPerms ELSE {}]
  BY <1>7, <1>3 DEF SpacesCreated, RunType
<1> HIDE DEF u, n
<1>9. "revokeOld" \in PC \ {"idle"} /\ "createAccount" \in PC \ {"idle"}
  BY DEF PC
<1>10. /\ run' \in RunType /\ SameReconcile /\ run'.usage = u /\ run'.new = n
       /\ run'.failed = run.failed
       /\ moved => run'.pc = "revokeOld" /\ run'.todo = OldPerms
       /\ ~moved => run'.pc = "createAccount" /\ run'.todo = {}
  BY <1>3, <1>4, <1>5, <1>6, <1>8, <1>9 DEF RunType, SameReconcile
<1>11. RunIsSound'
  <2>1. run'.pc \in PC \ {"idle"} /\ run'.pc \in DeployPCs
    BY <1>9, <1>10 DEF DeployPCs, FromUsage, FromProduct, FromProject, FromSpaces, Leaving
  <2>2. run'.pc \in Leaving => run.old.account \in Accounts /\ run.old.account # run.spec.account
    BY <1>3, <1>7, <1>10 DEF Leaving, Cache
  <2> QED BY <1>1, <1>3, <1>10, <2>1, <2>2, GoesOn
<1>12. UsesAreUnique(run.usage) /\ \A r \in Names : Kept(r) => InRecord(run.usage, r, SpecOf(r))
  BY <1>1 DEF Inv, CopyIsRecorded, Copied, PC
<1>13. \A r \in Names : Kept(r) => InRecord(u, r, SpecOf(r))
  BY <1>3, <1>4, <1>12 DEF InRecord, RecordedSpaces, RecordedPerm, Kept
<1>14. CopyIsRecorded'
  <2>1. UsesAreUnique(u)
    BY <1>4, <1>12 DEF UsesAreUnique
  <2> QED BY <1>1, <1>10, <1>13, <2>1, KeptIsSame
      DEF CopyIsRecorded, UsesAreUnique, InRecord, RecordedSpaces, RecordedPerm
<1>15. TodoIsHarmless'
  <2>1. ASSUME NEW r \in Names, Kept(r), moved, SpecOf(r).account = run.old.account
        PROVE  SpecOf(r).repo \notin OldPerms
    <3>1. r # q
      BY <1>3, <1>7, <2>1 DEF Kept
    <3> QED BY <1>2, <1>12, <2>1, <3>1, RecordedIsUsed DEF OldPerms
  <2> QED BY <1>1, <1>10, <2>1, KeptIsSame DEF TodoIsHarmless, At, Ending, SameReconcile
<1>16. DeploymentProgress'
  <2>1. ~run.failed => /\ run.rt \in run.usage.runtimes /\ Operable(Product) /\ project = "granted"
                       /\ HasSpaces(run.spec)
    BY <1>1, <1>3 DEF Inv, DeploymentProgress, FromUsage, FromProduct, FromProject, At, HasSpaces
  <2>2. run'.pc \in {"revokeOld", "createAccount"}
    BY <1>10
  <2>3. ~run.failed => RecordedSpaces(u, q, run.spec)
    BY <1>2, <1>4, <2>1 DEF RecordedSpaces
  <2> QED BY <1>1, <1>2, <1>4, <1>10, <2>1, <2>2, <2>3
      DEF DeploymentProgress, At, SameReconcile, Deploying, FromUsage, FromProduct, FromProject,
          FromSpaces, FromAccount, FromUsers, FromRole, FromGranted, FromSaved, Leaving, Operable,
          HasSpaces, RecordedSpaces, clusterVars
<1> QED BY <1>1, <1>2, <1>3, <1>5, <1>10, <1>11, <1>14, <1>15, <1>16, LocalStep

-----------------------------------------------------------------------------
(* Leaving the account of the last deployment. *)

\* An account that is left is not the one the run's own runtime is kept with.
LEMMA LeftIsAnothers ==
  ASSUME Inv, run.pc \in Leaving, NEW r \in Names, Kept(r), SpecOf(r).account = run.old.account
  PROVE  r # run.rt
<1>1. run.pc # "idle"
  BY DEF Leaving
<1>2. Deploying => run.old.account # run.spec.account
  BY DEF Inv, RunIsSound
<1> QED BY <1>1, <1>2, RunFacts DEF Kept

LEMMA LeavingFacts ==
  ASSUME Inv, run.pc \in Leaving
  PROVE  /\ run.pc # "idle" /\ Copied /\ run.old.account \in Accounts
         /\ UsesAreUnique(run.usage)
         /\ \A r \in Names : Kept(r) => InRecord(run.usage, r, SpecOf(r)) /\ DeployedAs(r, SpecOf(r))
<1>1. run.pc # "idle" /\ Copied
  BY DEF Leaving, Copied, PC
<1> QED BY <1>1 DEF Inv, RunIsSound, CopyIsRecorded, KeptIsDeployed

\* A deployment is where it was: the spaces are there and recorded.
LEMMA LeavingProgress ==
  ASSUME Inv, run.pc \in Leaving, SameReconcile, Deploying => run'.pc \in Leaving \cup {"createAccount"},
         run'.usage.runtimes = run.usage.runtimes, run'.usage.space = run.usage.space,
         run'.failed = run.failed, UNCHANGED <<ns, project>>
  PROVE  DeploymentProgress'
<1>1. Deploying /\ ~run.failed =>
        /\ run.rt \in run.usage.runtimes /\ Operable(Product) /\ project = "granted"
        /\ HasSpaces(run.spec) /\ RecordedSpaces(run.usage, run.rt, run.spec)
  BY DEF Inv, DeploymentProgress, FromUsage, FromProduct, FromProject, FromSpaces, Leaving
<1>2. Deploying => run'.pc \in {"revokeOld", "dropUsers", "deleteRole", "deleteAccount", "leftAccount",
                                "createAccount"}
  BY DEF Leaving
<1> QED BY <1>1, <1>2
    DEF DeploymentProgress, At, SameReconcile, Deploying, FromUsage, FromProduct, FromProject,
        FromSpaces, FromAccount, FromUsers, FromRole, FromGranted, FromSaved, Leaving, Operable,
        HasSpaces, RecordedSpaces

LEMMA RevokeOldKeepsInv ==
  ASSUME Inv, NEW p \in Repos, RevokeOld(p)
  PROVE  Inv'
<1>1. /\ run.pc = "revokeOld" /\ run.pc \in Calls /\ run.pc \in Leaving /\ p \in run.todo
      /\ Answer(GoTo("revokeOld", run.todo \ {p}))
      /\ UNCHANGED <<ns, users, accounts, project, apps, usage, runtimes, recorded, edits>>
      /\ RevokePermission(run.old.account, p)
  BY DEF RevokeOld, At, Calls, PC, Leaving
<1>2. roles \in [Accounts -> Role] /\ run.old.account \in Accounts
  BY <1>1, LeavingFacts DEF Inv, RestTyped, ClusterTypeOK
<1>3. /\ roles' \in [Accounts -> Role]
      /\ \A a \in Accounts : /\ roles'[a].exists = roles[a].exists
                             /\ roles'[a].spaces = roles[a].spaces
                             /\ roles[a].perms \ {p} \subseteq roles'[a].perms
                             /\ a # run.old.account => roles'[a].perms = roles[a].perms
  BY <1>1, <1>2 DEF RevokePermission, Role
<1>4. ClusterTypeOK'
  BY <1>1, <1>3 DEF Inv, RestTyped, ClusterTypeOK
<1>5. KeptIsDeployed'
  <2>1. ASSUME NEW r \in Names, NEW spec \in Specs, Kept(r), SpecOf(r) = spec, DeployedAs(r, spec)
        PROVE  DeployedAs(r, spec)'
    <3>1. spec.account \in Accounts
      BY ConstantFacts
    <3>2. spec.account = run.old.account => spec.repo # p
      BY <1>1, <2>1 DEF Inv, TodoIsHarmless, At
    <3> QED BY <1>1, <1>3, <2>1, <3>1, <3>2
        DEF DeployedAs, Operable, HasSpaces, HasUsers, HasRole, HasPerm
  <2> QED BY <1>1, <2>1, KeptStays
<1>6. "revokeOld" \in PC \ {"idle"} /\ run.todo \ {p} \in SUBSET (Spaces \cup Repos)
  BY <1>1, RunFacts DEF PC
<1>7. ASSUME run' = GoTo("revokeOld", run.todo \ {p}) PROVE TodoIsHarmless' /\ DeploymentProgress'
  <2>1. /\ SameReconcile /\ run'.pc = "revokeOld" /\ run'.usage = run.usage
        /\ run'.failed = run.failed /\ run'.todo = run.todo \ {p}
    BY <1>1, <1>6, <1>7, RunGoesTo
  <2>2. TodoIsHarmless'
    BY <1>1, <2>1, KeptIsSame DEF Inv, TodoIsHarmless, At, Ending, SameReconcile
  <2>3. DeploymentProgress'
    BY <1>1, <2>1, LeavingProgress DEF Leaving
  <2> QED BY <2>2, <2>3
<1> QED BY <1>1, <1>4, <1>5, <1>6, <1>7, CallGoesOn, RunFacts

\* The account is left for good when nobody else is recorded for it.
LEMMA LeaveAccountStep ==
  ASSUME Inv, run.pc \in Leaving, run' = LeaveAccount,
         UNCHANGED <<clusterVars, runtimes, recorded, edits, faults>>
  PROVE  Inv'
<1>1. faults' \in 0..MaxFaults
  BY FaultFacts
<1>2. PICK gone \in BOOLEAN : gone = AccountIsRemovable(run.usage, run.old.account, run.rt)
  BY DEF AccountIsRemovable
<1> DEFINE pc == IF gone THEN "deleteRole" ELSE "leftAccount"
<1>3. pc \in PC \ {"idle"} /\ pc \in DeployPCs /\ pc \in DeletePCs /\ pc \in Leaving
      /\ pc \in {"deleteRole", "leftAccount"}
      /\ {} \in SUBSET (Spaces \cup Repos)
  BY DEF PC, DeployPCs, DeletePCs, FromUsage, FromProduct, FromProject, FromSpaces, Leaving
<1>4. run' = GoTo(pc, {})
  BY <1>2 DEF LeaveAccount
<1>5. gone <=> pc = "deleteRole"
  OBVIOUS
<1> HIDE DEF pc
<1>6. run.pc # "idle" /\ Copied
  BY LeavingFacts
<1>7. /\ run' \in RunType /\ SameReconcile /\ run'.pc = pc /\ run'.todo = {}
      /\ run'.new = run.new /\ run'.usage = run.usage /\ run'.failed = run.failed
  BY <1>3, <1>4, <1>6, RunGoesTo
<1>8. RunIsSound'
  BY <1>3, <1>6, <1>7, GoesOn
<1>9. CopyIsRecorded'
  BY <1>6, <1>7, SameCopy
<1>10. TodoIsHarmless'
  <2>1. ASSUME NEW r \in Names, Kept(r), gone PROVE SpecOf(r).account # run.old.account
    <3> SUFFICES ASSUME SpecOf(r).account = run.old.account PROVE FALSE
      OBVIOUS
    <3>1. r # run.rt /\ InRecord(run.usage, r, SpecOf(r))
      BY <2>1, LeftIsAnothers, LeavingFacts
    <3>2. UsesOf(run.usage, run.old.account, {run.rt}) # {}
      BY <3>1, RecordedIsUsed
    <3> QED BY <1>2, <2>1, <3>2 DEF AccountIsRemovable
  <2> QED BY <1>3, <1>5, <1>7, <2>1, KeptIsSame DEF TodoIsHarmless, At, Ending, SameReconcile
<1>11. DeploymentProgress'
  BY <1>3, <1>7, LeavingProgress DEF clusterVars
<1>12. Applied(run.rt) => run'.new.account = run.spec.account
  BY <1>6, <1>7, RunFacts
<1> QED BY <1>1, <1>6, <1>7, <1>8, <1>9, <1>10, <1>11, <1>12, LocalStep

LEMMA OldRevokedKeepsInv ==
  ASSUME Inv, OldRevoked
  PROVE  Inv'
<1>1. /\ run.pc = "revokeOld" /\ run.pc \in Leaving
      /\ UNCHANGED <<clusterVars, runtimes, recorded, edits, faults>>
      /\ run' = IF Deploying THEN GoTo("dropUsers", OldSpaces) ELSE LeaveAccount
  BY DEF OldRevoked, At, Leaving
<1>2. CASE ~Deploying
  BY <1>1, <1>2, LeaveAccountStep
<1>3. CASE Deploying
  <2>1. run.pc # "idle" /\ Copied
    BY <1>1, LeavingFacts
  <2>2. OldSpaces \in SUBSET (Spaces \cup Repos) /\ "dropUsers" \in PC \ {"idle"}
    BY <2>1, RunFacts DEF OldSpaces, Cache, PC
  <2>3. /\ run' \in RunType /\ SameReconcile /\ run'.pc = "dropUsers" /\ run'.todo = OldSpaces
        /\ run'.new = run.new /\ run'.usage = run.usage /\ run'.failed = run.failed
    BY <1>1, <1>3, <2>1, <2>2, RunGoesTo
  <2>4. RunIsSound'
    BY <1>1, <1>3, <2>1, <2>2, <2>3, GoesOn, RunFacts
    DEF DeployPCs, FromUsage, FromProduct, FromProject, FromSpaces, Leaving
  <2>5. CopyIsRecorded'
    BY <1>1, <2>1, <2>3, SameCopy
  <2>6. TodoIsHarmless'
    <3>1. ASSUME NEW r \in Names, Kept(r), SpecOf(r).account = run.old.account
          PROVE  SpecOf(r).spaces \cap OldSpaces = {}
      <4>1. r # run.rt /\ InRecord(run.usage, r, SpecOf(r))
        BY <1>1, <3>1, LeftIsAnothers, LeavingFacts
      <4>2. SpecOf(r).spaces \subseteq AccountSpacesUsed(run.usage, run.old.account, {run.rt})
        BY <3>1, <4>1, RecordedIsUsed
      <4> QED BY <4>2 DEF OldSpaces
    <3> QED BY <1>1, <2>3, <3>1, KeptIsSame DEF TodoIsHarmless, At, Ending, SameReconcile
  <2>7. DeploymentProgress'
    BY <1>1, <2>3, LeavingProgress DEF clusterVars, Leaving
  <2>8. Applied(run.rt) => run'.new.account = run.spec.account
    BY <2>1, <2>3, RunFacts
  <2> QED BY <1>1, <2>1, <2>3, <2>4, <2>5, <2>6, <2>7, <2>8, LocalStep, FaultFacts
<1> QED BY <1>2, <1>3

LEMMA UsersDroppedKeepsInv ==
  ASSUME Inv, UsersDropped
  PROVE  Inv'
  BY LeaveAccountStep DEF UsersDropped, At, Leaving

LEMMA DropUserKeepsInv ==
  ASSUME Inv, NEW s \in Spaces, DropUser(s)
  PROVE  Inv'
<1>1. run.pc = "dropUsers" /\ run.pc \in Calls /\ run.pc \in Leaving /\ s \in run.todo
  BY DEF DropUser, At, Calls, PC, Leaving
<1>2. CASE Refuse
  BY <1>1, <1>2, RefuseKeepsInv
<1>3. CASE /\ DeleteSpaceUser(s, run.old.account) /\ Answer(GoTo("dropUsers", run.todo \ {s}))
           /\ UNCHANGED <<ns, accounts, project, apps, roles, usage, runtimes, recorded, edits>>
  <2>1. users \in [Spaces -> SUBSET (Accounts \cup {UserList})]
    BY DEF Inv, RestTyped, ClusterTypeOK
  <2>2. /\ users' \in [Spaces -> SUBSET (Accounts \cup {UserList})]
        /\ \A t \in Spaces : /\ users[t] \ {run.old.account} \subseteq users'[t]
                             /\ t # s => users'[t] = users[t]
    BY <1>3, <2>1 DEF DeleteSpaceUser
  <2>3. ClusterTypeOK'
    BY <1>3, <2>2 DEF Inv, RestTyped, ClusterTypeOK
  <2>4. KeptIsDeployed'
    <3>1. ASSUME NEW r \in Names, NEW spec \in Specs, Kept(r), SpecOf(r) = spec, DeployedAs(r, spec)
          PROVE  DeployedAs(r, spec)'
      <4>1. spec.spaces \subseteq Spaces
        BY ConstantFacts
      <4>2. spec.account = run.old.account => s \notin spec.spaces
        BY <1>1, <3>1 DEF Inv, TodoIsHarmless, At
      <4>3. HasUsers(spec)'
        BY <2>2, <3>1, <4>1, <4>2 DEF DeployedAs, HasUsers
      <4> QED BY <1>3, <3>1, <4>3 DEF DeployedAs, Operable, HasSpaces, HasRole, HasPerm
    <3> QED BY <1>3, <3>1, KeptStays
  <2>5. "dropUsers" \in PC \ {"idle"} /\ run.todo \ {s} \in SUBSET (Spaces \cup Repos)
    BY <1>1, RunFacts DEF PC
  <2>6. ASSUME run' = GoTo("dropUsers", run.todo \ {s}) PROVE TodoIsHarmless' /\ DeploymentProgress'
    <3>1. /\ SameReconcile /\ run'.pc = "dropUsers" /\ run'.usage = run.usage
          /\ run'.failed = run.failed /\ run'.todo = run.todo \ {s}
      BY <1>1, <2>5, <2>6, RunGoesTo
    <3>2. TodoIsHarmless'
      <4>1. \A r \in Names : Kept(r) /\ SpecOf(r).account = run.old.account
                               => SpecOf(r).spaces \cap run.todo = {}
        BY <1>1 DEF Inv, TodoIsHarmless, At
      <4>2. \A r \in Names : Kept(r) /\ SpecOf(r).account = run.old.account
                               => SpecOf(r).spaces \cap run'.todo = {}
        BY <3>1, <4>1
      <4> QED BY <1>3, <3>1, <4>2, KeptIsSame DEF TodoIsHarmless, At, Ending, SameReconcile
    <3>3. DeploymentProgress'
      BY <1>1, <1>3, <3>1, LeavingProgress DEF Leaving
    <3> QED BY <3>2, <3>3
  <2> QED BY <1>1, <1>3, <2>3, <2>4, <2>5, <2>6, CallGoesOn, RunFacts
<1>4. CASE Panic
  BY <1>1, <1>4, PanicKeepsInv
<1> QED BY <1>2, <1>3, <1>4 DEF DropUser

LEMMA DeleteProductRoleKeepsInv ==
  ASSUME Inv, DeleteProductRole
  PROVE  Inv'
<1>1. /\ run.pc = "deleteRole" /\ run.pc \in Calls /\ run.pc \in Leaving
      /\ Answer(GoTo("deleteAccount", {})) /\ DeleteRole(run.old.account)
      /\ UNCHANGED <<ns, users, accounts, project, apps, usage, runtimes, recorded, edits>>
  BY DEF DeleteProductRole, At, Calls, PC, Leaving
<1>2. roles \in [Accounts -> Role] /\ run.old.account \in Accounts /\ NoRole \in Role
  BY <1>1, LeavingFacts DEF Inv, RestTyped, ClusterTypeOK, NoRole, Role
<1>3. /\ roles' \in [Accounts -> Role]
      /\ \A a \in Accounts : a # run.old.account => roles'[a] = roles[a]
  BY <1>1, <1>2 DEF DeleteRole
<1>4. ClusterTypeOK'
  BY <1>1, <1>3 DEF Inv, RestTyped, ClusterTypeOK
<1>5. \A r \in Names : Kept(r) => SpecOf(r).account # run.old.account
  BY <1>1 DEF Inv, TodoIsHarmless
<1>6. KeptIsDeployed'
  <2>1. ASSUME NEW r \in Names, NEW spec \in Specs, Kept(r), SpecOf(r) = spec, DeployedAs(r, spec)
        PROVE  DeployedAs(r, spec)'
    BY <1>1, <1>3, <1>5, <2>1, ConstantFacts
    DEF DeployedAs, Operable, HasSpaces, HasUsers, HasRole, HasPerm
  <2> QED BY <1>1, <2>1, KeptStays
<1>7. "deleteAccount" \in PC \ {"idle"} /\ {} \in SUBSET (Spaces \cup Repos)
      /\ "deleteAccount" \in DeployPCs /\ "deleteAccount" \in DeletePCs
  BY DEF PC, DeployPCs, DeletePCs, FromUsage, FromProduct, FromProject, FromSpaces, Leaving
<1>8. ASSUME run' = GoTo("deleteAccount", {}) PROVE TodoIsHarmless' /\ DeploymentProgress'
  <2>1. /\ SameReconcile /\ run'.pc = "deleteAccount" /\ run'.usage = run.usage
        /\ run'.failed = run.failed
    BY <1>1, <1>7, <1>8, RunGoesTo
  <2>2. TodoIsHarmless'
    BY <1>1, <1>5, <2>1, KeptIsSame DEF TodoIsHarmless, At, Ending, SameReconcile
  <2>3. DeploymentProgress'
    BY <1>1, <2>1, LeavingProgress DEF Leaving
  <2> QED BY <2>2, <2>3
<1> QED BY <1>1, <1>4, <1>6, <1>7, <1>8, CallGoesOn

LEMMA DeleteProductAccountKeepsInv ==
  ASSUME Inv, DeleteProductAccount
  PROVE  Inv'
<1>1. /\ run.pc = "deleteAccount" /\ run.pc \in Calls /\ run.pc \in Leaving
      /\ Answer(GoTo("leftAccount", {})) /\ DeleteAccount(run.old.account)
      /\ UNCHANGED <<ns, project, apps, roles, usage, runtimes, recorded, edits>>
  BY DEF DeleteProductAccount, At, Calls, PC, Leaving
<1>2. users \in [Spaces -> SUBSET (Accounts \cup {UserList})] /\ accounts \subseteq Accounts
  BY DEF Inv, RestTyped, ClusterTypeOK
<1>3. /\ users' \in [Spaces -> SUBSET (Accounts \cup {UserList})] /\ accounts' \subseteq Accounts
      /\ accounts \ {run.old.account} \subseteq accounts'
      /\ \A s \in Spaces : users[s] \ {run.old.account} \subseteq users'[s]
  BY <1>1, <1>2 DEF DeleteAccount
<1>4. ClusterTypeOK'
  BY <1>1, <1>3 DEF Inv, RestTyped, ClusterTypeOK
<1>5. \A r \in Names : Kept(r) => SpecOf(r).account # run.old.account
  BY <1>1 DEF Inv, TodoIsHarmless
<1>6. KeptIsDeployed'
  <2>1. ASSUME NEW r \in Names, NEW spec \in Specs, Kept(r), SpecOf(r) = spec, DeployedAs(r, spec)
        PROVE  DeployedAs(r, spec)'
    <3>1. spec.spaces \subseteq Spaces /\ spec.account # run.old.account
      BY <1>5, <2>1, ConstantFacts
    <3>2. HasUsers(spec)' /\ spec.account \in accounts'
      BY <1>3, <2>1, <3>1 DEF DeployedAs, HasUsers
    <3> QED BY <1>1, <2>1, <3>2 DEF DeployedAs, Operable, HasSpaces, HasRole, HasPerm
  <2> QED BY <1>1, <2>1, KeptStays
<1>7. "leftAccount" \in PC \ {"idle"} /\ {} \in SUBSET (Spaces \cup Repos)
      /\ "leftAccount" \in DeployPCs /\ "leftAccount" \in DeletePCs
  BY DEF PC, DeployPCs, DeletePCs, FromUsage, FromProduct, FromProject, FromSpaces, Leaving
<1>8. ASSUME run' = GoTo("leftAccount", {}) PROVE TodoIsHarmless' /\ DeploymentProgress'
  <2>1. /\ SameReconcile /\ run'.pc = "leftAccount" /\ run'.usage = run.usage
        /\ run'.failed = run.failed
    BY <1>1, <1>7, <1>8, RunGoesTo
  <2>2. TodoIsHarmless'
    BY <2>1 DEF TodoIsHarmless, At, Ending
  <2>3. DeploymentProgress'
    BY <1>1, <2>1, LeavingProgress DEF Leaving
  <2> QED BY <2>2, <2>3
<1> QED BY <1>1, <1>4, <1>6, <1>7, <1>8, CallGoesOn

LEMMA AccountLeftKeepsInv ==
  ASSUME Inv, AccountLeft
  PROVE  Inv'
<1>1. /\ run.pc = "leftAccount" /\ run.pc \in Leaving
      /\ UNCHANGED <<clusterVars, runtimes, recorded, edits>> /\ faults' \in 0..MaxFaults
  BY FaultFacts DEF AccountLeft, At, Leaving
<1>2. /\ run.pc # "idle" /\ Copied /\ run.old.account \in Accounts
      /\ UsesAreUnique(run.usage)
      /\ \A r \in Names : Kept(r) => InRecord(run.usage, r, SpecOf(r))
  BY <1>1, LeavingFacts
<1>3. /\ run \in RunType /\ run.usage \in Usage /\ run.old \in Cache
      /\ Deploying <=> ~Deleting
      /\ Deleting => ~Applied(run.rt)
      /\ Applied(run.rt) => run.new.account = run.spec.account
  BY <1>2, RunFacts
<1> DEFINE u == ForgetAccount(run.usage, run.old.account, run.rt)
<1>4. /\ u \in Usage /\ u.runtimes = run.usage.runtimes /\ u.space = run.usage.space
      /\ u.account = {x \in run.usage.account : ~(x.account = run.old.account /\ x.runtime = run.rt)}
  BY <1>3 DEF ForgetAccount, Usage
<1> DEFINE pc == IF Deploying THEN "createAccount" ELSE "deleteSpaces"
           todo == IF Deploying THEN {} ELSE OutdatedSpaces(u, {run.rt})
<1>5. run' = [run EXCEPT !.usage = u, !.pc = pc, !.todo = todo]
  BY DEF AccountLeft
<1>6. pc \in PC \ {"idle"} /\ todo \in SUBSET (Spaces \cup Repos)
      /\ (Deploying => pc \in DeployPCs) /\ (Deleting => pc \in DeletePCs) /\ pc \notin Leaving
  BY <1>3 DEF PC, OutdatedSpaces, Cache, DeployPCs, DeletePCs, FromUsage, FromProduct, FromProject,
              FromSpaces, Leaving
<1>7. /\ Deploying => pc = "createAccount"
      /\ Deleting => pc = "deleteSpaces" /\ todo = OutdatedSpaces(u, {run.rt})
  BY <1>3
<1> HIDE DEF u, pc, todo
<1>8. /\ run' \in RunType /\ SameReconcile /\ run'.pc = pc /\ run'.usage = u /\ run'.todo = todo
      /\ run'.new = run.new /\ run'.failed = run.failed
  BY <1>3, <1>4, <1>5, <1>6 DEF RunType, SameReconcile
<1>9. RunIsSound'
  BY <1>2, <1>6, <1>8, GoesOn
<1>10. \A r \in Names : Kept(r) => InRecord(u, r, SpecOf(r))
  <2> SUFFICES ASSUME NEW r \in Names, Kept(r) PROVE InRecord(u, r, SpecOf(r))
    OBVIOUS
  <2>1. InRecord(run.usage, r, SpecOf(r))
    BY <1>2
  <2>2. SpecOf(r).account = run.old.account => r # run.rt
    BY <1>1, LeftIsAnothers
  <2> QED BY <1>4, <2>1, <2>2 DEF InRecord, RecordedSpaces, RecordedPerm
<1>11. CopyIsRecorded'
  <2>1. UsesAreUnique(u)
    BY <1>2, <1>4 DEF UsesAreUnique
  <2> QED BY <1>1, <1>8, <1>10, <2>1, KeptIsSame
      DEF CopyIsRecorded, UsesAreUnique, InRecord, RecordedSpaces, RecordedPerm
<1>12. TodoIsHarmless'
  <2>1. ASSUME NEW r \in Names, Kept(r), Deleting PROVE SpecOf(r).spaces \cap todo = {}
    <3>1. r # run.rt
      BY <1>3, <2>1 DEF Kept
    <3>2. SpecOf(r).spaces \subseteq SpacesUsed(u, {run.rt})
      BY <1>10, <2>1, <3>1, RecordedIsUsed
    <3> QED BY <1>7, <2>1, <3>2 DEF OutdatedSpaces
  <2>2. CASE Deleting
    BY <1>1, <1>7, <1>8, <2>1, <2>2, KeptIsSame DEF TodoIsHarmless, At, Ending, SameReconcile
  <2>3. CASE Deploying
    BY <1>7, <1>8, <2>3 DEF TodoIsHarmless, At, Ending
  <2> QED BY <1>3, <2>2, <2>3
<1>13. DeploymentProgress'
  BY <1>1, <1>4, <1>7, <1>8, LeavingProgress DEF clusterVars
<1> QED BY <1>1, <1>2, <1>3, <1>8, <1>9, <1>11, <1>12, <1>13, LocalStep

-----------------------------------------------------------------------------
(* The account of a deployment. *)

\* The steps from createAccount to createApp belong to deployments.
LEMMA DeployingFacts ==
  ASSUME Inv, run.pc \in {"createAccount", "addUsers", "createRole", "grant", "revoke", "createApp"}
  PROVE  /\ run.pc # "idle" /\ Copied /\ Deploying /\ ~Deleting
         /\ run.spec \in Specs /\ run.spec.spaces \subseteq Spaces /\ run.spec.account \in Accounts
         /\ run.spec.repo \in Repos
         /\ UsesAreUnique(run.usage)
         /\ \A r \in Names : Kept(r) => InRecord(run.usage, r, SpecOf(r)) /\ DeployedAs(r, SpecOf(r))
         /\ ~run.failed =>
              /\ run.rt \in run.usage.runtimes /\ Operable(Product) /\ project = "granted"
              /\ HasSpaces(run.spec) /\ RecordedSpaces(run.usage, run.rt, run.spec)
<1>1. run.pc # "idle" /\ Copied
  BY DEF Copied, PC
<1>2. Deploying /\ ~Deleting
  BY <1>1, RunFacts DEF DeletePCs, Leaving, Ending
<1>3. ~run.failed =>
        /\ run.rt \in run.usage.runtimes /\ Operable(Product) /\ project = "granted"
        /\ HasSpaces(run.spec) /\ RecordedSpaces(run.usage, run.rt, run.spec)
  BY <1>2
  DEF Inv, DeploymentProgress, FromUsage, FromProduct, FromProject, FromSpaces, FromAccount,
      FromUsers, FromRole, FromGranted
<1>4. /\ run.spec \in Specs /\ run.spec.spaces \subseteq Spaces /\ run.spec.account \in Accounts
      /\ run.spec.repo \in Repos
  BY <1>1, RunFacts, ConstantFacts
<1> QED BY <1>1, <1>2, <1>3, <1>4 DEF Inv, CopyIsRecorded, KeptIsDeployed

LEMMA CreateProductAccountKeepsInv ==
  ASSUME Inv, CreateProductAccount
  PROVE  Inv'
<1>1. run.pc = "createAccount" /\ run.pc \in Calls
  BY DEF CreateProductAccount, At, Calls, PC
<1>2. CASE Refuse
  BY <1>1, <1>2, RefuseKeepsInv
<1>3. CASE /\ CreateAccount(run.spec.account) /\ Answer(GoTo("addUsers", run.spec.spaces))
           /\ UNCHANGED <<ns, users, project, apps, roles, usage, runtimes, recorded, edits>>
  <2>1. /\ run.pc # "idle" /\ Deploying /\ ~Deleting /\ run.spec \in Specs
        /\ run.spec.spaces \subseteq Spaces /\ run.spec.account \in Accounts
        /\ ~run.failed =>
             /\ run.rt \in run.usage.runtimes /\ Operable(Product) /\ project = "granted"
             /\ HasSpaces(run.spec) /\ RecordedSpaces(run.usage, run.rt, run.spec)
    BY <1>1, DeployingFacts
  <2>2. accounts' = accounts \cup {run.spec.account}
    BY <1>3 DEF CreateAccount
  <2>3. ClusterTypeOK' /\ ClusterGrows
    BY <1>3, <2>1, <2>2 DEF Inv, RestTyped, ClusterTypeOK, ClusterGrows, Operable
  <2>4. KeptIsDeployed'
    BY <1>3, <2>3, GrowthKeeps
  <2>5. "addUsers" \in PC \ {"idle"} /\ run.spec.spaces \in SUBSET (Spaces \cup Repos)
        /\ "addUsers" \in DeployPCs /\ "addUsers" \notin Leaving
    BY <2>1 DEF PC, DeployPCs, FromUsage, FromProduct, FromProject, FromSpaces, FromAccount, Leaving
  <2>6. ASSUME run' = GoTo("addUsers", run.spec.spaces) PROVE TodoIsHarmless' /\ DeploymentProgress'
    <3>1. /\ SameReconcile /\ run'.pc = "addUsers" /\ run'.usage = run.usage
          /\ run'.failed = run.failed /\ run'.todo = run.spec.spaces
      BY <2>1, <2>5, <2>6, RunGoesTo
    <3>2. TodoIsHarmless'
      BY <3>1 DEF TodoIsHarmless, At, Ending
    <3>3. DeploymentProgress'
      BY <1>3, <2>1, <2>2, <3>1
      DEF DeploymentProgress, At, SameReconcile, FromUsers, FromRole, FromGranted, FromSaved,
          Operable, HasSpaces, RecordedSpaces
    <3> QED BY <3>2, <3>3
  <2> QED BY <1>1, <1>3, <2>1, <2>3, <2>4, <2>5, <2>6, CallGoesOn
<1> QED BY <1>2, <1>3 DEF CreateProductAccount

LEMMA AddUserKeepsInv ==
  ASSUME Inv, NEW s \in Spaces, AddUser(s)
  PROVE  Inv'
<1>1. run.pc = "addUsers" /\ run.pc \in Calls
  BY DEF AddUser, At, Calls, PC
<1>2. CASE Refuse
  BY <1>1, <1>2, RefuseKeepsInv
<1>3. CASE /\ AddSpaceUser(s, run.spec.account) /\ Answer(GoTo("addUsers", run.todo \ {s}))
           /\ UNCHANGED <<ns, accounts, project, apps, roles, usage, runtimes, recorded, edits>>
  <2>1. /\ run.pc # "idle" /\ Deploying /\ ~Deleting /\ run.spec \in Specs
        /\ run.spec.spaces \subseteq Spaces /\ run.spec.account \in Accounts
        /\ ~run.failed =>
             /\ run.rt \in run.usage.runtimes /\ Operable(Product) /\ project = "granted"
             /\ HasSpaces(run.spec) /\ RecordedSpaces(run.usage, run.rt, run.spec)
    BY <1>1, DeployingFacts
  <2>2. ~run.failed => /\ run.spec.account \in accounts
                       /\ \A t \in run.spec.spaces \ run.todo : run.spec.account \in users[t]
    BY <1>1, <2>1 DEF Inv, DeploymentProgress, At, FromAccount
  <2>3. users \in [Spaces -> SUBSET (Accounts \cup {UserList})]
    BY DEF Inv, RestTyped, ClusterTypeOK
  <2>4. /\ users' \in [Spaces -> SUBSET (Accounts \cup {UserList})] /\ run.spec.account \in users'[s]
        /\ \A t \in Spaces : users[t] \subseteq users'[t]
    BY <1>3, <2>1, <2>3 DEF AddSpaceUser
  <2>5. ClusterTypeOK' /\ ClusterGrows
    BY <1>3, <2>4 DEF Inv, RestTyped, ClusterTypeOK, ClusterGrows, Operable
  <2>6. KeptIsDeployed'
    BY <1>3, <2>5, GrowthKeeps
  <2>7. "addUsers" \in PC \ {"idle"} /\ run.todo \ {s} \in SUBSET (Spaces \cup Repos)
        /\ "addUsers" \in DeployPCs /\ "addUsers" \notin Leaving
    BY <2>1, RunFacts
    DEF PC, DeployPCs, FromUsage, FromProduct, FromProject, FromSpaces, FromAccount, Leaving
  <2>8. ASSUME run' = GoTo("addUsers", run.todo \ {s}) PROVE TodoIsHarmless' /\ DeploymentProgress'
    <3>1. /\ SameReconcile /\ run'.pc = "addUsers" /\ run'.usage = run.usage
          /\ run'.failed = run.failed /\ run'.todo = run.todo \ {s}
      BY <2>1, <2>7, <2>8, RunGoesTo
    <3>2. TodoIsHarmless'
      BY <3>1 DEF TodoIsHarmless, At, Ending
    <3>3. ~run.failed => \A t \in run.spec.spaces \ run'.todo : run.spec.account \in users'[t]
      BY <2>1, <2>2, <2>4, <3>1
    <3>4. DeploymentProgress'
      BY <1>3, <2>1, <2>2, <3>1, <3>3
      DEF DeploymentProgress, At, SameReconcile, FromUsers, FromRole, FromGranted, FromSaved,
          Operable, HasSpaces, RecordedSpaces
    <3> QED BY <3>2, <3>4
  <2> QED BY <1>1, <1>3, <2>1, <2>5, <2>6, <2>7, <2>8, CallGoesOn
<1> QED BY <1>2, <1>3 DEF AddUser

\* The use of an account by a runtime is replaced: there is one afterwards, and
\* every other use is as it was.
LEMMA UseFacts ==
  ASSUME NEW u \in Usage, UsesAreUnique(u), NEW a \in Accounts, NEW q \in Names
  PROVE  LET x == UseOf(u, a, q)
         IN /\ x \in AccountUse /\ x.account = a /\ x.runtime = q
            /\ \A y \in u.account : y.account = a /\ y.runtime = q => y = x
            /\ x.spaces # {} => x \in u.account
<1>1. CASE \E y \in u.account : y.account = a /\ y.runtime = q
  <2>1. PICK y \in u.account : y.account = a /\ y.runtime = q
    BY <1>1
  <2>2. UseOf(u, a, q) = CHOOSE z \in u.account : z.account = a /\ z.runtime = q
    BY <1>1 DEF UseOf
  <2>3. UseOf(u, a, q) \in u.account /\ UseOf(u, a, q).account = a /\ UseOf(u, a, q).runtime = q
    BY <2>1, <2>2
  <2>4. u.account \subseteq AccountUse
    BY DEF Usage
  <2> QED BY <2>3, <2>4 DEF UsesAreUnique
<1>2. CASE ~\E y \in u.account : y.account = a /\ y.runtime = q
  <2>1. UseOf(u, a, q) = [account |-> a, runtime |-> q, spaces |-> {}, perms |-> {}]
    BY <1>2 DEF UseOf
  <2> QED BY <1>2, <2>1 DEF AccountUse
<1> QED BY <1>1, <1>2

UseReplaced(u, a, q, y) == [ForgetAccount(u, a, q) EXCEPT !.account = @ \cup {y}]

LEMMA ReplacedUse ==
  ASSUME NEW u \in Usage, UsesAreUnique(u), NEW a \in Accounts, NEW q \in Names,
         NEW y \in AccountUse, y.account = a, y.runtime = q,
         NEW v, v = UseReplaced(u, a, q, y)
  PROVE  /\ v \in Usage /\ UsesAreUnique(v) /\ v.runtimes = u.runtimes /\ v.space = u.space
         /\ y \in v.account
         /\ \A x \in u.account : ~(x.account = a /\ x.runtime = q) => x \in v.account
<1> DEFINE w == ForgetAccount(u, a, q)
<1>1. /\ w \in Usage /\ w.runtimes = u.runtimes /\ w.space = u.space
      /\ w.account = {x \in u.account : ~(x.account = a /\ x.runtime = q)}
  BY DEF ForgetAccount, Usage
<1> HIDE DEF w
<1>2. /\ v \in Usage /\ v.runtimes = w.runtimes /\ v.space = w.space
      /\ v.account = w.account \cup {y}
  <2>1. v = [w EXCEPT !.account = @ \cup {y}]
    BY DEF w, UseReplaced
  <2>2. w.account \cup {y} \in SUBSET AccountUse
    BY <1>1 DEF Usage
  <2>3. PICK z \in SUBSET AccountUse : z = w.account \cup {y}
    BY <2>2
  <2>4. v = [w EXCEPT !.account = z]
    BY <2>1, <2>3
  <2> QED BY <1>1, <2>3, <2>4 DEF Usage
<1>3. UsesAreUnique(v)
  BY <1>1, <1>2 DEF UsesAreUnique
<1> QED BY <1>1, <1>2, <1>3

LEMMA UsersAddedKeepsInv ==
  ASSUME Inv, UsersAdded
  PROVE  Inv'
<1>1. /\ run.pc = "addUsers" /\ run.todo = {}
      /\ UNCHANGED <<clusterVars, runtimes, recorded, edits>> /\ faults' \in 0..MaxFaults
  BY FaultFacts DEF UsersAdded, At
<1>2. PICK q \in Names : q = run.rt
  BY <1>1, RunFacts
<1>3. /\ run.pc # "idle" /\ Deploying /\ ~Deleting /\ run.spec \in Specs
      /\ run.spec.spaces \subseteq Spaces /\ run.spec.account \in Accounts
      /\ UsesAreUnique(run.usage) /\ Copied
      /\ \A r \in Names : Kept(r) => InRecord(run.usage, r, SpecOf(r))
      /\ ~run.failed =>
           /\ run.rt \in run.usage.runtimes /\ Operable(Product) /\ project = "granted"
           /\ HasSpaces(run.spec) /\ RecordedSpaces(run.usage, run.rt, run.spec)
  BY <1>1, DeployingFacts
<1>4. /\ run \in RunType /\ run.usage \in Usage
      /\ Applied(q) => SpecOf(q) = run.spec /\ run.new.account = run.spec.account
  BY <1>2, <1>3, RunFacts
<1>0. PICK a \in Accounts : a = run.spec.account
  BY <1>3
<1> DEFINE y == [UseOf(run.usage, a, q) EXCEPT !.spaces = run.spec.spaces]
           u == UpdateSpaces(run.usage, a, q, run.spec.spaces)
<1>5. /\ y \in AccountUse /\ y.account = a /\ y.runtime = q /\ y.spaces = run.spec.spaces
      /\ \A x \in run.usage.account : x.account = a /\ x.runtime = q => x.perms = y.perms
  BY <1>3, <1>4, UseFacts DEF AccountUse
<1>6. u = UseReplaced(run.usage, a, q, y)
  BY DEF UpdateSpaces, UseReplaced
<1>7. run' = [run EXCEPT !.pc = "createRole", !.usage = u]
  BY <1>0, <1>2, <1>4 DEF UsersAdded, RunType
<1> HIDE DEF y, u
<1>8. /\ u \in Usage /\ UsesAreUnique(u) /\ u.runtimes = run.usage.runtimes
      /\ u.space = run.usage.space /\ y \in u.account
      /\ \A x \in run.usage.account : ~(x.account = a /\ x.runtime = q) => x \in u.account
  BY <1>3, <1>4, <1>5, <1>6, ReplacedUse
<1>9. "createRole" \in PC \ {"idle"} /\ "createRole" \in DeployPCs /\ "createRole" \notin Leaving
  BY DEF PC, DeployPCs, FromUsage, FromProduct, FromProject, FromSpaces, FromAccount, FromUsers, Leaving
<1>10. /\ run' \in RunType /\ SameReconcile /\ run'.pc = "createRole" /\ run'.usage = u
       /\ run'.new = run.new /\ run'.failed = run.failed /\ run'.todo = run.todo
  BY <1>4, <1>7, <1>8, <1>9 DEF RunType, SameReconcile
<1>11. RunIsSound'
  BY <1>3, <1>9, <1>10, GoesOn
<1>12. \A r \in Names : Kept(r) => InRecord(u, r, SpecOf(r))
  <2> SUFFICES ASSUME NEW r \in Names, Kept(r) PROVE InRecord(u, r, SpecOf(r))
    OBVIOUS
  <2>1. InRecord(run.usage, r, SpecOf(r))
    BY <1>3
  <2>2. RecordedSpaces(u, r, SpecOf(r))
    BY <1>8, <2>1 DEF InRecord, RecordedSpaces
  <2>3. PICK x \in run.usage.account :
          /\ x.account = SpecOf(r).account /\ x.runtime = r
          /\ SpecOf(r).spaces \subseteq x.spaces /\ SpecOf(r).repo \in x.perms
    BY <2>1 DEF InRecord, RecordedPerm
  <2>4. CASE ~(x.account = a /\ x.runtime = q)
    BY <1>8, <2>2, <2>3, <2>4 DEF InRecord, RecordedPerm
  <2>5. CASE x.account = a /\ x.runtime = q
    <3>1. SpecOf(r) = run.spec /\ r = q /\ a = run.spec.account
      BY <1>0, <1>4, <2>3, <2>5 DEF Kept
    <3>2. run.spec.repo \in y.perms
      BY <1>5, <2>3, <2>5, <3>1
    <3> QED BY <1>5, <1>8, <2>2, <3>1, <3>2 DEF InRecord, RecordedPerm
  <2> QED BY <2>4, <2>5
<1>13. CopyIsRecorded'
  BY <1>1, <1>8, <1>10, <1>12, KeptIsSame
  DEF CopyIsRecorded, UsesAreUnique, InRecord, RecordedSpaces, RecordedPerm
<1>14. TodoIsHarmless'
  BY <1>10 DEF TodoIsHarmless, At, Ending
<1>15. DeploymentProgress'
  <2>1. ~run.failed => run.spec.account \in accounts /\ HasUsers(run.spec)
    BY <1>1, <1>3 DEF Inv, DeploymentProgress, At, FromAccount, HasUsers
  <2>2. RecordedUse(u, q, run.spec)
    BY <1>0, <1>5, <1>8 DEF RecordedUse
  <2>3. ~run.failed => RecordedSpaces(u, q, run.spec)
    BY <1>2, <1>3, <1>8 DEF RecordedSpaces
  <2> QED BY <1>1, <1>2, <1>3, <1>8, <1>10, <2>1, <2>2, <2>3
      DEF DeploymentProgress, At, SameReconcile, FromRole, FromGranted, FromSaved,
          Operable, HasSpaces, HasUsers, RecordedSpaces, RecordedUse, clusterVars
<1> QED BY <1>1, <1>2, <1>3, <1>4, <1>10, <1>11, <1>13, <1>14, <1>15, LocalStep

LEMMA CreateAccountRoleKeepsInv ==
  ASSUME Inv, CreateAccountRole
  PROVE  Inv'
<1>1. run.pc = "createRole" /\ run.pc \in Calls
  BY DEF CreateAccountRole, At, Calls, PC
<1>2. CASE Refuse
  BY <1>1, <1>2, RefuseKeepsInv
<1>3. CASE /\ CreateRole(run.spec.account) /\ Answer(GoTo("grant", {}))
           /\ UNCHANGED <<ns, users, accounts, project, apps, usage, runtimes, recorded, edits>>
  <2>1. /\ run.pc # "idle" /\ Deploying /\ ~Deleting /\ run.spec \in Specs
        /\ run.spec.spaces \subseteq Spaces /\ run.spec.account \in Accounts
        /\ ~run.failed =>
             /\ run.rt \in run.usage.runtimes /\ Operable(Product) /\ project = "granted"
             /\ HasSpaces(run.spec) /\ RecordedSpaces(run.usage, run.rt, run.spec)
    BY <1>1, DeployingFacts
  <2>2. ~run.failed => /\ run.spec.account \in accounts /\ HasUsers(run.spec)
                       /\ RecordedUse(run.usage, run.rt, run.spec)
    BY <1>1, <2>1 DEF Inv, DeploymentProgress, FromAccount, FromUsers
  <2>3. roles \in [Accounts -> Role] /\ AccountSpaces(run.spec.account) \subseteq Spaces
    BY DEF Inv, RestTyped, ClusterTypeOK, AccountSpaces
  <2>4. /\ roles' \in [Accounts -> Role]
        /\ roles'[run.spec.account].exists
        /\ roles'[run.spec.account].spaces = AccountSpaces(run.spec.account)
        /\ \A a \in Accounts : /\ a # run.spec.account => roles'[a] = roles[a]
                               /\ roles'[a].perms = roles[a].perms
    BY <1>3, <2>1, <2>3 DEF CreateRole, Role
  <2>5. ClusterTypeOK'
    BY <1>3, <2>4 DEF Inv, RestTyped, ClusterTypeOK
  <2>6. ASSUME NEW spec \in Specs, HasSpaces(spec), HasUsers(spec), spec.account = run.spec.account
        PROVE  HasRole(spec)'
    <3>1. spec.spaces \subseteq AccountSpaces(spec.account)
      BY <2>6, ConstantFacts DEF HasSpaces, HasUsers, AccountSpaces
    <3> QED BY <2>4, <2>6, <3>1 DEF HasRole
  <2>7. KeptIsDeployed'
    <3>1. ASSUME NEW r \in Names, NEW spec \in Specs, DeployedAs(r, spec) PROVE DeployedAs(r, spec)'
      <4>1. HasRole(spec)'
        BY <2>4, <2>6, <3>1, ConstantFacts DEF DeployedAs, HasRole
      <4> QED BY <1>3, <2>4, <3>1, <4>1, ConstantFacts
          DEF DeployedAs, Operable, HasSpaces, HasUsers, HasPerm
    <3> QED BY <1>3, <3>1, KeptStays
  <2>8. "grant" \in PC \ {"idle"} /\ {} \in SUBSET (Spaces \cup Repos)
        /\ "grant" \in DeployPCs /\ "grant" \notin Leaving
    BY DEF PC, DeployPCs, FromUsage, FromProduct, FromProject, FromSpaces, FromAccount, FromUsers,
           FromRole, Leaving
  <2>9. ASSUME run' = GoTo("grant", {}) PROVE TodoIsHarmless' /\ DeploymentProgress'
    <3>1. /\ SameReconcile /\ run'.pc = "grant" /\ run'.usage = run.usage
          /\ run'.failed = run.failed
      BY <2>1, <2>8, <2>9, RunGoesTo
    <3>2. TodoIsHarmless'
      BY <3>1 DEF TodoIsHarmless, At, Ending
    <3>3. PICK spec \in Specs : spec = run.spec
      BY <2>1
    <3>4. ~run.failed => roles'[run.spec.account].exists
                         /\ run.spec.spaces \subseteq roles'[run.spec.account].spaces
      <4>1. ~run.failed => HasRole(spec)'
        BY <2>1, <2>2, <2>6, <3>3
      <4> QED BY <3>3, <4>1 DEF HasRole
    <3>5. DeploymentProgress'
      BY <1>3, <2>1, <2>2, <3>1, <3>4
      DEF DeploymentProgress, At, SameReconcile, FromGranted, FromSaved,
          Operable, HasSpaces, HasUsers, HasRole, RecordedSpaces, RecordedUse
    <3> QED BY <3>2, <3>5
  <2> QED BY <1>1, <1>3, <2>1, <2>5, <2>7, <2>8, <2>9, CallGoesOn
<1> QED BY <1>2, <1>3 DEF CreateAccountRole

LEMMA GrantKeepsInv ==
  ASSUME Inv, Grant
  PROVE  Inv'
<1>1. run.pc = "grant" /\ run.pc \in Calls
  BY DEF Grant, At, Calls, PC
<1>2. CASE Refuse
  BY <1>1, <1>2, RefuseKeepsInv
<1> DEFINE w == UpdatePermissions(run.usage, run.spec.account, run.rt, {run.spec.repo})
           next == [run EXCEPT !.pc = "revoke", !.usage = w,
                               !.todo = run.old.perms \ PermsUsed(w, run.spec.account, {})]
<1>3. CASE /\ GrantPermission(run.spec.account, run.spec.repo) /\ Answer(next)
           /\ UNCHANGED <<ns, users, accounts, project, apps, usage, runtimes, recorded, edits>>
  <2>1. PICK q \in Names : q = run.rt
    BY <1>1, RunFacts
  <2>2. /\ run.pc # "idle" /\ Deploying /\ ~Deleting /\ run.spec \in Specs
        /\ run.spec.spaces \subseteq Spaces /\ run.spec.account \in Accounts /\ run.spec.repo \in Repos
        /\ UsesAreUnique(run.usage) /\ Copied
        /\ \A r \in Names : Kept(r) => InRecord(run.usage, r, SpecOf(r))
        /\ ~run.failed =>
             /\ run.rt \in run.usage.runtimes /\ Operable(Product) /\ project = "granted"
             /\ HasSpaces(run.spec) /\ RecordedSpaces(run.usage, run.rt, run.spec)
    BY <1>1, DeployingFacts
  <2>3. ~run.failed => /\ run.spec.account \in accounts /\ HasUsers(run.spec)
                       /\ RecordedUse(run.usage, run.rt, run.spec) /\ HasRole(run.spec)
    BY <1>1, <2>2 DEF Inv, DeploymentProgress, FromAccount, FromUsers, FromRole
  <2>4. /\ run \in RunType /\ run.usage \in Usage /\ run.old \in Cache
        /\ Applied(q) => SpecOf(q) = run.spec
        /\ Applied(run.rt) => run.new.account = run.spec.account
    BY <2>1, <2>2, RunFacts
  <2>5. PICK a \in Accounts : a = run.spec.account
    BY <2>2
  <2> DEFINE y == [UseOf(run.usage, a, q) EXCEPT !.perms = {run.spec.repo}]
             u == UpdatePermissions(run.usage, a, q, {run.spec.repo})
             todo == run.old.perms \ PermsUsed(u, a, {})
  <2>6. /\ y \in AccountUse /\ y.account = a /\ y.runtime = q /\ y.perms = {run.spec.repo}
        /\ \A x \in run.usage.account : x.account = a /\ x.runtime = q => x.spaces = y.spaces
    BY <2>2, <2>4, UseFacts DEF AccountUse
  <2>7. u = UseReplaced(run.usage, a, q, y)
    BY DEF UpdatePermissions, UseReplaced
  <2>8. next = [run EXCEPT !.pc = "revoke", !.usage = u, !.todo = todo]
    BY <2>1, <2>5
  <2>9. todo \in SUBSET Repos
    BY <2>4 DEF Cache
  <2>10. todo = run.old.perms \ PermsUsed(u, a, {})
    OBVIOUS
  <2>11. PICK n : n = next
    OBVIOUS
  <2> HIDE DEF y, u, todo, next
  <2>12. /\ u \in Usage /\ UsesAreUnique(u) /\ u.runtimes = run.usage.runtimes
         /\ u.space = run.usage.space /\ y \in u.account
         /\ \A x \in run.usage.account : ~(x.account = a /\ x.runtime = q) => x \in u.account
    BY <2>2, <2>4, <2>6, <2>7, ReplacedUse
  <2>13. roles \in [Accounts -> Role]
    BY DEF Inv, RestTyped, ClusterTypeOK
  <2>14. /\ roles' \in [Accounts -> Role] /\ run.spec.repo \in roles'[a].perms
         /\ \A b \in Accounts : /\ roles'[b].exists = roles[b].exists
                                /\ roles'[b].spaces = roles[b].spaces
                                /\ roles[b].perms \subseteq roles'[b].perms
    BY <1>3, <2>2, <2>5, <2>13 DEF GrantPermission, Role
  <2>15. ClusterTypeOK' /\ ClusterGrows
    BY <1>3, <2>14 DEF Inv, RestTyped, ClusterTypeOK, ClusterGrows, Operable
  <2>16. KeptIsDeployed'
    BY <1>3, <2>15, GrowthKeeps
  <2>17. faults' \in 0..MaxFaults
    BY <1>3, FaultFacts DEF Answer
  <2>18. CASE run' = Failed
    BY <1>1, <1>3, <2>15, <2>16, <2>17, <2>18, FailedStep
  <2>19. CASE run' = next
    <3>1. "revoke" \in PC \ {"idle"} /\ "revoke" \in DeployPCs /\ "revoke" \notin Leaving
      BY DEF PC, DeployPCs, FromUsage, FromProduct, FromProject, FromSpaces, FromAccount,
             FromUsers, FromRole, FromGranted, Leaving
    <3>2. /\ run' \in RunType /\ SameReconcile /\ run'.pc = "revoke" /\ run'.usage = u
          /\ run'.new = run.new /\ run'.failed = run.failed /\ run'.todo = todo
      BY <2>4, <2>8, <2>9, <2>12, <2>19, <3>1 DEF RunType, SameReconcile
    <3>3. RunIsSound'
      BY <2>2, <3>1, <3>2, GoesOn
    <3>4. \A r \in Names : Kept(r) => InRecord(u, r, SpecOf(r))
      <4> SUFFICES ASSUME NEW r \in Names, Kept(r) PROVE InRecord(u, r, SpecOf(r))
        OBVIOUS
      <4>1. InRecord(run.usage, r, SpecOf(r))
        BY <2>2
      <4>2. RecordedSpaces(u, r, SpecOf(r))
        BY <2>12, <4>1 DEF InRecord, RecordedSpaces
      <4>3. PICK x \in run.usage.account :
              /\ x.account = SpecOf(r).account /\ x.runtime = r
              /\ SpecOf(r).spaces \subseteq x.spaces /\ SpecOf(r).repo \in x.perms
        BY <4>1 DEF InRecord, RecordedPerm
      <4>4. CASE ~(x.account = a /\ x.runtime = q)
        BY <2>12, <4>2, <4>3, <4>4 DEF InRecord, RecordedPerm
      <4>5. CASE x.account = a /\ x.runtime = q
        <5>1. SpecOf(r) = run.spec /\ r = q
          BY <2>4, <4>3, <4>5 DEF Kept
        <5>2. run.spec.spaces \subseteq y.spaces
          BY <2>6, <4>3, <4>5, <5>1
        <5> QED BY <2>5, <2>6, <2>12, <4>2, <5>1, <5>2 DEF InRecord, RecordedPerm
      <4> QED BY <4>4, <4>5
    <3>5. CopyIsRecorded'
      BY <1>3, <2>12, <3>2, <3>4, KeptIsSame
      DEF CopyIsRecorded, UsesAreUnique, InRecord, RecordedSpaces, RecordedPerm
    <3>6. TodoIsHarmless'
      <4>1. ASSUME NEW r \in Names, Kept(r), SpecOf(r).account = a PROVE SpecOf(r).repo \notin todo
        BY <2>10, <3>4, <4>1, RecordedIsUsed
      <4> QED BY <1>3, <2>5, <3>2, <4>1, KeptIsSame DEF TodoIsHarmless, At, Ending, SameReconcile
    <3>7. ~run.failed => /\ RecordedUse(u, q, run.spec) /\ RecordedPerm(u, q, run.spec)
                         /\ RecordedSpaces(u, q, run.spec)
      <4>1. SUFFICES ASSUME ~run.failed
                     PROVE  /\ RecordedUse(u, q, run.spec) /\ RecordedPerm(u, q, run.spec)
                            /\ RecordedSpaces(u, q, run.spec)
        OBVIOUS
      <4>2. PICK x \in run.usage.account : x.account = a /\ x.runtime = q
                                           /\ run.spec.spaces \subseteq x.spaces
        BY <2>1, <2>3, <2>5, <4>1 DEF RecordedUse
      <4>3. run.spec.spaces \subseteq y.spaces
        BY <2>6, <4>2
      <4>4. RecordedSpaces(u, q, run.spec)
        BY <2>1, <2>2, <2>12, <4>1 DEF RecordedSpaces
      <4> QED BY <2>5, <2>6, <2>12, <4>3, <4>4 DEF RecordedUse, RecordedPerm
    <3>8. ~run.failed => run.spec.repo \notin todo
      BY <2>2, <2>5, <2>10, <3>7, RecordedIsUsed DEF InRecord
    <3>9. DeploymentProgress'
      <4>1. ~run.failed => HasRole(run.spec)' /\ HasPerm(run.spec)'
        BY <1>3, <2>2, <2>3, <2>5, <2>14, <3>2 DEF HasRole, HasPerm, SameReconcile
      <4>2. ~run.failed => /\ roles'[run.spec.account].exists
                           /\ run.spec.spaces \subseteq roles'[run.spec.account].spaces
                           /\ run.spec.repo \in roles'[run.spec.account].perms
        BY <3>2, <4>1 DEF HasRole, HasPerm, SameReconcile
      <4> QED BY <1>3, <2>1, <2>2, <2>3, <2>12, <3>2, <3>7, <3>8, <4>2
          DEF DeploymentProgress, At, SameReconcile, FromSaved, Operable, HasSpaces, HasUsers,
              HasRole, HasPerm, RecordedSpaces, RecordedUse, RecordedPerm
    <3>10. Applied(run.rt) => run'.new.account = run.spec.account
      BY <2>4, <3>2
    <3> QED BY <1>3, <2>2, <2>15, <2>16, <2>17, <3>2, <3>3, <3>5, <3>6, <3>9, <3>10, AnyStep
  <2> QED BY <1>3, <2>18, <2>19 DEF Answer
<1> QED BY <1>2, <1>3 DEF Grant

LEMMA RevokeKeepsInv ==
  ASSUME Inv, NEW p \in Repos, Revoke(p)
  PROVE  Inv'
<1>1. /\ run.pc = "revoke" /\ run.pc \in Calls /\ p \in run.todo
      /\ Answer(GoTo("revoke", run.todo \ {p}))
      /\ UNCHANGED <<ns, users, accounts, project, apps, usage, runtimes, recorded, edits>>
      /\ RevokePermission(run.spec.account, p)
  BY DEF Revoke, At, Calls, PC
<1>2. /\ run.pc # "idle" /\ Deploying /\ ~Deleting /\ run.spec \in Specs
      /\ run.spec.account \in Accounts
      /\ ~run.failed =>
           /\ run.rt \in run.usage.runtimes /\ Operable(Product) /\ project = "granted"
           /\ HasSpaces(run.spec) /\ RecordedSpaces(run.usage, run.rt, run.spec)
  BY <1>1, DeployingFacts
<1>3. ~run.failed => /\ run.spec.account \in accounts /\ HasUsers(run.spec)
                     /\ RecordedUse(run.usage, run.rt, run.spec) /\ HasRole(run.spec)
                     /\ HasPerm(run.spec) /\ RecordedPerm(run.usage, run.rt, run.spec)
                     /\ run.spec.repo \notin run.todo
  BY <1>1, <1>2 DEF Inv, DeploymentProgress, FromAccount, FromUsers, FromRole, FromGranted, At
<1>4. roles \in [Accounts -> Role]
  BY DEF Inv, RestTyped, ClusterTypeOK
<1>5. /\ roles' \in [Accounts -> Role]
      /\ \A a \in Accounts : /\ roles'[a].exists = roles[a].exists
                             /\ roles'[a].spaces = roles[a].spaces
                             /\ roles[a].perms \ {p} \subseteq roles'[a].perms
                             /\ a # run.spec.account => roles'[a].perms = roles[a].perms
  BY <1>1, <1>2, <1>4 DEF RevokePermission, Role
<1>6. ClusterTypeOK'
  BY <1>1, <1>5 DEF Inv, RestTyped, ClusterTypeOK
<1>7. KeptIsDeployed'
  <2>1. ASSUME NEW r \in Names, NEW spec \in Specs, Kept(r), SpecOf(r) = spec, DeployedAs(r, spec)
        PROVE  DeployedAs(r, spec)'
    <3>1. spec.account \in Accounts
      BY ConstantFacts
    <3>2. spec.account = run.spec.account => spec.repo # p
      BY <1>1, <2>1 DEF Inv, TodoIsHarmless, At
    <3> QED BY <1>1, <1>5, <2>1, <3>1, <3>2
        DEF DeployedAs, Operable, HasSpaces, HasUsers, HasRole, HasPerm
  <2> QED BY <1>1, <2>1, KeptStays
<1>8. "revoke" \in PC \ {"idle"} /\ run.todo \ {p} \in SUBSET (Spaces \cup Repos)
      /\ "revoke" \in DeployPCs /\ "revoke" \notin Leaving
  BY <1>2, RunFacts
  DEF PC, DeployPCs, FromUsage, FromProduct, FromProject, FromSpaces, FromAccount,
      FromUsers, FromRole, FromGranted, Leaving
<1>9. ASSUME run' = GoTo("revoke", run.todo \ {p}) PROVE TodoIsHarmless' /\ DeploymentProgress'
  <2>1. /\ SameReconcile /\ run'.pc = "revoke" /\ run'.usage = run.usage
        /\ run'.failed = run.failed /\ run'.todo = run.todo \ {p}
    BY <1>2, <1>8, <1>9, RunGoesTo
  <2>2. TodoIsHarmless'
    BY <1>1, <2>1, KeptIsSame DEF Inv, TodoIsHarmless, At, Ending, SameReconcile
  <2>3. ~run.failed => /\ roles'[run.spec.account].exists
                       /\ run.spec.spaces \subseteq roles'[run.spec.account].spaces
                       /\ run.spec.repo \in roles'[run.spec.account].perms
    BY <1>1, <1>2, <1>3, <1>5 DEF HasRole, HasPerm
  <2>4. DeploymentProgress'
    BY <1>1, <1>2, <1>3, <2>1, <2>3
    DEF DeploymentProgress, At, SameReconcile, FromSaved, Operable, HasSpaces, HasUsers,
        HasRole, HasPerm, RecordedSpaces, RecordedUse, RecordedPerm
  <2> QED BY <2>2, <2>4
<1> QED BY <1>1, <1>2, <1>6, <1>7, <1>8, <1>9, CallGoesOn

LEMMA PermissionsSyncedKeepsInv ==
  ASSUME Inv, PermissionsSynced
  PROVE  Inv'
<1>1. /\ run.pc = "revoke"
      /\ UNCHANGED <<clusterVars, runtimes, recorded, edits>> /\ faults' \in 0..MaxFaults
  BY FaultFacts DEF PermissionsSynced, At
<1>2. /\ run.pc # "idle" /\ Deploying /\ ~Deleting /\ run.spec \in Specs
      /\ run.spec.account \in Accounts /\ run.spec.repo \in Repos /\ Copied
      /\ \A r \in Names : Kept(r) => InRecord(run.usage, r, SpecOf(r))
      /\ ~run.failed =>
           /\ run.rt \in run.usage.runtimes /\ Operable(Product) /\ project = "granted"
           /\ HasSpaces(run.spec) /\ RecordedSpaces(run.usage, run.rt, run.spec)
  BY <1>1, DeployingFacts
<1>3. ~run.failed => /\ run.spec.account \in accounts /\ HasUsers(run.spec)
                     /\ RecordedUse(run.usage, run.rt, run.spec) /\ HasRole(run.spec)
                     /\ HasPerm(run.spec) /\ RecordedPerm(run.usage, run.rt, run.spec)
  BY <1>1, <1>2 DEF Inv, DeploymentProgress, FromAccount, FromUsers, FromRole, FromGranted
<1>4. /\ run \in RunType /\ run.new \in Cache /\ run.old \in Cache /\ run.rt \in Names
  BY <1>2, RunFacts
<1> DEFINE n == [run.new EXCEPT !.perms = {run.spec.repo}, !.account = run.spec.account]
           todo == OutdatedSpaces(run.usage, {})
<1>5. n \in Cache /\ n.account = run.spec.account
  BY <1>2, <1>4 DEF Cache
<1>6. todo \in SUBSET Spaces /\ todo = run.old.spaces \ SpacesUsed(run.usage, {})
  BY <1>4 DEF OutdatedSpaces, Cache
<1>7. run' = [run EXCEPT !.pc = "deleteSpaces", !.new = n, !.todo = todo]
  BY <1>4 DEF PermissionsSynced, RunType
<1> HIDE DEF n, todo
<1>8. "deleteSpaces" \in PC \ {"idle"} /\ "deleteSpaces" \in DeployPCs /\ "deleteSpaces" \notin Leaving
  BY DEF PC, DeployPCs, FromUsage, FromProduct, FromProject, FromSpaces, FromAccount,
         FromUsers, FromRole, FromGranted, Leaving
<1>9. /\ run' \in RunType /\ SameReconcile /\ run'.pc = "deleteSpaces" /\ run'.usage = run.usage
      /\ run'.new = n /\ run'.failed = run.failed /\ run'.todo = todo
  BY <1>4, <1>5, <1>6, <1>7, <1>8 DEF RunType, SameReconcile
<1>10. RunIsSound'
  BY <1>2, <1>8, <1>9, GoesOn
<1>11. CopyIsRecorded'
  BY <1>1, <1>2, <1>9, SameCopy
<1>12. TodoIsHarmless'
  <2>1. ASSUME NEW r \in Names, Kept(r) PROVE SpecOf(r).spaces \cap todo = {}
    BY <1>2, <1>6, <2>1, RecordedIsUsed
  <2> QED BY <1>1, <1>9, <2>1, KeptIsSame DEF TodoIsHarmless, At, Ending, SameReconcile
<1>13. ~run.failed => run.spec.spaces \cap todo = {}
  BY <1>2, <1>3, <1>4, <1>6, RecordedIsUsed DEF InRecord
<1>14. DeploymentProgress'
  BY <1>1, <1>2, <1>3, <1>5, <1>9, <1>13
  DEF DeploymentProgress, At, SameReconcile, FromSaved, Operable, HasSpaces, HasUsers,
      HasRole, HasPerm, RecordedSpaces, RecordedUse, RecordedPerm, clusterVars
<1> QED BY <1>1, <1>2, <1>5, <1>9, <1>10, <1>11, <1>12, <1>14, LocalStep

LEMMA CreateAppKeepsInv ==
  ASSUME Inv, CreateApp
  PROVE  Inv'
<1>1. /\ run.pc = "createApp" /\ run.pc \in Calls /\ Answer(GoTo("saveUsage", {}))
      /\ UNCHANGED <<ns, users, accounts, project, roles, usage, runtimes, recorded, edits>>
  BY DEF CreateApp, At, Calls, PC
<1>2. /\ run.pc # "idle" /\ Deploying /\ ~Deleting /\ run.spec \in Specs
      /\ run.spec.spaces \subseteq Spaces
      /\ ~run.failed =>
           /\ run.rt \in run.usage.runtimes /\ Operable(Product) /\ project = "granted"
           /\ HasSpaces(run.spec) /\ RecordedSpaces(run.usage, run.rt, run.spec)
  BY <1>1, DeployingFacts
<1>3. ~run.failed => /\ run.spec.account \in accounts /\ HasUsers(run.spec)
                     /\ RecordedUse(run.usage, run.rt, run.spec) /\ HasRole(run.spec)
                     /\ HasPerm(run.spec) /\ RecordedPerm(run.usage, run.rt, run.spec)
                     /\ run.new.account = run.spec.account
  BY <1>1, <1>2 DEF Inv, DeploymentProgress, FromAccount, FromUsers, FromRole, FromGranted
<1>4. PICK q \in Names : q = run.rt
  BY <1>2, RunFacts
<1>5. apps \in [Names -> SUBSET Spaces]
  BY DEF Inv, RestTyped, ClusterTypeOK
<1>6. /\ apps' \in [Names -> SUBSET Spaces] /\ apps'[q] = run.spec.spaces
      /\ \A r \in Names \ {q} : apps'[r] = apps[r]
  BY <1>2, <1>4, <1>5 DEF CreateApp
<1>7. ClusterTypeOK'
  BY <1>1, <1>6 DEF Inv, RestTyped, ClusterTypeOK
<1>8. KeptIsDeployed'
  <2>1. ASSUME NEW r \in Names, NEW spec \in Specs, Kept(r), SpecOf(r) = spec, DeployedAs(r, spec)
        PROVE  DeployedAs(r, spec)'
    <3>1. apps'[r] = spec.spaces
      BY <1>2, <1>4, <1>6, <2>1, RunFacts DEF DeployedAs, Kept
    <3> QED BY <1>1, <2>1, <3>1
        DEF DeployedAs, Operable, HasSpaces, HasUsers, HasRole, HasPerm
  <2> QED BY <1>1, <2>1, KeptStays
<1>9. "saveUsage" \in PC \ {"idle"} /\ {} \in SUBSET (Spaces \cup Repos)
      /\ "saveUsage" \in DeployPCs /\ "saveUsage" \notin Leaving
  BY DEF PC, DeployPCs, FromUsage, FromProduct, FromProject, FromSpaces, FromAccount,
         FromUsers, FromRole, FromGranted, FromSaved, Leaving
<1>10. ASSUME run' = GoTo("saveUsage", {}) PROVE TodoIsHarmless' /\ DeploymentProgress'
  <2>1. /\ SameReconcile /\ run'.pc = "saveUsage" /\ run'.usage = run.usage
        /\ run'.failed = run.failed /\ run'.new = run.new
    BY <1>2, <1>9, <1>10, RunGoesTo
  <2>2. TodoIsHarmless'
    BY <2>1 DEF TodoIsHarmless, At, Ending
  <2>3. apps'[run.rt] = run.spec.spaces
    BY <1>4, <1>6
  <2>4. DeploymentProgress'
    BY <1>1, <1>2, <1>3, <2>1, <2>3
    DEF DeploymentProgress, At, SameReconcile, FromSaved, Operable, HasSpaces, HasUsers,
        HasRole, HasPerm, RecordedSpaces, RecordedUse, RecordedPerm
  <2> QED BY <2>2, <2>4
<1> QED BY <1>1, <1>2, <1>7, <1>8, <1>9, <1>10, CallGoesOn

-----------------------------------------------------------------------------
(* Spaces that are not needed, and what only a deletion does. *)

LEMMA DeleteSpaceKeepsInv ==
  ASSUME Inv, NEW s \in Spaces, DeleteSpace(s)
  PROVE  Inv'
<1> DEFINE next == [run EXCEPT !.todo = @ \ {s}, !.new.spaces = IF Deploying THEN @ \ {s} ELSE @]
<1>1. /\ run.pc = "deleteSpaces" /\ run.pc \in Calls /\ s \in run.todo /\ Answer(next)
      /\ UNCHANGED <<users, accounts, project, apps, roles, usage, runtimes, recorded, edits>>
      /\ ns' = [ns EXCEPT ![s] = IF @ = "active" THEN "terminating" ELSE @]
  BY DEF DeleteSpace, DeleteNamespace, At, Calls, PC
<1>2. /\ run.pc # "idle" /\ Copied /\ run \in RunType /\ run.new \in Cache /\ run.spec \in Specs
      /\ run.todo \subseteq Spaces \cup Repos
      /\ Deploying => run.pc \in DeployPCs
      /\ Deleting => run.pc \in DeletePCs
      /\ Deploying <=> ~Deleting
  BY <1>1, RunFacts DEF Copied, PC
<1>3. ns \in [Spaces \cup {Product} -> {"none", "active", "terminating"}] /\ s # Product
  BY ClusterAssumption DEF Inv, RestTyped, ClusterTypeOK
<1>4. /\ ns' \in [Spaces \cup {Product} -> {"none", "active", "terminating"}]
      /\ \A t \in (Spaces \cup {Product}) \ {s} : ns'[t] = ns[t]
  BY <1>1, <1>3
<1>5. ClusterTypeOK'
  BY <1>1, <1>4 DEF Inv, RestTyped, ClusterTypeOK
<1>6. KeptIsDeployed'
  <2>1. ASSUME NEW r \in Names, NEW spec \in Specs, Kept(r), SpecOf(r) = spec, DeployedAs(r, spec)
        PROVE  DeployedAs(r, spec)'
    <3>1. s \notin spec.spaces /\ spec.spaces \subseteq Spaces
      BY <1>1, <2>1, ConstantFacts DEF Inv, TodoIsHarmless, At
    <3> QED BY <1>1, <1>3, <1>4, <2>1, <3>1
        DEF DeployedAs, Operable, HasSpaces, HasUsers, HasRole, HasPerm
  <2> QED BY <1>1, <2>1, KeptStays
<1>7. ASSUME run' = next
      PROVE  /\ SameReconcile /\ run'.usage = run.usage /\ run'.new.account = run.new.account
             /\ RunIsSound' /\ TodoIsHarmless' /\ DeploymentProgress'
  <2> DEFINE n == [run.new EXCEPT !.spaces = IF Deploying THEN @ \ {s} ELSE @]
  <2>1. n \in Cache /\ n.account = run.new.account
    BY <1>2 DEF Cache
  <2>2. run' = [run EXCEPT !.todo = run.todo \ {s}, !.new = n]
    BY <1>2, <1>7 DEF RunType
  <2> HIDE DEF n
  <2>3. /\ run' \in RunType /\ SameReconcile /\ run'.pc = "deleteSpaces" /\ run'.usage = run.usage
        /\ run'.new = n /\ run'.failed = run.failed /\ run'.todo = run.todo \ {s}
    BY <1>1, <1>2, <2>1, <2>2 DEF RunType, SameReconcile
  <2>4. RunIsSound'
    BY <1>1, <1>2, <2>3, GoesOn DEF PC, Leaving
  <2>5. TodoIsHarmless'
    <3>1. \A r \in Names : Kept(r) => SpecOf(r).spaces \cap run'.todo = {}
      BY <1>1, <2>3 DEF Inv, TodoIsHarmless, At
    <3> QED BY <1>1, <2>3, <3>1, KeptIsSame DEF TodoIsHarmless, At, Ending, SameReconcile
  <2>6. DeploymentProgress'
    <3>1. CASE Deploying /\ ~run.failed
      <4>1. /\ run.rt \in run.usage.runtimes /\ Operable(Product) /\ project = "granted"
            /\ HasSpaces(run.spec) /\ RecordedSpaces(run.usage, run.rt, run.spec)
            /\ run.spec.account \in accounts /\ HasUsers(run.spec)
            /\ RecordedUse(run.usage, run.rt, run.spec) /\ HasRole(run.spec)
            /\ HasPerm(run.spec) /\ RecordedPerm(run.usage, run.rt, run.spec)
            /\ run.new.account = run.spec.account /\ run.spec.spaces \cap run.todo = {}
        BY <1>1, <3>1 DEF Inv, DeploymentProgress, FromUsage, FromProduct, FromProject, FromSpaces,
                          FromAccount, FromUsers, FromRole, FromGranted, At
      <4>2. run.spec.spaces \subseteq Spaces
        BY <1>2, ConstantFacts
      <4>3. ns'[Product] = "active" /\ \A t \in run.spec.spaces : ns'[t] = "active"
        BY <1>1, <1>3, <1>4, <4>1, <4>2 DEF Operable, HasSpaces
      <4>4. run.spec.spaces \cap run'.todo = {}
        BY <2>3, <4>1
      <4> QED BY <1>1, <2>1, <2>3, <4>1, <4>3, <4>4
          DEF DeploymentProgress, At, SameReconcile, FromSaved, Operable, HasSpaces, HasUsers,
              HasRole, HasPerm, RecordedSpaces, RecordedUse, RecordedPerm
    <3>2. CASE ~(Deploying /\ ~run.failed)
      BY <2>3, <3>2 DEF DeploymentProgress, Deploying, SameReconcile
    <3> QED BY <3>1, <3>2
  <2> QED BY <2>1, <2>3, <2>4, <2>5, <2>6
<1> HIDE DEF next
<1> QED BY <1>1, <1>5, <1>6, <1>7, AnswerStep

LEMMA SpacesDeletedKeepsInv ==
  ASSUME Inv, SpacesDeleted
  PROVE  Inv'
<1>1. /\ run.pc = "deleteSpaces"
      /\ UNCHANGED <<clusterVars, runtimes, recorded, edits>> /\ faults' \in 0..MaxFaults
  BY FaultFacts DEF SpacesDeleted, At
<1>2. /\ run.pc # "idle" /\ Copied
      /\ Deploying <=> ~Deleting
      /\ Applied(run.rt) => run.new.account = run.spec.account
  BY <1>1, RunFacts DEF Copied, PC
<1> DEFINE pc == CASE Deploying -> "createApp"
                   [] Deleting /\ run.usage.runtimes = {} -> "deleteProductUser"
                   [] OTHER -> "saveUsage"
<1>3. /\ Deploying => pc = "createApp"
      /\ Deleting => \/ pc = "deleteProductUser" /\ run.usage.runtimes = {}
                     \/ pc = "saveUsage"
  BY <1>2
<1>4. run' = GoTo(pc, {})
  BY DEF SpacesDeleted
<1> HIDE DEF pc
<1>5. /\ pc \in PC \ {"idle"} /\ {} \in SUBSET (Spaces \cup Repos) /\ pc \notin Leaving
      /\ Deploying => pc \in DeployPCs
      /\ Deleting => pc \in DeletePCs
  BY <1>2, <1>3
  DEF PC, DeployPCs, DeletePCs, FromUsage, FromProduct, FromProject, FromSpaces, FromAccount,
      FromUsers, FromRole, FromGranted, Leaving, Ending
<1>6. /\ run' \in RunType /\ SameReconcile /\ run'.pc = pc /\ run'.todo = {}
      /\ run'.new = run.new /\ run'.usage = run.usage /\ run'.failed = run.failed
  BY <1>2, <1>4, <1>5, RunGoesTo
<1>7. RunIsSound'
  BY <1>2, <1>5, <1>6, GoesOn
<1>8. CopyIsRecorded'
  BY <1>1, <1>2, <1>6, SameCopy
<1>9. TodoIsHarmless'
  <2>1. ASSUME NEW r \in Names, Kept(r) PROVE pc \notin Ending
    <3>1. r \in run.usage.runtimes
      BY <1>2, <2>1 DEF Inv, CopyIsRecorded, InRecord, RecordedSpaces
    <3> QED BY <1>2, <1>3, <3>1 DEF Ending
  <2>2. pc \in {"createApp", "deleteProductUser", "saveUsage"}
    BY <1>2, <1>3
  <2> QED BY <1>1, <1>6, <2>1, <2>2, KeptIsSame DEF TodoIsHarmless, At
<1>10. DeploymentProgress'
  <2>1. CASE Deploying /\ ~run.failed
    <3>1. /\ run.rt \in run.usage.runtimes /\ Operable(Product) /\ project = "granted"
          /\ HasSpaces(run.spec) /\ RecordedSpaces(run.usage, run.rt, run.spec)
          /\ run.spec.account \in accounts /\ HasUsers(run.spec)
          /\ RecordedUse(run.usage, run.rt, run.spec) /\ HasRole(run.spec)
          /\ HasPerm(run.spec) /\ RecordedPerm(run.usage, run.rt, run.spec)
          /\ run.new.account = run.spec.account
      BY <1>1, <2>1 DEF Inv, DeploymentProgress, FromUsage, FromProduct, FromProject, FromSpaces,
                        FromAccount, FromUsers, FromRole, FromGranted
    <3> QED BY <1>1, <1>3, <1>6, <2>1, <3>1
        DEF DeploymentProgress, At, SameReconcile, FromSaved, Operable, HasSpaces, HasUsers,
            HasRole, HasPerm, RecordedSpaces, RecordedUse, RecordedPerm, clusterVars
  <2>2. CASE ~(Deploying /\ ~run.failed)
    BY <1>6, <2>2 DEF DeploymentProgress, Deploying, SameReconcile
  <2> QED BY <2>1, <2>2
<1> QED BY <1>1, <1>2, <1>6, <1>7, <1>8, <1>9, <1>10, LocalStep

LEMMA DeleteAppKeepsInv ==
  ASSUME Inv, DeleteApp
  PROVE  Inv'
<1> DEFINE pc == IF run.old.account = NoAccount THEN "deleteSpaces" ELSE "revokeOld"
           todo == IF run.old.account = NoAccount THEN OutdatedSpaces(run.usage, {run.rt}) ELSE OldPerms
<1>1. /\ run.pc = "deleteApp" /\ run.pc \in Calls /\ apps' = [apps EXCEPT ![run.rt] = {}]
      /\ UNCHANGED <<ns, users, accounts, project, roles, usage, runtimes, recorded, edits>>
  BY DEF DeleteApp, At, Calls, PC
<1>2. Answer(GoTo(pc, todo))
  BY DEF DeleteApp
<1>3. /\ run.pc # "idle" /\ Copied /\ run.old \in Cache /\ run.rt \in Names
      /\ Deploying <=> ~Deleting
      /\ Deleting => ~Applied(run.rt)
      /\ Deploying => run.pc \in DeployPCs
  BY <1>1, RunFacts DEF Copied, PC
<1>4. Deleting /\ ~Deploying /\ ~Applied(run.rt)
  BY <1>1, <1>3 DEF DeployPCs, FromUsage, FromProduct, FromProject, FromSpaces, FromAccount,
                    FromUsers, FromRole, FromGranted, FromSaved, Leaving
<1>5. \A r \in Names : Kept(r) => r # run.rt /\ InRecord(run.usage, r, SpecOf(r))
  BY <1>3, <1>4 DEF Inv, CopyIsRecorded, Kept
<1>6. \/ pc = "deleteSpaces" /\ todo = run.old.spaces \ SpacesUsed(run.usage, {run.rt})
      \/ /\ pc = "revokeOld" /\ run.old.account \in Accounts
         /\ todo = run.old.perms \ PermsUsed(run.usage, run.old.account, {run.rt})
  BY <1>3 DEF OutdatedSpaces, OldPerms, Cache
<1> HIDE DEF pc, todo
<1>7. pc \in PC \ {"idle"} /\ todo \in SUBSET (Spaces \cup Repos) /\ pc \in DeletePCs
      /\ (pc \in Leaving => run.old.account \in Accounts)
  BY <1>3, <1>6 DEF PC, DeletePCs, Leaving, Cache
<1>8. apps' \in [Names -> SUBSET Spaces] /\ \A r \in Names \ {run.rt} : apps'[r] = apps[r]
  BY <1>1, <1>3 DEF Inv, RestTyped, ClusterTypeOK
<1>9. ClusterTypeOK'
  BY <1>1, <1>8 DEF Inv, RestTyped, ClusterTypeOK
<1>10. KeptIsDeployed'
  <2>1. ASSUME NEW r \in Names, NEW spec \in Specs, Kept(r), SpecOf(r) = spec, DeployedAs(r, spec)
        PROVE  DeployedAs(r, spec)'
    BY <1>1, <1>5, <1>8, <2>1
    DEF DeployedAs, Operable, HasSpaces, HasUsers, HasRole, HasPerm
  <2> QED BY <1>1, <2>1, KeptStays
<1>11. ASSUME run' = GoTo(pc, todo) PROVE TodoIsHarmless' /\ DeploymentProgress'
  <2>1. /\ SameReconcile /\ run'.pc = pc /\ run'.usage = run.usage /\ run'.todo = todo
    BY <1>3, <1>7, <1>11, RunGoesTo
  <2>2. \A r \in Names : Kept(r) =>
          /\ SpecOf(r).spaces \subseteq SpacesUsed(run.usage, {run.rt})
          /\ SpecOf(r).account = run.old.account =>
               SpecOf(r).repo \in PermsUsed(run.usage, run.old.account, {run.rt})
    BY <1>5, RecordedIsUsed
  <2>3. \A r \in Names : Kept(r) =>
          /\ pc = "deleteSpaces" => SpecOf(r).spaces \cap todo = {}
          /\ pc = "revokeOld" /\ SpecOf(r).account = run.old.account => SpecOf(r).repo \notin todo
    BY <1>6, <2>2
  <2>4. TodoIsHarmless'
    BY <1>1, <1>6, <2>1, <2>3, KeptIsSame DEF TodoIsHarmless, At, Ending, SameReconcile
  <2>5. DeploymentProgress'
    BY <1>4, <2>1 DEF DeploymentProgress, Deploying, SameReconcile
  <2> QED BY <2>4, <2>5
<1> QED BY <1>1, <1>2, <1>4, <1>7, <1>9, <1>10, <1>11, CallGoesOn

\* The product goes with its last runtime: nothing is kept.
LEMMA EndingStep ==
  ASSUME Inv, run.pc \in Ending, NEW pc \in (Ending \ {"deleteProductUser"}) \cup {"saveUsage"},
         Answer(GoTo(pc, {})), UNCHANGED <<usage, runtimes, recorded, edits>>, ClusterTypeOK'
  PROVE  Inv'
<1>1. run.pc \in Calls /\ run.pc # "idle"
  BY DEF Ending, Calls, PC
<1>2. Deleting /\ ~Deploying
  BY <1>1, RunFacts
  DEF Ending, DeployPCs, FromUsage, FromProduct, FromProject, FromSpaces, FromAccount,
      FromUsers, FromRole, FromGranted, FromSaved, Leaving
<1>3. \A r \in Names : ~Kept(r)
  BY DEF Inv, TodoIsHarmless
<1>4. KeptIsDeployed'
  BY <1>3, KeptIsSame DEF KeptIsDeployed
<1>5. pc \in PC \ {"idle"} /\ {} \in SUBSET (Spaces \cup Repos) /\ pc \in DeletePCs /\ pc \notin Leaving
  BY DEF Ending, PC, DeletePCs, Leaving
<1>6. ASSUME run' = GoTo(pc, {}) PROVE TodoIsHarmless' /\ DeploymentProgress'
  <2>1. SameReconcile
    BY <1>1, <1>5, <1>6, RunGoesTo
  <2> QED BY <1>2, <1>3, <2>1, KeptIsSame
      DEF TodoIsHarmless, DeploymentProgress, Deploying, SameReconcile
<1> QED BY <1>1, <1>2, <1>4, <1>5, <1>6, CallGoesOn

LEMMA EndingKeepsInv ==
  ASSUME Inv, DeleteProductUser \/ DeleteProduct \/ DeleteProject
  PROVE  Inv'
<1>1. CASE DeleteProductUser
  <2>1. ClusterTypeOK'
    BY <1>1 DEF DeleteProductUser, Inv, RestTyped, ClusterTypeOK
  <2> QED BY <1>1, <2>1, EndingStep DEF DeleteProductUser, At, Ending
<1>2. CASE DeleteProject
  <2>1. ClusterTypeOK'
    BY <1>2 DEF DeleteProject, Inv, RestTyped, ClusterTypeOK
  <2> QED BY <1>2, <2>1, EndingStep DEF DeleteProject, At, Ending
<1>3. CASE DeleteProduct
  <2>1. run.pc = "deleteProduct" /\ run.pc \in Calls /\ run.pc \in Ending
    BY <1>3 DEF DeleteProduct, At, Calls, PC, Ending
  <2>2. CASE Refuse
    BY <2>1, <2>2, RefuseKeepsInv
  <2>3. CASE DeleteNamespace(Product) /\ Answer(GoTo("deleteProject", {}))
             /\ UNCHANGED <<users, accounts, project, apps, roles, usage, runtimes, recorded, edits>>
    <3>1. ns \in [Spaces \cup {Product} -> {"none", "active", "terminating"}]
      BY DEF Inv, RestTyped, ClusterTypeOK
    <3>2. ns' \in [Spaces \cup {Product} -> {"none", "active", "terminating"}]
      BY <2>3, <3>1 DEF DeleteNamespace
    <3>3. ClusterTypeOK'
      BY <2>3, <3>2 DEF Inv, RestTyped, ClusterTypeOK
    <3> QED BY <2>1, <2>3, <3>3, EndingStep DEF Ending
  <2> QED BY <1>3, <2>2, <2>3 DEF DeleteProduct
<1> QED BY <1>1, <1>2, <1>3

-----------------------------------------------------------------------------
(* The cluster, and all steps together. *)

\* Only what is not operable disappears.
LEMMA GoneKeepsInv ==
  ASSUME Inv, NEW s \in Spaces \cup {Product}, Gone(s)
  PROVE  Inv'
<1>1. /\ UNCHANGED <<runtimes, run, recorded, edits, faults, project, apps, roles, usage>>
      /\ ns[s] = "terminating" /\ ns' = [ns EXCEPT ![s] = "none"]
      /\ IF s = Product THEN accounts' = {} /\ UNCHANGED users
         ELSE users' = [users EXCEPT ![s] = {}] /\ UNCHANGED accounts
  BY DEF Gone, NamespaceGone
<1>2. /\ ns \in [Spaces \cup {Product} -> {"none", "active", "terminating"}]
      /\ users \in [Spaces -> SUBSET (Accounts \cup {UserList})] /\ accounts \subseteq Accounts
  BY DEF Inv, RestTyped, ClusterTypeOK
<1>3. /\ ns' \in [Spaces \cup {Product} -> {"none", "active", "terminating"}]
      /\ users' \in [Spaces -> SUBSET (Accounts \cup {UserList})] /\ accounts' \subseteq Accounts
      /\ \A t \in Spaces \cup {Product} : Operable(t) => Operable(t)'
      /\ \A t \in Spaces : Operable(t) => users'[t] = users[t]
      /\ Operable(Product) => accounts' = accounts
  BY <1>1, <1>2, ClusterAssumption DEF Operable
<1>4. RestTyped'
  BY <1>1, <1>3 DEF Inv, RestTyped, ClusterTypeOK
<1>5. ASSUME NEW spec \in Specs
      PROVE  /\ HasSpaces(spec) => HasSpaces(spec)'
             /\ HasSpaces(spec) /\ HasUsers(spec) => HasUsers(spec)'
             /\ HasRole(spec) => HasRole(spec)'
             /\ HasPerm(spec) => HasPerm(spec)'
  BY <1>1, <1>3, ConstantFacts DEF HasSpaces, HasUsers, HasRole, HasPerm
<1>6. KeptIsDeployed'
  <2>1. ASSUME NEW r \in Names, NEW spec \in Specs, DeployedAs(r, spec) PROVE DeployedAs(r, spec)'
    BY <1>1, <1>3, <1>5, <2>1 DEF DeployedAs
  <2> QED BY <1>1, <2>1, KeptStays
<1>7. RunIsSound' /\ AppliedIsKnown'
  BY <1>1 DEF Inv, RunIsSound, Deploying, Deleting, AppliedIsKnown, Applied, SpecOf
<1>8. KeptIsRecorded' /\ CopyIsRecorded'
  BY <1>1, KeptIsSame
  DEF Inv, KeptIsRecorded, CopyIsRecorded, Copied, UsesAreUnique, InRecord, RecordedSpaces,
      RecordedPerm
<1>9. TodoIsHarmless'
  BY <1>1, KeptIsSame DEF Inv, TodoIsHarmless, At
<1>10. DeploymentProgress'
  <2>1. CASE Deploying /\ ~run.failed /\ run.pc # "idle"
    <3>1. run.spec \in Specs
      BY <2>1, RunFacts
    <3>2. PICK spec \in Specs : spec = run.spec
      BY <3>1
    <3>3. PICK u : u = run.usage
      OBVIOUS
    <3>4. /\ run.pc \in FromUsage \ {"saveStatus"} => run.rt \in u.runtimes
          /\ run.pc \in FromProduct => Operable(Product)
          /\ run.pc \in FromProject => project = "granted"
          /\ At("createSpaces") => \A t \in spec.spaces \ run.todo : Operable(t)
          /\ run.pc \in FromSpaces => HasSpaces(spec)
          /\ run.pc \in FromSpaces \ {"saveStatus"} => RecordedSpaces(u, run.rt, spec)
          /\ run.pc \in FromAccount => spec.account \in accounts
          /\ At("addUsers") => \A t \in spec.spaces \ run.todo : spec.account \in users[t]
          /\ run.pc \in FromUsers => HasUsers(spec)
          /\ run.pc \in FromUsers \ {"saveStatus"} => RecordedUse(u, run.rt, spec)
          /\ run.pc \in FromRole => HasRole(spec)
          /\ run.pc \in FromGranted => HasPerm(spec)
          /\ run.pc \in FromGranted \ {"saveStatus"} => RecordedPerm(u, run.rt, spec)
          /\ At("revoke") => spec.repo \notin run.todo
          /\ At("deleteSpaces") => spec.spaces \cap run.todo = {}
          /\ run.pc \in FromSaved => apps[run.rt] = spec.spaces
          /\ run.pc \in {"deleteSpaces", "createApp"} \cup FromSaved => run.new.account = spec.account
          /\ At("saveStatus") /\ run.rt \in recorded => InRecord(usage, run.rt, spec)
      BY <2>1, <3>2, <3>3 DEF Inv, DeploymentProgress
    <3>5. spec.spaces \subseteq Spaces
      BY ConstantFacts
    <3>6. At("createSpaces") => \A t \in spec.spaces \ run.todo : Operable(t)'
      BY <1>3, <3>4, <3>5
    <3>7. At("addUsers") => \A t \in spec.spaces \ run.todo : spec.account \in users'[t]
      BY <1>3, <3>4, <3>5 DEF At, FromSpaces, FromAccount, HasSpaces
    <3>8. run.pc \in FromAccount => spec.account \in accounts'
      BY <1>3, <3>4 DEF FromProduct, FromProject, FromSpaces
    <3>9. /\ run.pc \in FromSpaces => HasSpaces(spec)'
          /\ run.pc \in FromUsers => HasUsers(spec)'
          /\ run.pc \in FromRole => HasRole(spec)'
          /\ run.pc \in FromGranted => HasPerm(spec)'
      BY <1>5, <3>4 DEF FromSpaces, FromAccount
    <3>10. run.pc \in FromProduct => Operable(Product)'
      BY <1>3, <3>4
    <3>11. /\ RecordedSpaces(u, run.rt, spec)' <=> RecordedSpaces(u, run.rt, spec)
           /\ RecordedUse(u, run.rt, spec)' <=> RecordedUse(u, run.rt, spec)
           /\ RecordedPerm(u, run.rt, spec)' <=> RecordedPerm(u, run.rt, spec)
           /\ InRecord(usage, run.rt, spec)' <=> InRecord(usage, run.rt, spec)
      BY <1>1 DEF RecordedSpaces, RecordedUse, RecordedPerm, InRecord
    <3>12. run' = run /\ project' = project /\ apps' = apps /\ recorded' = recorded /\ usage' = usage
      BY <1>1
    <3> QED BY <3>2, <3>3, <3>4, <3>6, <3>7, <3>8, <3>9, <3>10, <3>11, <3>12
        DEF DeploymentProgress, At
  <2>2. CASE ~(Deploying /\ ~run.failed)
    BY <1>1, <2>2 DEF DeploymentProgress, Deploying
  <2>3. CASE run.pc = "idle"
    BY <1>1, <2>3
    DEF DeploymentProgress, At, FromUsage, FromProduct, FromProject, FromSpaces, FromAccount,
        FromUsers, FromRole, FromGranted, FromSaved, Leaving
  <2> QED BY <2>1, <2>2, <2>3
<1> QED BY <1>4, <1>6, <1>7, <1>8, <1>9, <1>10 DEF Inv

LEMMA StutterKeepsInv ==
  ASSUME Inv, UNCHANGED vars
  PROVE  Inv'
  BY DEF vars, clusterVars, Inv, RestTyped, ClusterTypeOK, RunIsSound, Deploying, Deleting,
         AppliedIsKnown, Applied, SpecOf, Kept, KeptIsRecorded, KeptIsDeployed, CopyIsRecorded,
         Copied, TodoIsHarmless, DeploymentProgress, At, UsesAreUnique, InRecord, RecordedSpaces,
         RecordedUse, RecordedPerm, DeployedAs, Operable, HasSpaces, HasUsers, HasRole, HasPerm

LEMMA ProceedKeepsInv ==
  ASSUME Inv, Proceed
  PROVE  Inv'
<1>1. CASE \E s \in Spaces : CreateSpace(s) \/ DropUser(s) \/ AddUser(s) \/ DeleteSpace(s)
  BY <1>1, CreateSpaceKeepsInv, DropUserKeepsInv, AddUserKeepsInv, DeleteSpaceKeepsInv
<1>2. CASE \E p \in Repos : RevokeOld(p) \/ Revoke(p)
  BY <1>2, RevokeOldKeepsInv, RevokeKeepsInv
<1>3. CASE \/ AddFinalizer \/ GetUsage \/ CreateProduct \/ CreateProject \/ AddProductUser
           \/ SpacesCreated \/ OldRevoked \/ UsersDropped \/ AccountLeft \/ UsersAdded
  BY <1>3, AddFinalizerKeepsInv, GetUsageKeepsInv, CreateProductKeepsInv, CreateProjectKeepsInv,
     AddProductUserKeepsInv, SpacesCreatedKeepsInv, OldRevokedKeepsInv, UsersDroppedKeepsInv,
     AccountLeftKeepsInv, UsersAddedKeepsInv
<1>4. CASE \/ PermissionsSynced \/ SpacesDeleted \/ DeleteProductRole \/ DeleteProductAccount
           \/ CreateProductAccount \/ CreateAccountRole \/ Grant \/ CreateApp
  BY <1>4, PermissionsSyncedKeepsInv, SpacesDeletedKeepsInv, DeleteProductRoleKeepsInv,
     DeleteProductAccountKeepsInv, CreateProductAccountKeepsInv, CreateAccountRoleKeepsInv,
     GrantKeepsInv, CreateAppKeepsInv
<1>5. CASE \/ DeleteApp \/ DeleteProductUser \/ DeleteProduct \/ DeleteProject
           \/ SaveUsage \/ SaveStatus \/ RemoveFinalizer
  BY <1>5, DeleteAppKeepsInv, EndingKeepsInv, SaveUsageKeepsInv, SaveStatusKeepsInv,
     RemoveFinalizerKeepsInv
<1> QED BY <1>1, <1>2, <1>3, <1>4, <1>5 DEF Proceed

LEMMA StepKeepsInv == Inv /\ [Next]_vars => Inv'
<1> SUFFICES ASSUME Inv, [Next]_vars PROVE Inv'
  OBVIOUS
<1>1. CASE User
  BY <1>1, UserKeepsInv
<1>2. CASE \E r \in Names : Reconcile(r)
  BY <1>2, ReconcileKeepsInv
<1>3. CASE Proceed
  BY <1>3, ProceedKeepsInv
<1>4. CASE CallFails
  BY <1>4, CallFailsKeepsInv
<1>5. CASE Crash
  BY <1>5, CrashKeepsInv
<1>6. CASE \E s \in Spaces \cup {Product} : Gone(s)
  BY <1>6, GoneKeepsInv
<1>7. CASE UNCHANGED vars
  BY <1>7, StutterKeepsInv
<1> QED BY <1>1, <1>2, <1>3, <1>4, <1>5, <1>6, <1>7 DEF Next

THEOREM Inductive == Spec => []Inv
<1> QED BY InitInv, StepKeepsInv, PTL DEF Spec

\* Objects, usage record, cluster and the run of the controller stay well formed.
THEOREM TypeCorrect == Spec => []TypeOK
<1>1. Inv => TypeOK
  BY TypedIsTypeOK DEF Inv
<1> QED BY <1>1, Inductive, PTL

\* What a runtime was deployed to stays, whatever the other runtimes do: for
\* any runtimes, spaces, accounts and repositories, any number of changes,
\* failures and crashes.
THEOREM InUseStays == Spec => []InUseIsKept
<1>1. Inv => InUseIsKept
  <2> SUFFICES ASSUME Inv, NEW r \in recorded, Settled(r) PROVE Deployed(r)
    BY DEF InUseIsKept
  <2>1. r \in Names
    BY DEF Inv, RestTyped
  <2>2. runtimes[r].spec \in Specs /\ SpecOf(r) = runtimes[r].spec /\ Applied(r)
    BY <2>1, ConstantFacts DEF Inv, AppliedIsKnown, Settled, Applied, SpecOf
  <2>3. DeployedAs(r, runtimes[r].spec)
    BY <2>1, <2>2 DEF Inv, KeptIsDeployed, Kept
  <2> QED BY <2>3 DEF Deployed, DeployedAs, HasSpaces, HasUsers, HasRole, HasPerm
<1> QED BY <1>1, Inductive, PTL

-----------------------------------------------------------------------------
(* Nothing is left behind, when users wait for their last change to be       *)
(* deployed and the usage record is written: whatever the cluster, the       *)
(* secret store or the usage record has is claimed by a runtime.  A live one *)
(* claims what its spec asks for; one whose last change is not deployed yet  *)
(* claims what the cache in its status remembers, too.                       *)

Live(r) == runtimes[r].phase = "live"
Remembers(r) == runtimes[r].phase # "none" /\ ~Settled(r)

ClaimsSpace(r, s) ==
  \/ Live(r) /\ s \in runtimes[r].spec.spaces
  \/ Remembers(r) /\ s \in runtimes[r].cache.spaces
ClaimsAccount(r, a) ==
  \/ Live(r) /\ a = runtimes[r].spec.account
  \/ Remembers(r) /\ a = runtimes[r].cache.account
ClaimsPerm(r, a, p) ==
  \/ Live(r) /\ a = runtimes[r].spec.account /\ p = runtimes[r].spec.repo
  \/ Remembers(r) /\ a = runtimes[r].cache.account /\ p \in runtimes[r].cache.perms

\* A usage record names nothing but claims.
Claimed(u) ==
  /\ \A r \in u.runtimes : runtimes[r].phase # "none"
  /\ \A r \in Names : \A s \in u.space[r] : ClaimsSpace(r, s)
  /\ \A x \in u.account : /\ ClaimsAccount(x.runtime, x.account)
                          /\ \A p \in x.perms : ClaimsPerm(x.runtime, x.account, p)

UsageIsClaimed == Claimed(usage)
CopyIsClaimed == Copied => Claimed(run.usage)

ClusterIsClaimed ==
  /\ \A s \in Spaces : Operable(s) => \E r \in Names : ClaimsSpace(r, s)
  /\ \A a \in Accounts : HasAccount(a) \/ roles[a].exists => \E r \in Names : ClaimsAccount(r, a)
  /\ \A a \in Accounts : \A p \in roles[a].perms : \E r \in Names : ClaimsPerm(r, a, p)
  /\ ns[Product] = "none" => accounts = {}
  /\ Operable(Product) \/ project # "none" => \E r \in Names : runtimes[r].phase # "none"
  /\ \A r \in Names : apps[r] # {} => runtimes[r].phase # "none"

\* What a reconcile read is as it was.
RunIsCurrent ==
  run.rt \in Names =>
    LET object == runtimes[run.rt]
    IN  /\ ~run.stale
        /\ object.spec = run.spec /\ object.cache = run.old
        /\ object.phase = IF Deploying THEN "live" ELSE "deleting"
        /\ run.pc # "addFinalizer" => object.finalizer
        /\ At("createSpaces") => run.todo \subseteq run.spec.spaces
        /\ run.failed => run.pc \in FromSaved
        /\ run.pc \in {"addFinalizer", "getUsage"} => run.new = run.old

\* The status of a runtime that is deployed has all of it.
SettledIsSaved ==
  \A r \in Names :
    LET object == runtimes[r] IN
    /\ Settled(r) => /\ object.finalizer /\ usage.known
                     /\ object.cache.account = object.spec.account
                     /\ object.cache.perms = {object.spec.repo}
                     /\ object.spec.spaces \subseteq object.cache.spaces
    /\ object.phase = "deleting" => usage.known

\* What is left of the last deployment another runtime claims, or the spec asks
\* for it.
Others == Names \ {run.rt}
SpaceIsLeft(s) == Operable(s) => \/ Deploying /\ s \in run.spec.spaces
                                 \/ \E r \in Others : ClaimsSpace(r, s)
AccountIsLeft ==
  run.old.account \in Accounts /\ (HasAccount(run.old.account) \/ roles[run.old.account].exists) =>
    \/ Deploying /\ run.old.account = run.spec.account
    \/ \E r \in Others : ClaimsAccount(r, run.old.account)
PermIsLeft(p) ==
  run.old.account \in Accounts /\ p \in roles[run.old.account].perms =>
    \/ Deploying /\ run.old.account = run.spec.account /\ p = run.spec.repo
    \/ \E r \in Others : ClaimsPerm(r, run.old.account, p)
PermsAreLeft == \A p \in run.old.perms : PermIsLeft(p)

\* The record that was saved, or will be.
Record == IF At("saveStatus") THEN usage ELSE run.usage

\* u has of run.rt what its spec asks for only.
AccountIsExact(u) == \A x \in u.account : x.runtime = run.rt => x.account = run.spec.account
PermsAreExact(u) ==
  AccountIsExact(u) /\ \A x \in u.account : x.runtime = run.rt => x.perms \subseteq {run.spec.repo}

\* The status of a reconcile, also of one that fails, forgets only what is left.
NewIsTidy ==
  run.pc # "idle" =>
    /\ \/ run.new.account = run.old.account /\ run.new.perms = run.old.perms
       \/ /\ Deploying /\ run.new.account = run.spec.account /\ run.new.perms = {run.spec.repo}
          /\ AccountIsLeft /\ PermsAreLeft /\ PermsAreExact(Record)
    /\ Deleting => run.new = run.old
    /\ \A s \in run.old.spaces \ run.new.spaces :
         Deploying /\ ~Operable(s) /\ s \notin run.spec.spaces /\ Record.space[run.rt] \subseteq run.spec.spaces

FromSynced == {"deleteSpaces", "createApp"} \cup FromSaved
FromLeft == {"createAccount"} \cup FromAccount

DeploymentIsTidy ==
  Deploying /\ ~run.failed =>
    /\ run.pc \in FromSpaces => /\ Record.space[run.rt] \subseteq run.spec.spaces
                                /\ run.spec.spaces \subseteq run.new.spaces
    /\ run.pc \notin FromSynced => run.old.spaces \subseteq run.new.spaces
    /\ At("revokeOld") => \A p \in run.old.perms \ run.todo : PermIsLeft(p)
    /\ run.pc \in (Leaving \ {"revokeOld"}) \cup FromSynced => PermsAreLeft
    /\ run.pc \in FromLeft /\ run.old.account # run.spec.account => PermsAreLeft
    /\ At("deleteAccount") => ~roles[run.old.account].exists
    /\ run.pc \in {"leftAccount"} \cup FromLeft => AccountIsLeft
    /\ run.pc \in FromLeft => AccountIsExact(Record)
    /\ run.pc \in FromGranted => PermsAreExact(Record)
    /\ At("revoke") /\ run.old.account = run.spec.account =>
         \A p \in run.old.perms \ run.todo : PermIsLeft(p)
    /\ run.pc \in FromSynced => run.new.account = run.spec.account /\ run.new.perms = {run.spec.repo}
    /\ At("deleteSpaces") => \A s \in run.old.spaces \ run.todo : SpaceIsLeft(s)
    /\ run.pc \in {"createApp"} \cup FromSaved => \A s \in run.old.spaces : SpaceIsLeft(s)
    /\ At("saveStatus") => usage.known

FromCleaned == Ending \cup {"saveUsage", "removeFinalizer"}

DeletionIsTidy ==
  Deleting /\ ~run.failed =>
    /\ Copied => run.rt \notin run.usage.runtimes /\ run.usage.space[run.rt] = {}
    /\ run.pc \in Leaving \cup {"deleteSpaces"} \cup FromCleaned => apps[run.rt] = {}
    /\ At("revokeOld") => \A p \in run.old.perms \ run.todo : PermIsLeft(p)
    /\ run.pc \in (Leaving \ {"revokeOld"}) \cup {"deleteSpaces"} \cup FromCleaned => PermsAreLeft
    /\ At("deleteAccount") => ~roles[run.old.account].exists
    /\ run.pc \in {"leftAccount", "deleteSpaces"} \cup FromCleaned => AccountIsLeft
    /\ run.pc \in {"deleteSpaces"} \cup FromCleaned =>
         \A x \in Record.account : x.runtime = run.rt => FALSE
    /\ At("deleteSpaces") => \A s \in run.old.spaces \ run.todo : SpaceIsLeft(s)
    /\ run.pc \in FromCleaned => \A s \in run.old.spaces : SpaceIsLeft(s)
    /\ run.pc \in Ending => run.usage.runtimes = {}
    /\ At("deleteProject") => ~Operable(Product)
    /\ At("saveUsage") /\ run.usage.runtimes = {} => ~Operable(Product) /\ project = "none"
    /\ At("removeFinalizer") => /\ run.rt \notin usage.runtimes /\ usage.space[run.rt] = {}
                                /\ \A x \in usage.account : x.runtime # run.rt
                                /\ usage.runtimes = {} => ~Operable(Product) /\ project = "none"

TidyInv ==
  /\ RunIsCurrent /\ SettledIsSaved /\ UsageIsClaimed /\ CopyIsClaimed /\ ClusterIsClaimed
  /\ NewIsTidy /\ DeploymentIsTidy /\ DeletionIsTidy

-----------------------------------------------------------------------------
(* Claims. *)

LEMMA ClaimsAreSame ==
  ASSUME UNCHANGED runtimes, NEW r, NEW s, NEW a, NEW p
  PROVE  /\ Settled(r)' <=> Settled(r)
         /\ ClaimsSpace(r, s)' <=> ClaimsSpace(r, s)
         /\ ClaimsAccount(r, a)' <=> ClaimsAccount(r, a)
         /\ ClaimsPerm(r, a, p)' <=> ClaimsPerm(r, a, p)
  BY DEF Settled, ClaimsSpace, ClaimsAccount, ClaimsPerm, Live, Remembers

LEMMA ClaimsArePhased ==
  ASSUME NEW r, NEW s, NEW a, NEW p,
         ClaimsSpace(r, s) \/ ClaimsAccount(r, a) \/ ClaimsPerm(r, a, p)
  PROVE  runtimes[r].phase # "none"
  BY DEF ClaimsSpace, ClaimsAccount, ClaimsPerm, Live, Remembers

\* What claims a record names has every claim, now as before.
LEMMA ClaimedStays ==
  ASSUME NEW u, NEW v, Claimed(u), UNCHANGED runtimes, v.runtimes \subseteq u.runtimes,
         \A r \in Names : v.space[r] \subseteq u.space[r], v.account \subseteq u.account
  PROVE  Claimed(v) /\ Claimed(v)'
<1>1. Claimed(v)
  BY DEF Claimed
<1> QED BY <1>1, ClaimsAreSame DEF Claimed

LEMMA SameCopyIsClaimed ==
  ASSUME TidyInv, Copied, UNCHANGED runtimes, run'.usage = run.usage
  PROVE  CopyIsClaimed'
<1>1. Claimed(run.usage)
  BY DEF TidyInv, CopyIsClaimed
<1> QED BY <1>1, ClaimsAreSame DEF CopyIsClaimed, Claimed

LEMMA SameUsageIsClaimed ==
  ASSUME TidyInv, UNCHANGED <<runtimes, usage>>
  PROVE  UsageIsClaimed'
  BY ClaimsAreSame DEF TidyInv, UsageIsClaimed, Claimed

\* What the reconcile in progress has read, and what its own runtime claims.
LEMMA OwnFacts ==
  ASSUME Inv, TidyInv, run.pc # "idle"
  PROVE  /\ run.rt \in Names /\ ~run.stale
         /\ runtimes[run.rt].spec = run.spec /\ runtimes[run.rt].cache = run.old
         /\ runtimes[run.rt].phase = (IF Deploying THEN "live" ELSE "deleting")
         /\ run.pc # "addFinalizer" => runtimes[run.rt].finalizer
         /\ Deploying =>
              /\ \A s \in run.spec.spaces : ClaimsSpace(run.rt, s)
              /\ ClaimsAccount(run.rt, run.spec.account)
              /\ ClaimsPerm(run.rt, run.spec.account, run.spec.repo)
         /\ \A s : ClaimsSpace(run.rt, s) =>
              s \in run.old.spaces \/ (Deploying /\ s \in run.spec.spaces)
         /\ \A a : ClaimsAccount(run.rt, a) =>
              a = run.old.account \/ (Deploying /\ a = run.spec.account)
         /\ \A a, p : ClaimsPerm(run.rt, a, p) =>
              \/ a = run.old.account /\ p \in run.old.perms
              \/ Deploying /\ a = run.spec.account /\ p = run.spec.repo
<1>1. run.rt \in Names
  BY RunFacts
<1>2. /\ ~run.stale
      /\ runtimes[run.rt].spec = run.spec /\ runtimes[run.rt].cache = run.old
      /\ runtimes[run.rt].phase = (IF Deploying THEN "live" ELSE "deleting")
      /\ run.pc # "addFinalizer" => runtimes[run.rt].finalizer
  BY <1>1 DEF TidyInv, RunIsCurrent
<1> QED BY <1>1, <1>2 DEF ClaimsSpace, ClaimsAccount, ClaimsPerm, Live, Remembers

-----------------------------------------------------------------------------
(* Steps of a reconcile. *)

SameObject == SameReconcile /\ run'.stale = run.stale

\* What a step adds to the cluster its runtime's spec asks for.
ClusterIsOwn ==
  /\ \A s \in Spaces : Operable(s)' => Operable(s) \/ (Deploying /\ s \in run.spec.spaces)
  /\ \A a \in Accounts : HasAccount(a)' \/ roles'[a].exists =>
       HasAccount(a) \/ roles[a].exists \/ (Deploying /\ a = run.spec.account)
  /\ \A a \in Accounts : \A p \in roles'[a].perms :
       p \in roles[a].perms \/ (Deploying /\ a = run.spec.account /\ p = run.spec.repo)
  /\ ns'[Product] = "none" => accounts' = {}
  /\ \A r \in Names : apps'[r] # {} => apps[r] # {} \/ r = run.rt

LEMMA OwnStep ==
  ASSUME Inv, TidyInv, run.pc # "idle", SameReconcile, UNCHANGED runtimes, ClusterIsOwn
  PROVE  /\ ClusterIsClaimed'
         /\ \A s \in Spaces : SpaceIsLeft(s) => SpaceIsLeft(s)'
         /\ AccountIsLeft => AccountIsLeft'
         /\ \A p \in Repos : PermIsLeft(p) => PermIsLeft(p)'
<1>1. /\ run.rt \in Names
      /\ runtimes[run.rt].phase # "none"
      /\ Deploying =>
           /\ \A s \in run.spec.spaces : ClaimsSpace(run.rt, s)
           /\ ClaimsAccount(run.rt, run.spec.account)
           /\ ClaimsPerm(run.rt, run.spec.account, run.spec.repo)
  BY OwnFacts
<1>2. PICK q \in Names : q = run.rt
  BY <1>1
<1>3. \A s \in Spaces : Operable(s)' => \E r \in Names : ClaimsSpace(r, s)'
  <2> SUFFICES ASSUME NEW s \in Spaces, Operable(s)' PROVE \E r \in Names : ClaimsSpace(r, s)'
    OBVIOUS
  <2>1. \E r \in Names : ClaimsSpace(r, s)
    BY <1>1 DEF ClusterIsOwn, TidyInv, ClusterIsClaimed
  <2> QED BY <2>1, ClaimsAreSame
<1>4. \A a \in Accounts : HasAccount(a)' \/ roles'[a].exists => \E r \in Names : ClaimsAccount(r, a)'
  <2> SUFFICES ASSUME NEW a \in Accounts, HasAccount(a)' \/ roles'[a].exists
               PROVE  \E r \in Names : ClaimsAccount(r, a)'
    OBVIOUS
  <2>1. \E r \in Names : ClaimsAccount(r, a)
    BY <1>1 DEF ClusterIsOwn, TidyInv, ClusterIsClaimed
  <2> QED BY <2>1, ClaimsAreSame
<1>5. \A a \in Accounts : \A p \in roles'[a].perms : \E r \in Names : ClaimsPerm(r, a, p)'
  <2> SUFFICES ASSUME NEW a \in Accounts, NEW p \in roles'[a].perms
               PROVE  \E r \in Names : ClaimsPerm(r, a, p)'
    OBVIOUS
  <2>1. \E r \in Names : ClaimsPerm(r, a, p)
    BY <1>1 DEF ClusterIsOwn, TidyInv, ClusterIsClaimed
  <2> QED BY <2>1, ClaimsAreSame
<1>6. \A r \in Names : apps'[r] # {} => runtimes'[r].phase # "none"
  BY <1>1 DEF ClusterIsOwn, TidyInv, ClusterIsClaimed
<1>7. ClusterIsClaimed'
  BY <1>1, <1>2, <1>3, <1>4, <1>5, <1>6 DEF ClusterIsClaimed, ClusterIsOwn
<1>8. ASSUME NEW s \in Spaces, SpaceIsLeft(s) PROVE SpaceIsLeft(s)'
  BY <1>8, ClaimsAreSame DEF SpaceIsLeft, ClusterIsOwn, SameReconcile, Deploying, Others
<1>9. ASSUME AccountIsLeft PROVE AccountIsLeft'
  <2>1. CASE run.old.account \in Accounts
    <3>1. PICK a \in Accounts : a = run.old.account
      BY <2>1
    <3>2. HasAccount(a)' \/ roles'[a].exists =>
            \/ Deploying /\ a = run.spec.account
            \/ \E r \in Others : ClaimsAccount(r, a)
      BY <1>9, <3>1 DEF AccountIsLeft, ClusterIsOwn
    <3>3. Others' = Others /\ run'.old.account = a
      BY <3>1 DEF Others, SameReconcile
    <3>4. \A r \in Others : ClaimsAccount(r, a) => ClaimsAccount(r, a)'
      BY ClaimsAreSame
    <3>5. HasAccount(run.old.account)' <=> HasAccount(a)'
      BY <3>3 DEF HasAccount, Operable
    <3>6. \A r \in Others : ClaimsAccount(r, run.old.account)' <=> ClaimsAccount(r, a)'
      BY <3>3 DEF ClaimsAccount, Live, Remembers
    <3> QED BY <3>2, <3>3, <3>4, <3>5, <3>6 DEF AccountIsLeft, SameReconcile, Deploying
  <2>2. CASE run.old.account \notin Accounts
    BY <2>2 DEF AccountIsLeft, SameReconcile
  <2> QED BY <2>1, <2>2
<1>10. ASSUME NEW p \in Repos, PermIsLeft(p) PROVE PermIsLeft(p)'
  <2>1. CASE run.old.account \in Accounts
    <3>1. PICK a \in Accounts : a = run.old.account
      BY <2>1
    <3>2. p \in roles'[a].perms =>
            \/ Deploying /\ a = run.spec.account /\ p = run.spec.repo
            \/ \E r \in Others : ClaimsPerm(r, a, p)
      BY <1>10, <3>1 DEF PermIsLeft, ClusterIsOwn
    <3>3. Others' = Others /\ run'.old.account = a
      BY <3>1 DEF Others, SameReconcile
    <3>4. \A r \in Others : ClaimsPerm(r, a, p) => ClaimsPerm(r, a, p)'
      BY ClaimsAreSame
    <3>5. \A r \in Others : ClaimsPerm(r, run.old.account, p)' <=> ClaimsPerm(r, a, p)'
      BY <3>3 DEF ClaimsPerm, Live, Remembers
    <3> QED BY <3>2, <3>3, <3>4, <3>5 DEF PermIsLeft, SameReconcile, Deploying
  <2>2. CASE run.old.account \notin Accounts
    BY <2>2 DEF PermIsLeft, SameReconcile
  <2> QED BY <2>1, <2>2
<1> QED BY <1>7, <1>8, <1>9, <1>10

\* What a call leaves stays left; the record is the copy.
LEMMA CallFacts ==
  ASSUME Inv, TidyInv, run.pc \in Calls, SameReconcile, UNCHANGED runtimes, ClusterIsOwn,
         run'.pc \in Calls \cup {"saveUsage"}
  PROVE  /\ run.pc # "idle" /\ Copied /\ Copied'
         /\ Record = run.usage /\ Record' = run'.usage
         /\ Deploying' <=> Deploying
         /\ Deleting' <=> Deleting
         /\ run.old.spaces \subseteq Spaces /\ run.old.perms \subseteq Repos
         /\ \A s \in Spaces : SpaceIsLeft(s) => SpaceIsLeft(s)'
         /\ AccountIsLeft => AccountIsLeft'
         /\ \A p \in Repos : PermIsLeft(p) => PermIsLeft(p)'
         /\ PermsAreLeft => PermsAreLeft'
         /\ PermsAreExact(Record)' <=> PermsAreExact(run'.usage)
         /\ AccountIsExact(Record)' <=> AccountIsExact(run'.usage)
<1>1. run.pc # "idle" /\ Copied /\ Copied' /\ ~At("saveStatus") /\ ~At("saveStatus")'
  BY DEF Calls, Copied, PC, At
<1>2. Record = run.usage /\ Record' = run'.usage
  BY <1>1 DEF Record
<1>3. run.old.spaces \subseteq Spaces /\ run.old.perms \subseteq Repos
  BY <1>1, RunFacts DEF Cache
<1>4. /\ \A s \in Spaces : SpaceIsLeft(s) => SpaceIsLeft(s)'
      /\ AccountIsLeft => AccountIsLeft'
      /\ \A p \in Repos : PermIsLeft(p) => PermIsLeft(p)'
  BY <1>1, OwnStep
<1>5. PermsAreLeft => PermsAreLeft'
  BY <1>3, <1>4 DEF PermsAreLeft, SameReconcile
<1>6. /\ PermsAreExact(Record)' <=> PermsAreExact(run'.usage)
      /\ AccountIsExact(Record)' <=> AccountIsExact(run'.usage)
  BY <1>2 DEF PermsAreExact, AccountIsExact, SameReconcile
<1> QED BY <1>1, <1>2, <1>3, <1>4, <1>5, <1>6 DEF SameReconcile, Deploying, Deleting

\* The cache to be saved forgets no more than before.
LEMMA NewStays ==
  ASSUME Inv, TidyInv, run.pc \in Calls, SameReconcile, UNCHANGED runtimes, ClusterIsOwn,
         run'.pc \in Calls \cup {"saveUsage"},
         run'.new.account = run.new.account, run'.new.perms = run.new.perms,
         run.new.spaces \subseteq run'.new.spaces, Deleting => run'.new = run.new,
         PermsAreExact(run.usage) => PermsAreExact(run'.usage),
         run.usage.space[run.rt] \subseteq run.spec.spaces =>
           run'.usage.space[run.rt] \subseteq run.spec.spaces
  PROVE  NewIsTidy'
<1>1. /\ run.pc # "idle" /\ Record = run.usage /\ Record' = run'.usage
      /\ Deploying' <=> Deploying
      /\ Deleting' <=> Deleting
      /\ run.old.spaces \subseteq Spaces
      /\ AccountIsLeft => AccountIsLeft'
      /\ PermsAreLeft => PermsAreLeft'
      /\ PermsAreExact(Record)' <=> PermsAreExact(run'.usage)
  BY CallFacts
<1>2. /\ \/ run.new.account = run.old.account /\ run.new.perms = run.old.perms
         \/ /\ Deploying /\ run.new.account = run.spec.account /\ run.new.perms = {run.spec.repo}
            /\ AccountIsLeft /\ PermsAreLeft /\ PermsAreExact(Record)
      /\ Deleting => run.new = run.old
      /\ \A s \in run.old.spaces \ run.new.spaces :
           Deploying /\ ~Operable(s) /\ s \notin run.spec.spaces /\ Record.space[run.rt] \subseteq run.spec.spaces
  BY <1>1 DEF TidyInv, NewIsTidy
<1>3. \/ run'.new.account = run'.old.account /\ run'.new.perms = run'.old.perms
      \/ /\ Deploying' /\ run'.new.account = run'.spec.account /\ run'.new.perms = {run'.spec.repo}
         /\ AccountIsLeft' /\ PermsAreLeft' /\ PermsAreExact(Record)'
  BY <1>1, <1>2 DEF SameReconcile
<1>4. \A s \in run'.old.spaces \ run'.new.spaces :
        Deploying' /\ ~Operable(s)' /\ s \notin run'.spec.spaces /\ Record'.space[run'.rt] \subseteq run'.spec.spaces
  BY <1>1, <1>2 DEF SameReconcile, ClusterIsOwn
<1>5. Deleting' => run'.new = run'.old
  BY <1>1, <1>2 DEF SameReconcile
<1> QED BY <1>3, <1>4, <1>5 DEF NewIsTidy

\* A step of a reconcile that writes neither an object nor the record.
LEMMA TidyStep ==
  ASSUME Inv, TidyInv, run.pc \in Calls, SameObject, UNCHANGED <<runtimes, usage>>, ClusterIsOwn,
         run'.pc \in Calls \cup {"saveUsage"}, Claimed(run'.usage), NewIsTidy',
         run'.pc = "createSpaces" => run'.todo \subseteq run.spec.spaces,
         run'.failed = run.failed \/ run'.pc = "saveUsage",
         DeploymentIsTidy', DeletionIsTidy'
  PROVE  TidyInv'
<1>1. run.pc # "idle" /\ run.pc # "addFinalizer" /\ SameReconcile
  BY DEF Calls, SameObject
<1>2. RunIsCurrent'
  <2>1. ~run.failed
    BY <1>1, OwnFacts DEF TidyInv, RunIsCurrent, Calls, FromSaved
  <2> QED BY <1>1, <2>1, OwnFacts
      DEF RunIsCurrent, SameReconcile, SameObject, Deploying, At, FromSaved, Calls
<1>3. SettledIsSaved'
  BY DEF TidyInv, SettledIsSaved, Settled
<1>4. CopyIsClaimed'
  BY ClaimsAreSame DEF CopyIsClaimed, Claimed
<1> QED BY <1>1, <1>2, <1>3, <1>4, SameUsageIsClaimed, OwnStep DEF TidyInv

LEMMA FailedIsTidy ==
  ASSUME Inv, TidyInv, run.pc \in Calls, run' = Failed, UNCHANGED <<runtimes, usage>>, ClusterIsOwn
  PROVE  TidyInv'
<1>1. run.pc # "idle" /\ Copied
  BY DEF Calls, Copied, PC
<1>2. /\ run'.pc = "saveUsage" /\ run'.failed /\ SameReconcile
      /\ run'.new = run.new /\ run'.usage = run.usage
  BY <1>1, RunFacts, FailedFacts DEF SameReconcile
<1>3. run'.stale = run.stale
  BY <1>1, RunFacts DEF RunType, Failed
<1>4. Claimed(run'.usage)
  BY <1>1, <1>2 DEF TidyInv, CopyIsClaimed
<1>5. NewIsTidy'
  BY <1>2, NewStays
<1>6. DeploymentIsTidy' /\ DeletionIsTidy'
  BY <1>2 DEF DeploymentIsTidy, DeletionIsTidy
<1> QED BY <1>2, <1>3, <1>4, <1>5, <1>6, TidyStep DEF SameObject

LEMMA AnswerIsTidy ==
  ASSUME Inv, TidyInv, run.pc \in Calls, NEW next, Answer(next),
         UNCHANGED <<runtimes, usage>>, ClusterIsOwn, run' = next => TidyInv'
  PROVE  TidyInv'
  BY FailedIsTidy DEF Answer

LEMMA NoCallIsOwn ==
  ASSUME Inv, TidyInv, UNCHANGED clusterVars
  PROVE  ClusterIsOwn
  BY DEF clusterVars, ClusterIsOwn, Operable, HasAccount, TidyInv, ClusterIsClaimed

LEMMA RefuseIsTidy ==
  ASSUME Inv, TidyInv, run.pc \in Calls, Refuse
  PROVE  TidyInv'
  BY NoCallIsOwn, FailedIsTidy DEF Refuse, clusterVars

LEMMA PanicIsTidy ==
  ASSUME Inv, TidyInv, run.pc \in Calls, Panic
  PROVE  TidyInv'
<1>1. run.pc # "idle" /\ Copied
  BY DEF Calls, Copied, PC
<1>2. /\ run'.pc = "saveUsage" /\ run'.failed /\ SameReconcile
      /\ run'.new = run.old /\ run'.usage = run.usage /\ run'.stale = run.stale
  BY <1>1, RunFacts, PanicFacts DEF Panic
<1>3. UNCHANGED <<runtimes, usage>> /\ ClusterIsOwn
  BY NoCallIsOwn DEF Panic, clusterVars
<1>4. Claimed(run'.usage)
  BY <1>1, <1>2 DEF TidyInv, CopyIsClaimed
<1>5. NewIsTidy'
  BY <1>2 DEF NewIsTidy, SameReconcile
<1>6. DeploymentIsTidy' /\ DeletionIsTidy'
  BY <1>2 DEF DeploymentIsTidy, DeletionIsTidy
<1> QED BY <1>2, <1>3, <1>4, <1>5, <1>6, TidyStep DEF SameObject

LEMMA CallFailsIsTidy ==
  ASSUME Inv, TidyInv, CallFails
  PROVE  TidyInv'
  BY NoCallIsOwn, FailedIsTidy DEF CallFails, clusterVars

\* A call takes effect and the reconcile goes on at pc.
LEMMA TidyGoesOn ==
  ASSUME Inv, TidyInv, run.pc \in Calls, NEW pc \in Calls \cup {"saveUsage"},
         NEW todo \in SUBSET (Spaces \cup Repos), run' = GoTo(pc, todo),
         UNCHANGED <<runtimes, usage>>, ClusterIsOwn, DeploymentIsTidy', DeletionIsTidy',
         pc = "createSpaces" => todo \subseteq run.spec.spaces
  PROVE  TidyInv'
<1>1. run.pc # "idle" /\ Copied /\ pc \in PC \ {"idle"}
  BY DEF Calls, Copied, PC
<1>2. /\ SameReconcile /\ run'.pc = pc /\ run'.new = run.new /\ run'.usage = run.usage
      /\ run'.todo = todo /\ run'.failed = run.failed
  BY <1>1, RunGoesTo
<1>3. run'.stale = run.stale
  BY <1>1, RunFacts, GoToFacts
<1>4. Claimed(run'.usage)
  BY <1>1, <1>2 DEF TidyInv, CopyIsClaimed
<1>5. NewIsTidy'
  BY <1>2, NewStays
<1> QED BY <1>2, <1>3, <1>4, <1>5, TidyStep DEF SameObject

\* The call is done, the reconcile at pc: what it knows of what is left.
LEMMA GoneOn ==
  ASSUME Inv, TidyInv, run.pc \in Calls, NEW pc \in Calls \cup {"saveUsage"},
         NEW todo \in SUBSET (Spaces \cup Repos), run' = GoTo(pc, todo),
         UNCHANGED runtimes, ClusterIsOwn
  PROVE  /\ SameReconcile /\ run'.pc = pc /\ run'.todo = todo
         /\ run'.new = run.new /\ run'.usage = run.usage /\ run'.failed = run.failed
         /\ Record = run.usage /\ Record' = run.usage
         /\ run.pc # "idle" /\ Copied
         /\ Deploying' <=> Deploying
         /\ Deleting' <=> Deleting
         /\ Deploying <=> ~Deleting
         /\ Deploying => run.pc \in DeployPCs
         /\ Deleting => run.pc \in DeletePCs
         /\ run.old.spaces \subseteq Spaces /\ run.old.perms \subseteq Repos
         /\ \A s \in Spaces : SpaceIsLeft(s) => SpaceIsLeft(s)'
         /\ AccountIsLeft => AccountIsLeft'
         /\ \A p \in Repos : PermIsLeft(p) => PermIsLeft(p)'
         /\ PermsAreLeft => PermsAreLeft'
         /\ PermsAreExact(Record)' <=> PermsAreExact(Record)
         /\ AccountIsExact(Record)' <=> AccountIsExact(Record)
<1>1. run.pc # "idle" /\ pc \in PC \ {"idle"}
  BY DEF Calls, PC
<1>2. /\ SameReconcile /\ run'.pc = pc /\ run'.todo = todo
      /\ run'.new = run.new /\ run'.usage = run.usage /\ run'.failed = run.failed
  BY <1>1, RunGoesTo
<1> QED BY <1>1, <1>2, CallFacts, RunFacts

-----------------------------------------------------------------------------
(* The product and its spaces. *)

LEMMA CreateProductIsTidy ==
  ASSUME Inv, TidyInv, CreateProduct
  PROVE  TidyInv'
<1>1. run.pc = "createProduct" /\ run.pc \in Calls
  BY DEF CreateProduct, At, Calls, PC
<1>2. CASE Refuse
  BY <1>1, <1>2, RefuseIsTidy
<1>3. CASE CanCreateNamespace(Product) /\ CreateNamespace(Product) /\ Answer(GoTo("createProject", {}))
           /\ UNCHANGED <<users, accounts, project, apps, roles, usage, runtimes, recorded, edits>>
  <2>1. ns \in [Spaces \cup {Product} -> {"none", "active", "terminating"}]
    BY DEF Inv, RestTyped, ClusterTypeOK
  <2>2. /\ ns'[Product] = "active" /\ \A s \in Spaces : ns'[s] = ns[s]
        /\ ns[Product] \in {"none", "active"}
    BY <1>3, <2>1, ClusterAssumption DEF CreateNamespace, CanCreateNamespace
  <2>3. \A a \in Accounts : HasAccount(a)' => HasAccount(a)
    BY <1>3, <2>2 DEF HasAccount, Operable, TidyInv, ClusterIsClaimed
  <2>4. ClusterIsOwn
    BY <1>3, <2>2, <2>3 DEF ClusterIsOwn, Operable
  <2>5. ASSUME run' = GoTo("createProject", {}) PROVE TidyInv'
    <3>1. "createProject" \in Calls \cup {"saveUsage"} /\ {} \in SUBSET (Spaces \cup Repos)
      BY DEF Calls, PC
    <3> HIDE DEF Calls
    <3>2. /\ SameReconcile /\ run'.pc = "createProject" /\ run'.new = run.new
          /\ run'.failed = run.failed
          /\ Deploying' <=> Deploying
          /\ Deleting => run.pc \in DeletePCs
      BY <1>1, <1>3, <2>4, <2>5, <3>1, GoneOn
    <3>3. DeletionIsTidy'
      BY <1>1, <3>2 DEF DeletionIsTidy, DeletePCs, Leaving, Ending, SameReconcile, Deleting
    <3>4. Deploying /\ ~run.failed => run.old.spaces \subseteq run.new.spaces
      BY <1>1 DEF TidyInv, DeploymentIsTidy, FromSynced, FromSaved
    <3>5. DeploymentIsTidy'
      BY <3>2, <3>4
      DEF DeploymentIsTidy, At, SameReconcile, FromSynced, FromLeft, FromSpaces, FromAccount,
          FromUsers, FromRole, FromGranted, FromSaved, Leaving
    <3> QED BY <1>1, <1>3, <2>4, <2>5, <3>1, <3>3, <3>5, TidyGoesOn
  <2> QED BY <1>1, <1>3, <2>4, <2>5, AnswerIsTidy
<1> QED BY <1>2, <1>3 DEF CreateProduct

LEMMA CreateProjectIsTidy ==
  ASSUME Inv, TidyInv, CreateProject
  PROVE  TidyInv'
<1>1. /\ run.pc = "createProject" /\ run.pc \in Calls /\ Answer(GoTo("addProductUser", {}))
      /\ UNCHANGED <<ns, users, accounts, apps, roles, usage, runtimes, recorded, edits>>
  BY DEF CreateProject, At, Calls, PC
<1>2. ClusterIsOwn
  BY <1>1 DEF ClusterIsOwn, Operable, HasAccount, TidyInv, ClusterIsClaimed
<1>3. ASSUME run' = GoTo("addProductUser", {}) PROVE TidyInv'
  <2>1. "addProductUser" \in Calls \cup {"saveUsage"} /\ {} \in SUBSET (Spaces \cup Repos)
    BY DEF Calls, PC
  <2>2. /\ SameReconcile /\ run'.pc = "addProductUser" /\ run'.new = run.new
        /\ run'.failed = run.failed
        /\ Deploying' <=> Deploying
        /\ Deleting => run.pc \in DeletePCs
    BY <1>1, <1>2, <1>3, <2>1, GoneOn
  <2>3. DeletionIsTidy'
    BY <1>1, <2>2 DEF DeletionIsTidy, DeletePCs, Leaving, Ending, SameReconcile, Deleting
  <2>4. Deploying /\ ~run.failed => run.old.spaces \subseteq run.new.spaces
    BY <1>1 DEF TidyInv, DeploymentIsTidy, FromSynced, FromSaved
  <2>5. DeploymentIsTidy'
    BY <2>2, <2>4
    DEF DeploymentIsTidy, At, SameReconcile, FromSynced, FromLeft, FromSpaces, FromAccount,
        FromUsers, FromRole, FromGranted, FromSaved, Leaving
  <2> QED BY <1>1, <1>2, <1>3, <2>1, <2>3, <2>5, TidyGoesOn
<1> QED BY <1>1, <1>2, <1>3, AnswerIsTidy

LEMMA AddProductUserIsTidy ==
  ASSUME Inv, TidyInv, AddProductUser
  PROVE  TidyInv'
<1>1. /\ run.pc = "addProductUser" /\ run.pc \in Calls
      /\ Answer(GoTo("createSpaces", run.spec.spaces))
      /\ UNCHANGED <<ns, users, accounts, apps, roles, usage, runtimes, recorded, edits>>
  BY DEF AddProductUser, At, Calls, PC
<1>2. ClusterIsOwn
  BY <1>1 DEF ClusterIsOwn, Operable, HasAccount, TidyInv, ClusterIsClaimed
<1>3. ASSUME run' = GoTo("createSpaces", run.spec.spaces) PROVE TidyInv'
  <2>1. "createSpaces" \in Calls \cup {"saveUsage"} /\ run.spec.spaces \in SUBSET (Spaces \cup Repos)
    BY <1>1, RunFacts, ConstantFacts DEF Calls, PC
  <2>2. /\ SameReconcile /\ run'.pc = "createSpaces" /\ run'.new = run.new
        /\ run'.failed = run.failed
        /\ Deploying' <=> Deploying
        /\ Deleting => run.pc \in DeletePCs
    BY <1>1, <1>2, <1>3, <2>1, GoneOn
  <2>3. DeletionIsTidy'
    BY <1>1, <2>2 DEF DeletionIsTidy, DeletePCs, Leaving, Ending, SameReconcile, Deleting
  <2>4. Deploying /\ ~run.failed => run.old.spaces \subseteq run.new.spaces
    BY <1>1 DEF TidyInv, DeploymentIsTidy, FromSynced, FromSaved
  <2>5. DeploymentIsTidy'
    BY <2>2, <2>4
    DEF DeploymentIsTidy, At, SameReconcile, FromSynced, FromLeft, FromSpaces, FromAccount,
        FromUsers, FromRole, FromGranted, FromSaved, Leaving
  <2> QED BY <1>1, <1>2, <1>3, <2>1, <2>3, <2>5, TidyGoesOn
<1> QED BY <1>1, <1>2, <1>3, AnswerIsTidy

LEMMA CreateSpaceIsTidy ==
  ASSUME Inv, TidyInv, NEW s \in Spaces, CreateSpace(s)
  PROVE  TidyInv'
<1>1. run.pc = "createSpaces" /\ run.pc \in Calls
  BY DEF CreateSpace, At, Calls, PC
<1>2. CASE Refuse
  BY <1>1, <1>2, RefuseIsTidy
<1>3. CASE CreateNamespace(s) /\ Answer(GoTo("createSpaces", run.todo \ {s}))
           /\ UNCHANGED <<users, accounts, project, apps, roles, usage, runtimes, recorded, edits>>
  <2>1. ns \in [Spaces \cup {Product} -> {"none", "active", "terminating"}]
    BY DEF Inv, RestTyped, ClusterTypeOK
  <2>2. ns'[Product] = ns[Product] /\ \A t \in Spaces : ns'[t] = ns[t] \/ t = s
    BY <1>3, <2>1, ClusterAssumption DEF CreateNamespace
  <2>3. Deploying /\ run.todo \subseteq run.spec.spaces /\ s \in run.spec.spaces
    BY <1>1, RunFacts DEF CreateSpace, TidyInv, RunIsCurrent, At, DeletePCs, Leaving, Ending
  <2>4. ClusterIsOwn
    BY <1>3, <2>2, <2>3 DEF ClusterIsOwn, Operable, HasAccount, TidyInv, ClusterIsClaimed
  <2>5. ASSUME run' = GoTo("createSpaces", run.todo \ {s}) PROVE TidyInv'
    <3>1. /\ "createSpaces" \in Calls \cup {"saveUsage"}
          /\ run.todo \ {s} \in SUBSET (Spaces \cup Repos)
      BY <1>1, RunFacts DEF Calls, PC
    <3>2. /\ SameReconcile /\ run'.pc = "createSpaces" /\ run'.new = run.new
          /\ run'.failed = run.failed
          /\ Deploying' <=> Deploying
      BY <1>1, <1>3, <2>4, <2>5, <3>1, GoneOn
    <3>3. DeletionIsTidy'
      BY <2>3, <3>2, RunFacts DEF DeletionIsTidy, SameReconcile, Deleting, Deploying
    <3>4. Deploying /\ ~run.failed => run.old.spaces \subseteq run.new.spaces
      BY <1>1 DEF TidyInv, DeploymentIsTidy, FromSynced, FromSaved
    <3>5. DeploymentIsTidy'
      BY <3>2, <3>4
      DEF DeploymentIsTidy, At, SameReconcile, FromSynced, FromLeft, FromSpaces, FromAccount,
          FromUsers, FromRole, FromGranted, FromSaved, Leaving
    <3> QED BY <1>1, <1>3, <2>3, <2>4, <2>5, <3>1, <3>3, <3>5, TidyGoesOn
  <2> QED BY <1>1, <1>3, <2>4, <2>5, AnswerIsTidy
<1> QED BY <1>2, <1>3 DEF CreateSpace

\* What others are recorded as using, others claim.
LEMMA UsedIsClaimed ==
  ASSUME NEW u \in Usage, Claimed(u)
  PROVE  /\ \A s \in SpacesUsed(u, {run.rt}) : \E r \in Others : ClaimsSpace(r, s)
         /\ \A a : UsesOf(u, a, {run.rt}) # {} => \E r \in Others : ClaimsAccount(r, a)
         /\ \A a : \A p \in PermsUsed(u, a, {run.rt}) : \E r \in Others : ClaimsPerm(r, a, p)
<1>1. \A s \in SpacesUsed(u, {run.rt}) : \E r \in Others : ClaimsSpace(r, s)
  BY DEF Claimed, SpacesUsed, Others
<1>2. \A x \in u.account : x.runtime \in Names
  BY DEF Usage, AccountUse
<1>3. ASSUME NEW a, UsesOf(u, a, {run.rt}) # {} PROVE \E r \in Others : ClaimsAccount(r, a)
  <2>1. PICK x \in u.account : x.account = a /\ x.runtime \notin {run.rt}
    BY <1>3 DEF UsesOf
  <2>2. x.runtime \in Others /\ ClaimsAccount(x.runtime, a)
    BY <1>2, <2>1 DEF Others, Claimed
  <2> QED BY <2>2
<1>4. ASSUME NEW a, NEW p \in PermsUsed(u, a, {run.rt}) PROVE \E r \in Others : ClaimsPerm(r, a, p)
  <2>1. PICK x \in u.account : x.account = a /\ x.runtime \notin {run.rt} /\ p \in x.perms
    BY <1>4 DEF PermsUsed, UsesOf
  <2>2. x.runtime \in Others /\ ClaimsPerm(x.runtime, a, p)
    BY <1>2, <2>1 DEF Others, Claimed
  <2> QED BY <2>2
<1> QED BY <1>1, <1>3, <1>4

\* The copy of the record, and what is left of the last deployment because of it.
LEMMA CopyFacts ==
  ASSUME Inv, TidyInv, Copied
  PROVE  /\ run.pc # "idle" /\ run.usage \in Usage /\ Claimed(run.usage)
         /\ \A s \in SpacesUsed(run.usage, {run.rt}) : SpaceIsLeft(s)
         /\ UsesOf(run.usage, run.old.account, {run.rt}) # {} => AccountIsLeft
         /\ \A p \in PermsUsed(run.usage, run.old.account, {run.rt}) : PermIsLeft(p)
         /\ \A x \in run.usage.account : x.runtime = run.rt =>
              /\ x.account \in Accounts
              /\ x.account = run.old.account \/ (Deploying /\ x.account = run.spec.account)
<1>1. run.pc # "idle" /\ Claimed(run.usage)
  BY DEF Copied, PC, TidyInv, CopyIsClaimed
<1>2. run.usage \in Usage /\ run.rt \in Names
  BY <1>1, RunFacts
<1>3. \A x \in run.usage.account : x.runtime = run.rt =>
        /\ x.account \in Accounts
        /\ x.account = run.old.account \/ (Deploying /\ x.account = run.spec.account)
  BY <1>1, <1>2, OwnFacts DEF Claimed, Usage, AccountUse
<1> QED BY <1>1, <1>2, <1>3, UsedIsClaimed DEF SpaceIsLeft, AccountIsLeft, PermIsLeft

LEMMA SpacesCreatedIsTidy ==
  ASSUME Inv, TidyInv, SpacesCreated
  PROVE  TidyInv'
<1>1. /\ run.pc = "createSpaces" /\ run.todo = {} /\ run.pc \in Calls
      /\ UNCHANGED <<clusterVars, runtimes, recorded, edits>>
  BY DEF SpacesCreated, At, Calls, PC
<1>2. PICK q \in Names : q = run.rt
  BY <1>1, RunFacts
<1>3. /\ run \in RunType /\ run.spec \in Specs /\ run.spec.spaces \subseteq Spaces
      /\ run.spec.account \in Accounts /\ run.usage \in Usage /\ run.old \in Cache /\ run.new \in Cache
      /\ Deploying /\ ~Deleting /\ Copied
  BY <1>1, <1>2, RunFacts, ConstantFacts DEF DeletePCs, Leaving, Ending, Copied, PC
<1> DEFINE u == [run.usage EXCEPT !.space[run.rt] = run.spec.spaces]
           n == [run.new EXCEPT !.spaces = @ \cup run.spec.spaces]
<1>4. /\ u.runtimes = run.usage.runtimes /\ u.account = run.usage.account
      /\ u.space[q] = run.spec.spaces /\ \A r \in Names \ {q} : u.space[r] = run.usage.space[r]
  BY <1>2, <1>3 DEF Usage
<1>5. n.account = run.new.account /\ n.perms = run.new.perms /\ n.spaces = run.new.spaces \cup run.spec.spaces
  BY <1>3 DEF Cache
<1>6. PICK moved \in BOOLEAN : moved <=> run.old.account \notin {NoAccount, run.spec.account}
  OBVIOUS
<1>7. run' = [run EXCEPT !.usage = u, !.new = n, !.pc = IF moved THEN "revokeOld" ELSE "createAccount",
                         !.todo = IF moved THEN OldPerms ELSE {}]
  BY <1>6, <1>3 DEF SpacesCreated, RunType
<1> HIDE DEF u, n
<1>8. /\ SameObject /\ SameReconcile /\ run'.usage = u /\ run'.new = n /\ run'.failed = run.failed
      /\ moved => run'.pc = "revokeOld" /\ run'.todo = OldPerms
      /\ ~moved => run'.pc = "createAccount" /\ run'.todo = {}
  BY <1>3, <1>7 DEF RunType, SameReconcile, SameObject
<1>9. run'.pc \in Calls \cup {"saveUsage"} /\ run'.pc # "createSpaces" /\ UNCHANGED <<runtimes, usage>>
  BY <1>1, <1>8 DEF Calls, PC, clusterVars
<1>10. ClusterIsOwn
  BY <1>1, NoCallIsOwn
<1>11. /\ Claimed(run.usage)
       /\ \A p \in PermsUsed(run.usage, run.old.account, {run.rt}) : PermIsLeft(p)
       /\ \A x \in run.usage.account : x.runtime = run.rt =>
            /\ x.account \in Accounts
            /\ x.account = run.old.account \/ x.account = run.spec.account
  BY <1>3, CopyFacts
<1>12. Claimed(u)
  <2>1. \A s \in run.spec.spaces : ClaimsSpace(q, s)
    BY <1>1, <1>2, <1>3, OwnFacts
  <2>2. \A r \in Names : \A s \in u.space[r] : ClaimsSpace(r, s)
    BY <1>4, <1>11, <2>1 DEF Claimed
  <2> QED BY <1>4, <1>11, <2>2 DEF Claimed
<1>13. PermsAreExact(run.usage) => PermsAreExact(u)
  BY <1>4 DEF PermsAreExact, AccountIsExact
<1>14. NewIsTidy'
  BY <1>1, <1>2, <1>3, <1>4, <1>5, <1>8, <1>9, <1>10, <1>13, NewStays
<1>15. /\ Deploying' /\ ~Deleting' /\ Record' = u
       /\ run.old.spaces \subseteq Spaces /\ run.old.perms \subseteq Repos
       /\ AccountIsLeft => AccountIsLeft'
       /\ \A p \in Repos : PermIsLeft(p) => PermIsLeft(p)'
       /\ PermsAreLeft => PermsAreLeft'
       /\ AccountIsExact(Record)' <=> AccountIsExact(u)
  BY <1>1, <1>3, <1>8, <1>9, <1>10, CallFacts
<1>16. ~run.failed => run.old.spaces \subseteq n.spaces /\ run.spec.spaces \subseteq n.spaces
  BY <1>1, <1>3, <1>5 DEF TidyInv, DeploymentIsTidy, FromSynced, FromSaved
<1>17. moved => \A p \in run'.old.perms \ run'.todo : PermIsLeft(p)'
  BY <1>8, <1>11, <1>15 DEF OldPerms, SameReconcile
<1>18. ~moved => AccountIsLeft' /\ AccountIsExact(Record)'
  BY <1>3, <1>4, <1>6, <1>11, <1>15, SpecsAssumption DEF AccountIsLeft, AccountIsExact
<1>19. ~moved /\ run.old.account # run.spec.account => PermsAreLeft'
  BY <1>6, <1>15, SpecsAssumption DEF PermsAreLeft, PermIsLeft
<1>20. DeploymentIsTidy'
  <2>1. CASE moved
    BY <1>2, <1>4, <1>8, <1>15, <1>16, <1>17, <2>1
    DEF DeploymentIsTidy, At, SameReconcile, FromSynced, FromLeft, FromSpaces, FromAccount,
        FromUsers, FromRole, FromGranted, FromSaved, Leaving
  <2>2. CASE ~moved
    BY <1>2, <1>4, <1>8, <1>15, <1>16, <1>18, <1>19, <2>2
    DEF DeploymentIsTidy, At, SameReconcile, FromSynced, FromLeft, FromSpaces, FromAccount,
        FromUsers, FromRole, FromGranted, FromSaved, Leaving
  <2> QED BY <2>1, <2>2
<1>21. DeletionIsTidy'
  BY <1>15 DEF DeletionIsTidy
<1> QED BY <1>1, <1>8, <1>9, <1>10, <1>12, <1>14, <1>20, <1>21, TidyStep

-----------------------------------------------------------------------------
(* Leaving the account of the last deployment. *)

LEMMA LeavingIsTidy ==
  ASSUME Inv, TidyInv, run.pc \in Leaving, NEW pc \in Leaving,
         NEW todo \in SUBSET (Spaces \cup Repos), run' = GoTo(pc, todo),
         UNCHANGED <<runtimes, usage, apps>>, ClusterIsOwn,
         ~run.failed /\ pc = "revokeOld" => \A p \in run.old.perms \ todo : PermIsLeft(p)',
         ~run.failed /\ pc # "revokeOld" => PermsAreLeft',
         pc = "deleteAccount" => ~roles'[run.old.account].exists,
         ~run.failed /\ pc = "leftAccount" => AccountIsLeft'
  PROVE  TidyInv'
<1>1. run.pc \in Calls /\ pc \in Calls \cup {"saveUsage"} /\ pc # "createSpaces"
  BY DEF Leaving, Calls, PC
<1>2. /\ SameReconcile /\ run'.pc = pc /\ run'.todo = todo
      /\ run'.new = run.new /\ run'.usage = run.usage /\ run'.failed = run.failed
      /\ Record = run.usage /\ Record' = run.usage /\ Copied
      /\ Deploying' <=> Deploying
      /\ Deleting' <=> Deleting
  BY <1>1, GoneOn
<1>3. Deploying /\ ~run.failed =>
        /\ run.usage.space[run.rt] \subseteq run.spec.spaces
        /\ run.spec.spaces \subseteq run.new.spaces
        /\ run.old.spaces \subseteq run.new.spaces
  BY <1>2 DEF TidyInv, DeploymentIsTidy, FromSynced, FromSaved, FromSpaces, Leaving
<1>4. Deleting /\ ~run.failed =>
        /\ run.rt \notin run.usage.runtimes /\ run.usage.space[run.rt] = {}
        /\ apps[run.rt] = {}
  BY <1>2 DEF TidyInv, DeletionIsTidy
<1>5. DeploymentIsTidy'
  BY <1>2, <1>3
  DEF DeploymentIsTidy, At, SameReconcile, FromSynced, FromLeft, FromSpaces, FromAccount,
      FromUsers, FromRole, FromGranted, FromSaved, Leaving
<1>6. DeletionIsTidy'
  BY <1>2, <1>4 DEF DeletionIsTidy, At, SameReconcile, Leaving, FromCleaned, Ending
<1> QED BY <1>1, <1>5, <1>6, TidyGoesOn

\* What is left stays left while the old account is being left.
LEMMA LeftFacts ==
  ASSUME Inv, TidyInv, run.pc \in Leaving, SameReconcile, UNCHANGED runtimes, ClusterIsOwn
  PROVE  /\ run.pc \in Calls /\ run.pc # "idle" /\ Copied /\ run.old.account \in Accounts
         /\ ~run.failed /\ run.pc = "revokeOld" =>
              \A p \in run.old.perms \ run.todo : PermIsLeft(p)'
         /\ ~run.failed /\ run.pc # "revokeOld" => PermsAreLeft'
         /\ UsesOf(run.usage, run.old.account, {run.rt}) # {} => AccountIsLeft'
<1>1. run.pc \in Calls /\ run.pc # "idle" /\ Copied /\ run.old.account \in Accounts
  BY DEF Leaving, Calls, PC, Copied, Inv, RunIsSound
<1>2. /\ AccountIsLeft => AccountIsLeft'
      /\ \A p \in Repos : PermIsLeft(p) => PermIsLeft(p)'
  BY <1>1, OwnStep
<1>3. run.old.perms \subseteq Repos /\ (Deploying \/ Deleting)
  BY <1>1, RunFacts DEF Cache
<1>4. ~run.failed /\ run.pc = "revokeOld" => \A p \in run.old.perms \ run.todo : PermIsLeft(p)
  BY <1>3 DEF TidyInv, DeploymentIsTidy, DeletionIsTidy, At
<1>5. ~run.failed /\ run.pc # "revokeOld" => PermsAreLeft
  BY <1>3 DEF TidyInv, DeploymentIsTidy, DeletionIsTidy
<1>6. UsesOf(run.usage, run.old.account, {run.rt}) # {} => AccountIsLeft
  BY <1>1, CopyFacts
<1> QED BY <1>1, <1>2, <1>3, <1>4, <1>5, <1>6 DEF PermsAreLeft, SameReconcile

LEMMA RevokeOldIsTidy ==
  ASSUME Inv, TidyInv, NEW p \in Repos, RevokeOld(p)
  PROVE  TidyInv'
<1>1. /\ run.pc = "revokeOld" /\ run.pc \in Calls /\ run.pc \in Leaving /\ p \in run.todo
      /\ Answer(GoTo("revokeOld", run.todo \ {p}))
      /\ UNCHANGED <<ns, users, accounts, project, apps, usage, runtimes, recorded, edits>>
      /\ RevokePermission(run.old.account, p)
  BY DEF RevokeOld, At, Calls, PC, Leaving
<1>2. roles \in [Accounts -> Role] /\ run.old.account \in Accounts
  BY <1>1, LeavingFacts DEF Inv, RestTyped, ClusterTypeOK
<1>3. /\ \A a \in Accounts : roles'[a].exists = roles[a].exists
      /\ \A a \in Accounts : roles'[a].perms \subseteq roles[a].perms
      /\ p \notin roles'[run.old.account].perms
  BY <1>1, <1>2 DEF RevokePermission, Role
<1>4. ClusterIsOwn
  BY <1>1, <1>3 DEF ClusterIsOwn, Operable, HasAccount, TidyInv, ClusterIsClaimed
<1>5. "revokeOld" \in Leaving /\ run.todo \ {p} \in SUBSET (Spaces \cup Repos)
  BY <1>1, RunFacts DEF Leaving
<1>6. ASSUME run' = GoTo("revokeOld", run.todo \ {p}) PROVE TidyInv'
  <2>1. "revokeOld" \in PC \ {"idle"} /\ run.pc # "idle"
    BY <1>1 DEF PC
  <2>2. SameReconcile
    BY <1>5, <1>6, <2>1, RunGoesTo
  <2>3. ~run.failed => \A t \in run.old.perms \ run.todo : PermIsLeft(t)'
    BY <1>1, <1>4, <2>2, LeftFacts
  <2>4. PermIsLeft(p)'
    BY <1>3, <2>2 DEF PermIsLeft, SameReconcile
  <2>5. ~run.failed => \A t \in run.old.perms \ (run.todo \ {p}) : PermIsLeft(t)'
    BY <2>3, <2>4
  <2> QED BY <1>1, <1>4, <1>5, <1>6, <2>5, LeavingIsTidy
<1> QED BY <1>1, <1>4, <1>6, AnswerIsTidy

\* A step within the controller, or a call, when all permissions are left.
LEMMA LeavesOn ==
  ASSUME Inv, TidyInv, run.pc \in Leaving, run.pc = "revokeOld" => run.todo = {},
         NEW pc \in Leaving \ {"revokeOld"}, NEW todo \in SUBSET (Spaces \cup Repos),
         run' = GoTo(pc, todo), UNCHANGED <<runtimes, usage, apps>>, ClusterIsOwn,
         pc = "deleteAccount" => ~roles'[run.old.account].exists,
         ~run.failed /\ pc = "leftAccount" =>
           \/ UsesOf(run.usage, run.old.account, {run.rt}) # {}
           \/ ~HasAccount(run.old.account)' /\ ~roles'[run.old.account].exists
  PROVE  TidyInv'
<1>1. pc \in PC \ {"idle"} /\ pc \in Leaving /\ pc # "revokeOld" /\ run.pc # "idle"
  BY DEF Leaving, PC
<1>2. SameReconcile
  BY <1>1, RunGoesTo
<1>3. ~run.failed => PermsAreLeft'
  BY <1>2, LeftFacts DEF PermsAreLeft, SameReconcile
<1>4. PICK a \in Accounts : a = run.old.account
  BY <1>2, LeftFacts
<1>5. run'.old.account = a
  BY <1>2, <1>4 DEF SameReconcile
<1>6. HasAccount(run.old.account)' <=> HasAccount(a)'
  BY <1>5 DEF HasAccount, Operable
<1>7. ~HasAccount(a)' /\ ~roles'[a].exists => AccountIsLeft'
  BY <1>5, <1>6 DEF AccountIsLeft
<1>8. ~run.failed /\ pc = "leftAccount" => AccountIsLeft'
  BY <1>2, <1>4, <1>6, <1>7, LeftFacts
<1> QED BY <1>1, <1>3, <1>8, LeavingIsTidy

LEMMA LeaveAccountIsTidy ==
  ASSUME Inv, TidyInv, run.pc \in Leaving, run.pc = "revokeOld" => run.todo = {},
         run' = LeaveAccount, UNCHANGED <<clusterVars, runtimes>>
  PROVE  TidyInv'
<1>1. ClusterIsOwn /\ UNCHANGED <<runtimes, usage, apps>>
  BY NoCallIsOwn DEF clusterVars
<1>2. CASE AccountIsRemovable(run.usage, run.old.account, run.rt)
  <2>1. run' = GoTo("deleteRole", {}) /\ "deleteRole" \in Leaving \ {"revokeOld"}
    BY <1>2 DEF LeaveAccount, Leaving
  <2> QED BY <1>1, <2>1, LeavesOn
<1>3. CASE ~AccountIsRemovable(run.usage, run.old.account, run.rt)
  <2>1. run' = GoTo("leftAccount", {}) /\ "leftAccount" \in Leaving \ {"revokeOld"}
    BY <1>3 DEF LeaveAccount, Leaving
  <2>2. UsesOf(run.usage, run.old.account, {run.rt}) # {}
    BY <1>3 DEF AccountIsRemovable
  <2> QED BY <1>1, <2>1, <2>2, LeavesOn
<1> QED BY <1>2, <1>3

LEMMA OldRevokedIsTidy ==
  ASSUME Inv, TidyInv, OldRevoked
  PROVE  TidyInv'
<1>1. /\ run.pc \in Leaving /\ run.pc # "idle" /\ run.todo = {}
      /\ UNCHANGED <<clusterVars, runtimes, usage, apps>>
  BY DEF OldRevoked, At, Leaving, clusterVars
<1>2. CASE Deploying
  <2>1. run' = GoTo("dropUsers", OldSpaces) /\ "dropUsers" \in Leaving \ {"revokeOld"}
    BY <1>2 DEF OldRevoked, Leaving
  <2>2. OldSpaces \in SUBSET (Spaces \cup Repos)
    BY <1>1, RunFacts DEF OldSpaces, Cache
  <2>3. ClusterIsOwn
    BY <1>1, NoCallIsOwn
  <2> QED BY <1>1, <2>1, <2>2, <2>3, LeavesOn
<1>3. CASE ~Deploying
  BY <1>1, <1>3, LeaveAccountIsTidy DEF OldRevoked
<1> QED BY <1>2, <1>3

LEMMA UsersDroppedIsTidy ==
  ASSUME Inv, TidyInv, UsersDropped
  PROVE  TidyInv'
  BY LeaveAccountIsTidy DEF UsersDropped, At, Leaving

LEMMA DropUserIsTidy ==
  ASSUME Inv, TidyInv, NEW s \in Spaces, DropUser(s)
  PROVE  TidyInv'
<1>1. run.pc = "dropUsers" /\ run.pc \in Calls /\ run.pc \in Leaving
  BY DEF DropUser, At, Calls, PC, Leaving
<1>2. CASE Refuse
  BY <1>1, <1>2, RefuseIsTidy
<1>3. CASE Answer(GoTo("dropUsers", run.todo \ {s}))
           /\ UNCHANGED <<ns, accounts, project, apps, roles, usage, runtimes, recorded, edits>>
  <2>1. ClusterIsOwn
    BY <1>3 DEF ClusterIsOwn, Operable, HasAccount, TidyInv, ClusterIsClaimed
  <2>2. "dropUsers" \in Leaving \ {"revokeOld"} /\ run.todo \ {s} \in SUBSET (Spaces \cup Repos)
    BY <1>1, RunFacts DEF Leaving
  <2>3. ASSUME run' = GoTo("dropUsers", run.todo \ {s}) PROVE TidyInv'
    BY <1>1, <1>3, <2>1, <2>2, <2>3, LeavesOn
  <2> QED BY <1>1, <1>3, <2>1, <2>3, AnswerIsTidy
<1>4. CASE Panic
  BY <1>1, <1>4, PanicIsTidy
<1> QED BY <1>2, <1>3, <1>4 DEF DropUser

LEMMA DeleteProductRoleIsTidy ==
  ASSUME Inv, TidyInv, DeleteProductRole
  PROVE  TidyInv'
<1>1. /\ run.pc = "deleteRole" /\ run.pc \in Calls /\ run.pc \in Leaving
      /\ DeleteRole(run.old.account) /\ Answer(GoTo("deleteAccount", {}))
      /\ UNCHANGED <<ns, users, accounts, project, apps, usage, runtimes, recorded, edits>>
  BY DEF DeleteProductRole, At, Calls, PC, Leaving
<1>2. roles \in [Accounts -> Role] /\ run.old.account \in Accounts
  BY <1>1, LeavingFacts DEF Inv, RestTyped, ClusterTypeOK
<1>3. /\ \A a \in Accounts : roles'[a].exists => roles[a].exists
      /\ \A a \in Accounts : roles'[a].perms \subseteq roles[a].perms
      /\ ~roles'[run.old.account].exists
  BY <1>1, <1>2 DEF DeleteRole, Role, NoRole
<1>4. ClusterIsOwn
  BY <1>1, <1>3 DEF ClusterIsOwn, Operable, HasAccount, TidyInv, ClusterIsClaimed
<1>5. "deleteAccount" \in Leaving \ {"revokeOld"} /\ {} \in SUBSET (Spaces \cup Repos)
  BY DEF Leaving
<1>6. ASSUME run' = GoTo("deleteAccount", {}) PROVE TidyInv'
  BY <1>1, <1>3, <1>4, <1>5, <1>6, LeavesOn
<1> QED BY <1>1, <1>4, <1>6, AnswerIsTidy

LEMMA DeleteProductAccountIsTidy ==
  ASSUME Inv, TidyInv, DeleteProductAccount
  PROVE  TidyInv'
<1>1. /\ run.pc = "deleteAccount" /\ run.pc \in Calls /\ run.pc \in Leaving
      /\ DeleteAccount(run.old.account) /\ Answer(GoTo("leftAccount", {}))
      /\ UNCHANGED <<ns, project, apps, roles, usage, runtimes, recorded, edits>>
  BY DEF DeleteProductAccount, At, Calls, PC, Leaving
<1>2. accounts' \subseteq accounts /\ ~(HasAccount(run.old.account) /\ run.old.account \in accounts')
  BY <1>1 DEF DeleteAccount
<1>3. \A a \in Accounts : HasAccount(a)' => HasAccount(a)
  BY <1>1, <1>2 DEF HasAccount, Operable
<1>4. ClusterIsOwn
  BY <1>1, <1>2, <1>3 DEF ClusterIsOwn, Operable, TidyInv, ClusterIsClaimed
<1>5. "leftAccount" \in Leaving \ {"revokeOld"} /\ {} \in SUBSET (Spaces \cup Repos)
  BY DEF Leaving
<1>6. ASSUME run' = GoTo("leftAccount", {}) PROVE TidyInv'
  <2>1. "leftAccount" \in PC \ {"idle"} /\ run.pc # "idle"
    BY <1>1 DEF PC
  <2>2. run'.old = run.old
    BY <1>5, <1>6, <2>1, RunGoesTo DEF SameReconcile
  <2>3. ~HasAccount(run.old.account)'
    BY <1>1, <1>2, <2>2 DEF HasAccount, Operable
  <2>4. ~run.failed => ~roles'[run.old.account].exists
    BY <1>1, RunFacts DEF TidyInv, DeploymentIsTidy, DeletionIsTidy, At
  <2> QED BY <1>1, <1>4, <1>5, <1>6, <2>3, <2>4, LeavesOn
<1> QED BY <1>1, <1>4, <1>6, AnswerIsTidy

LEMMA AccountLeftIsTidy ==
  ASSUME Inv, TidyInv, AccountLeft
  PROVE  TidyInv'
<1>1. /\ run.pc = "leftAccount" /\ run.pc \in Leaving /\ run.pc \in Calls
      /\ UNCHANGED <<clusterVars, runtimes, recorded, edits>>
  BY DEF AccountLeft, At, Leaving, Calls, PC
<1>2. run.pc # "idle" /\ Copied /\ run.old.account \in Accounts
  BY <1>1, LeavingFacts
<1>3. /\ run \in RunType /\ run.usage \in Usage /\ run.old \in Cache
      /\ Deploying <=> ~Deleting
  BY <1>2, RunFacts
<1> DEFINE u == ForgetAccount(run.usage, run.old.account, run.rt)
<1>4. /\ u.runtimes = run.usage.runtimes /\ u.space = run.usage.space
      /\ u.account = {x \in run.usage.account : ~(x.account = run.old.account /\ x.runtime = run.rt)}
  BY <1>3 DEF ForgetAccount, Usage
<1> DEFINE pc == IF Deploying THEN "createAccount" ELSE "deleteSpaces"
           todo == IF Deploying THEN {} ELSE OutdatedSpaces(u, {run.rt})
<1>5. run' = [run EXCEPT !.usage = u, !.pc = pc, !.todo = todo]
  BY DEF AccountLeft
<1>6. pc \in Calls \cup {"saveUsage"} /\ pc # "createSpaces"
  BY <1>3 DEF PC, Calls
<1>7. /\ Deploying => pc = "createAccount"
      /\ Deleting => pc = "deleteSpaces" /\ todo = OutdatedSpaces(run.usage, {run.rt})
  BY <1>3, <1>4 DEF OutdatedSpaces, SpacesUsed
<1> HIDE DEF u, pc, todo
<1>8. /\ SameReconcile /\ SameObject /\ run'.pc = pc /\ run'.usage = u /\ run'.todo = todo
      /\ run'.new = run.new /\ run'.failed = run.failed
  BY <1>3, <1>5 DEF RunType, SameReconcile, SameObject
<1>9. ClusterIsOwn /\ UNCHANGED <<runtimes, usage, apps>>
  BY <1>1, NoCallIsOwn DEF clusterVars
<1>10. /\ Claimed(run.usage)
       /\ \A s \in SpacesUsed(run.usage, {run.rt}) : SpaceIsLeft(s)
       /\ \A x \in run.usage.account : x.runtime = run.rt =>
            /\ x.account \in Accounts
            /\ x.account = run.old.account \/ (Deploying /\ x.account = run.spec.account)
  BY <1>2, CopyFacts
<1>11. Claimed(u)
  BY <1>4, <1>10 DEF Claimed
<1>12. NewIsTidy'
  <2>1. PermsAreExact(run.usage) => PermsAreExact(u)
    BY <1>4 DEF PermsAreExact, AccountIsExact
  <2> QED BY <1>1, <1>4, <1>6, <1>8, <1>9, <2>1, NewStays
<1>13. /\ Deploying' <=> Deploying
       /\ Deleting' <=> Deleting
       /\ Record' = u
       /\ run.old.spaces \subseteq Spaces
       /\ \A s \in Spaces : SpaceIsLeft(s) => SpaceIsLeft(s)'
       /\ AccountIsLeft => AccountIsLeft'
       /\ PermsAreLeft => PermsAreLeft'
       /\ AccountIsExact(Record)' <=> AccountIsExact(u)
  BY <1>1, <1>6, <1>8, <1>9, CallFacts
<1>14. ~run.failed => AccountIsLeft' /\ PermsAreLeft'
  BY <1>1, <1>3, <1>13 DEF TidyInv, DeploymentIsTidy, DeletionIsTidy
<1>15. DeploymentIsTidy'
  <2>1. Deploying => AccountIsExact(Record)'
    BY <1>4, <1>10, <1>13 DEF AccountIsExact
  <2>2. Deploying /\ ~run.failed =>
          /\ run.usage.space[run.rt] \subseteq run.spec.spaces
          /\ run.spec.spaces \subseteq run.new.spaces
          /\ run.old.spaces \subseteq run.new.spaces
    BY <1>1 DEF TidyInv, DeploymentIsTidy, FromSynced, FromSaved, FromSpaces, Leaving, Record, At
  <2>3. Deploying => run'.pc = "createAccount"
    BY <1>7, <1>8
  <2> QED BY <1>4, <1>8, <1>13, <1>14, <2>1, <2>2, <2>3
      DEF DeploymentIsTidy, At, SameReconcile, FromSynced, FromLeft, FromSpaces, FromAccount,
          FromUsers, FromRole, FromGranted, FromSaved, Leaving
<1>16. DeletionIsTidy'
  <2>1. Deleting => \A x \in u.account : x.runtime # run.rt
    BY <1>3, <1>4, <1>10
  <2>2. Deleting /\ ~run.failed =>
          /\ run.rt \notin run.usage.runtimes /\ run.usage.space[run.rt] = {}
          /\ apps[run.rt] = {}
    BY <1>1, <1>2 DEF TidyInv, DeletionIsTidy
  <2>3. Deleting => run'.pc = "deleteSpaces" /\ run'.todo = OutdatedSpaces(run.usage, {run.rt})
    BY <1>7, <1>8
  <2>4. Deleting => \A s \in run.old.spaces \ run'.todo : SpaceIsLeft(s)'
    BY <1>10, <1>13, <2>3 DEF OutdatedSpaces
  <2> QED BY <1>4, <1>8, <1>9, <1>13, <1>14, <2>1, <2>2, <2>3, <2>4
      DEF DeletionIsTidy, At, SameReconcile, Leaving, FromCleaned, Ending
<1> QED BY <1>1, <1>6, <1>8, <1>9, <1>11, <1>12, <1>15, <1>16, TidyStep

-----------------------------------------------------------------------------
(* The account of a deployment. *)

\* The deployment has left the old account, and is not done with its own.
LEMMA AccountStage ==
  ASSUME Inv, TidyInv, run.pc \in {"createAccount", "addUsers", "createRole"},
         run'.pc \in {"addUsers", "createRole", "grant"}, SameReconcile,
         UNCHANGED runtimes, ClusterIsOwn, run'.new = run.new, run'.failed = run.failed,
         run'.usage.space = run.usage.space, AccountIsExact(run.usage) => AccountIsExact(run'.usage)
  PROVE  DeploymentIsTidy' /\ DeletionIsTidy'
<1>1. run.pc \in Calls /\ run'.pc \in Calls \cup {"saveUsage"} /\ Deploying /\ ~Deleting
  BY DeployingFacts DEF Calls, PC
<1>2. /\ Deploying' /\ ~Deleting' /\ Record = run.usage /\ Record' = run'.usage
      /\ AccountIsLeft => AccountIsLeft'
      /\ PermsAreLeft => PermsAreLeft'
      /\ AccountIsExact(Record)' <=> AccountIsExact(run'.usage)
  BY <1>1, CallFacts
<1>3. ~run.failed =>
        /\ run.usage.space[run.rt] \subseteq run.spec.spaces
        /\ run.spec.spaces \subseteq run.new.spaces
        /\ run.old.spaces \subseteq run.new.spaces
        /\ run.old.account # run.spec.account => PermsAreLeft
        /\ AccountIsLeft /\ AccountIsExact(run.usage)
  BY <1>1, <1>2
  DEF TidyInv, DeploymentIsTidy, FromSynced, FromSaved, FromSpaces, FromLeft, FromAccount,
      FromUsers, FromRole, Leaving
<1>4. DeploymentIsTidy'
  BY <1>2, <1>3
  DEF DeploymentIsTidy, At, SameReconcile, FromSynced, FromLeft, FromSpaces, FromAccount,
      FromUsers, FromRole, FromGranted, FromSaved, Leaving
<1> QED BY <1>2, <1>4 DEF DeletionIsTidy

LEMMA CreateProductAccountIsTidy ==
  ASSUME Inv, TidyInv, CreateProductAccount
  PROVE  TidyInv'
<1>1. run.pc = "createAccount" /\ run.pc \in Calls
  BY DEF CreateProductAccount, At, Calls, PC
<1>2. CASE Refuse
  BY <1>1, <1>2, RefuseIsTidy
<1>3. CASE /\ CanCreateAccount /\ CreateAccount(run.spec.account)
           /\ Answer(GoTo("addUsers", run.spec.spaces))
           /\ UNCHANGED <<ns, users, project, apps, roles, usage, runtimes, recorded, edits>>
  <2>1. run.pc # "idle" /\ Deploying /\ run.spec.spaces \subseteq Spaces
    BY <1>1, DeployingFacts
  <2>2. accounts' = accounts \cup {run.spec.account} /\ Operable(Product)
    BY <1>3 DEF CreateAccount, CanCreateAccount
  <2>3. ClusterIsOwn
    BY <1>3, <2>1, <2>2 DEF ClusterIsOwn, Operable, HasAccount
  <2>4. "addUsers" \in Calls \cup {"saveUsage"} /\ run.spec.spaces \in SUBSET (Spaces \cup Repos)
    BY <2>1 DEF Calls, PC
  <2>5. ASSUME run' = GoTo("addUsers", run.spec.spaces) PROVE TidyInv'
    <3>1. /\ SameReconcile /\ run'.pc = "addUsers" /\ run'.usage = run.usage
          /\ run'.failed = run.failed /\ run'.new = run.new
      BY <1>1, <1>3, <2>3, <2>4, <2>5, GoneOn
    <3>2. DeploymentIsTidy' /\ DeletionIsTidy'
      BY <1>1, <1>3, <2>3, <3>1, AccountStage
    <3> QED BY <1>1, <1>3, <2>3, <2>4, <2>5, <3>2, TidyGoesOn
  <2> QED BY <1>1, <1>3, <2>3, <2>5, AnswerIsTidy
<1> QED BY <1>2, <1>3 DEF CreateProductAccount

LEMMA AddUserIsTidy ==
  ASSUME Inv, TidyInv, NEW s \in Spaces, AddUser(s)
  PROVE  TidyInv'
<1>1. run.pc = "addUsers" /\ run.pc \in Calls
  BY DEF AddUser, At, Calls, PC
<1>2. CASE Refuse
  BY <1>1, <1>2, RefuseIsTidy
<1>3. CASE /\ Answer(GoTo("addUsers", run.todo \ {s}))
           /\ UNCHANGED <<ns, accounts, project, apps, roles, usage, runtimes, recorded, edits>>
  <2>1. ClusterIsOwn
    BY <1>3 DEF ClusterIsOwn, Operable, HasAccount, TidyInv, ClusterIsClaimed
  <2>2. "addUsers" \in Calls \cup {"saveUsage"} /\ run.todo \ {s} \in SUBSET (Spaces \cup Repos)
    BY <1>1, RunFacts DEF Calls, PC
  <2>3. ASSUME run' = GoTo("addUsers", run.todo \ {s}) PROVE TidyInv'
    <3>1. /\ SameReconcile /\ run'.pc = "addUsers" /\ run'.usage = run.usage
          /\ run'.failed = run.failed /\ run'.new = run.new
      BY <1>1, <1>3, <2>1, <2>2, <2>3, GoneOn
    <3>2. DeploymentIsTidy' /\ DeletionIsTidy'
      BY <1>1, <1>3, <2>1, <3>1, AccountStage
    <3> QED BY <1>1, <1>3, <2>1, <2>2, <2>3, <3>2, TidyGoesOn
  <2> QED BY <1>1, <1>3, <2>1, <2>3, AnswerIsTidy
<1> QED BY <1>2, <1>3 DEF AddUser

\* A use is recorded that is claimed.
LEMMA ReplacedIsClaimed ==
  ASSUME NEW u \in Usage, Claimed(u), NEW a, NEW q,
         NEW y, y.account = a, y.runtime = q,
         ClaimsAccount(q, a), \A p \in y.perms : ClaimsPerm(q, a, p),
         NEW v, v = UseReplaced(u, a, q, y)
  PROVE  /\ Claimed(v)
         /\ \A x \in v.account : x = y \/ (x \in u.account /\ ~(x.account = a /\ x.runtime = q))
<1>1. /\ v.runtimes = u.runtimes /\ v.space = u.space
      /\ v.account = {x \in u.account : ~(x.account = a /\ x.runtime = q)} \cup {y}
  BY DEF UseReplaced, ForgetAccount, Usage
<1> QED BY <1>1 DEF Claimed

\* The permissions of a use are those that were recorded, if any.
LEMMA UsePerms ==
  ASSUME NEW u \in Usage, NEW a, NEW q
  PROVE  LET x == UseOf(u, a, q) IN x.perms # {} => x \in u.account /\ x.account = a /\ x.runtime = q
<1>1. CASE \E y \in u.account : y.account = a /\ y.runtime = q
  <2>1. UseOf(u, a, q) = CHOOSE z \in u.account : z.account = a /\ z.runtime = q
    BY <1>1 DEF UseOf
  <2> QED BY <1>1, <2>1
<1>2. CASE ~\E y \in u.account : y.account = a /\ y.runtime = q
  BY <1>2 DEF UseOf
<1> QED BY <1>1, <1>2

LEMMA UsersAddedIsTidy ==
  ASSUME Inv, TidyInv, UsersAdded
  PROVE  TidyInv'
<1>1. /\ run.pc = "addUsers" /\ run.pc \in Calls
      /\ UNCHANGED <<clusterVars, runtimes, recorded, edits>>
  BY DEF UsersAdded, At, Calls, PC
<1>2. PICK q \in Names : q = run.rt
  BY <1>1, RunFacts
<1>3. /\ run.pc # "idle" /\ Deploying /\ run.spec.account \in Accounts
      /\ UsesAreUnique(run.usage) /\ Copied
  BY <1>1, DeployingFacts
<1>4. run \in RunType /\ run.usage \in Usage /\ Claimed(run.usage)
  BY <1>3, RunFacts, CopyFacts
<1>5. PICK a \in Accounts : a = run.spec.account
  BY <1>3
<1> DEFINE x == UseOf(run.usage, a, q)
           y == [x EXCEPT !.spaces = run.spec.spaces]
           u == UpdateSpaces(run.usage, a, q, run.spec.spaces)
<1>6. x \in AccountUse /\ x.account = a /\ x.runtime = q
  BY <1>3, <1>4, UseFacts
<1>7. x.perms # {} => x \in run.usage.account
  BY <1>4, UsePerms
<1> HIDE DEF x
<1>8. y.account = a /\ y.runtime = q /\ y.perms = x.perms
  BY <1>6 DEF AccountUse
<1>9. u = UseReplaced(run.usage, a, q, y)
  BY DEF UpdateSpaces, UseReplaced, x
<1>10. u.space = run.usage.space
  BY <1>4, <1>9 DEF UseReplaced, ForgetAccount, Usage
<1>11. run' = [run EXCEPT !.pc = "createRole", !.usage = u]
  BY <1>2, <1>4, <1>5 DEF UsersAdded, RunType
<1> HIDE DEF y, u
<1>12. /\ SameReconcile /\ SameObject /\ run'.pc = "createRole" /\ run'.usage = u
       /\ run'.new = run.new /\ run'.failed = run.failed
  BY <1>4, <1>11 DEF RunType, SameReconcile, SameObject
<1>13. ClaimsAccount(q, a) /\ \A p \in y.perms : ClaimsPerm(q, a, p)
  <2>1. ClaimsAccount(q, a)
    BY <1>2, <1>3, <1>5, OwnFacts
  <2>2. \A p \in y.perms : ClaimsPerm(q, a, p)
    BY <1>4, <1>6, <1>7, <1>8 DEF Claimed
  <2> QED BY <2>1, <2>2
<1>14. /\ Claimed(u)
       /\ \A z \in u.account : z = y \/ z \in run.usage.account
  BY <1>4, <1>8, <1>9, <1>13, ReplacedIsClaimed
<1>15. AccountIsExact(run.usage) => AccountIsExact(u)
  BY <1>5, <1>8, <1>14 DEF AccountIsExact
<1>16. PermsAreExact(run.usage) => PermsAreExact(u)
  BY <1>2, <1>6, <1>7, <1>8, <1>14, <1>15 DEF PermsAreExact
<1>17. run'.pc \in Calls \cup {"saveUsage"} /\ run'.pc # "createSpaces" /\ UNCHANGED <<runtimes, usage>>
  BY <1>1, <1>12 DEF Calls, PC, clusterVars
<1>18. ClusterIsOwn
  BY <1>1, NoCallIsOwn
<1>19. NewIsTidy'
  BY <1>1, <1>10, <1>12, <1>16, <1>17, <1>18, NewStays
<1>20. DeploymentIsTidy' /\ DeletionIsTidy'
  BY <1>1, <1>10, <1>12, <1>15, <1>18, AccountStage
<1> QED BY <1>1, <1>12, <1>14, <1>17, <1>18, <1>19, <1>20, TidyStep

LEMMA CreateAccountRoleIsTidy ==
  ASSUME Inv, TidyInv, CreateAccountRole
  PROVE  TidyInv'
<1>1. run.pc = "createRole" /\ run.pc \in Calls
  BY DEF CreateAccountRole, At, Calls, PC
<1>2. CASE Refuse
  BY <1>1, <1>2, RefuseIsTidy
<1>3. CASE /\ CreateRole(run.spec.account) /\ Answer(GoTo("grant", {}))
           /\ UNCHANGED <<ns, users, accounts, project, apps, usage, runtimes, recorded, edits>>
  <2>1. Deploying /\ run.spec.account \in Accounts
    BY <1>1, DeployingFacts
  <2>2. roles \in [Accounts -> Role]
    BY DEF Inv, RestTyped, ClusterTypeOK
  <2>3. \A a \in Accounts : /\ roles'[a].perms = roles[a].perms
                            /\ roles'[a].exists => roles[a].exists \/ a = run.spec.account
    BY <1>3, <2>1, <2>2 DEF CreateRole, Role
  <2>4. ClusterIsOwn
    BY <1>3, <2>1, <2>3 DEF ClusterIsOwn, Operable, HasAccount, TidyInv, ClusterIsClaimed
  <2>5. "grant" \in Calls \cup {"saveUsage"} /\ {} \in SUBSET (Spaces \cup Repos)
    BY DEF Calls, PC
  <2>6. ASSUME run' = GoTo("grant", {}) PROVE TidyInv'
    <3>1. /\ SameReconcile /\ run'.pc = "grant" /\ run'.usage = run.usage
          /\ run'.failed = run.failed /\ run'.new = run.new
      BY <1>1, <1>3, <2>4, <2>5, <2>6, GoneOn
    <3>2. DeploymentIsTidy' /\ DeletionIsTidy'
      BY <1>1, <1>3, <2>4, <3>1, AccountStage
    <3> QED BY <1>1, <1>3, <2>4, <2>5, <2>6, <3>2, TidyGoesOn
  <2> QED BY <1>1, <1>3, <2>4, <2>6, AnswerIsTidy
<1> QED BY <1>2, <1>3 DEF CreateAccountRole

LEMMA GrantIsTidy ==
  ASSUME Inv, TidyInv, Grant
  PROVE  TidyInv'
<1>1. run.pc = "grant" /\ run.pc \in Calls
  BY DEF Grant, At, Calls, PC
<1>2. CASE Refuse
  BY <1>1, <1>2, RefuseIsTidy
<1> DEFINE w == UpdatePermissions(run.usage, run.spec.account, run.rt, {run.spec.repo})
           next == [run EXCEPT !.pc = "revoke", !.usage = w,
                               !.todo = run.old.perms \ PermsUsed(w, run.spec.account, {})]
<1>3. CASE /\ GrantPermission(run.spec.account, run.spec.repo) /\ Answer(next)
           /\ UNCHANGED <<ns, users, accounts, project, apps, usage, runtimes, recorded, edits>>
  <2>1. PICK q \in Names : q = run.rt
    BY <1>1, RunFacts
  <2>2. /\ run.pc # "idle" /\ Deploying /\ ~Deleting /\ run.spec \in Specs
        /\ run.spec.account \in Accounts /\ run.spec.repo \in Repos
        /\ UsesAreUnique(run.usage) /\ Copied
    BY <1>1, DeployingFacts
  <2>3. run \in RunType /\ run.usage \in Usage /\ run.old \in Cache /\ Claimed(run.usage)
    BY <2>2, RunFacts, CopyFacts
  <2>4. PICK a \in Accounts : a = run.spec.account
    BY <2>2
  <2> DEFINE y == [UseOf(run.usage, a, q) EXCEPT !.perms = {run.spec.repo}]
             u == UpdatePermissions(run.usage, a, q, {run.spec.repo})
             todo == run.old.perms \ PermsUsed(u, a, {})
  <2>5. y \in AccountUse /\ y.account = a /\ y.runtime = q /\ y.perms = {run.spec.repo}
    BY <2>2, <2>3, UseFacts DEF AccountUse
  <2>6. u = UseReplaced(run.usage, a, q, y)
    BY DEF UpdatePermissions, UseReplaced
  <2>7. next = [run EXCEPT !.pc = "revoke", !.usage = u, !.todo = todo]
    BY <2>1, <2>4
  <2>8. todo = run.old.perms \ PermsUsed(u, a, {})
    OBVIOUS
  <2>9. PICK n : n = next
    OBVIOUS
  <2> HIDE DEF y, u, todo, next
  <2>10. u \in Usage /\ u.space = run.usage.space
    BY <2>2, <2>3, <2>5, <2>6, ReplacedUse
  <2>11. roles \in [Accounts -> Role]
    BY DEF Inv, RestTyped, ClusterTypeOK
  <2>12. \A b \in Accounts :
           /\ roles'[b].exists = roles[b].exists
           /\ \A p \in roles'[b].perms : p \in roles[b].perms \/ (b = a /\ p = run.spec.repo)
    BY <1>3, <2>2, <2>4, <2>11 DEF GrantPermission, Role
  <2>13. ClusterIsOwn
    BY <1>3, <2>2, <2>4, <2>12 DEF ClusterIsOwn, Operable, HasAccount, TidyInv, ClusterIsClaimed
  <2>14. ClaimsAccount(q, a) /\ \A p \in y.perms : ClaimsPerm(q, a, p)
    BY <2>1, <2>2, <2>4, <2>5, OwnFacts
  <2>15. /\ Claimed(u)
         /\ \A x \in u.account : x = y \/ (x \in run.usage.account /\ ~(x.account = a /\ x.runtime = q))
    BY <2>3, <2>5, <2>6, <2>14, ReplacedIsClaimed
  <2>16. CASE run' = Failed
    BY <1>1, <1>3, <2>13, <2>16, FailedIsTidy
  <2>17. CASE run' = next
    <3>1. /\ SameReconcile /\ SameObject /\ run'.pc = "revoke" /\ run'.usage = u
          /\ run'.new = run.new /\ run'.failed = run.failed /\ run'.todo = todo
      BY <2>3, <2>7, <2>17 DEF RunType, SameReconcile, SameObject
    <3>2. run'.pc \in Calls \cup {"saveUsage"} /\ run'.pc # "createSpaces"
      BY <3>1 DEF Calls, PC
    <3>3. AccountIsExact(run.usage) => PermsAreExact(u) /\ AccountIsExact(u)
      BY <2>1, <2>4, <2>5, <2>15 DEF AccountIsExact, PermsAreExact
    <3>4. NewIsTidy'
      <4>1. PermsAreExact(run.usage) => PermsAreExact(u)
        BY <3>3 DEF PermsAreExact
      <4> QED BY <1>1, <1>3, <2>10, <2>13, <3>1, <3>2, <4>1, NewStays
    <3>5. /\ Deploying' /\ ~Deleting' /\ Record = run.usage /\ Record' = u
          /\ run.old.perms \subseteq Repos
          /\ AccountIsLeft => AccountIsLeft'
          /\ \A p \in Repos : PermIsLeft(p) => PermIsLeft(p)'
          /\ PermsAreLeft => PermsAreLeft'
          /\ PermsAreExact(Record)' <=> PermsAreExact(u)
          /\ AccountIsExact(Record)' <=> AccountIsExact(u)
      BY <1>1, <1>3, <2>2, <2>13, <3>1, <3>2, CallFacts
    <3>6. ~run.failed =>
            /\ run.usage.space[run.rt] \subseteq run.spec.spaces
            /\ run.spec.spaces \subseteq run.new.spaces
            /\ run.old.spaces \subseteq run.new.spaces
            /\ run.old.account # run.spec.account => PermsAreLeft
            /\ AccountIsLeft /\ AccountIsExact(run.usage)
      BY <1>1, <2>2, <3>5
      DEF TidyInv, DeploymentIsTidy, FromSynced, FromSaved, FromSpaces, FromLeft, FromAccount,
          FromUsers, FromRole, Leaving
    <3>7. ASSUME run.old.account = run.spec.account, NEW p \in run.old.perms \ todo
          PROVE  PermIsLeft(p)'
      <4>1. p \in PermsUsed(u, a, {})
        BY <2>8, <3>7
      <4>2. PICK x \in u.account : x.account = a /\ p \in x.perms
        BY <4>1 DEF PermsUsed, UsesOf
      <4>3. x.runtime \in Names
        BY <2>10 DEF Usage, AccountUse
      <4>4. CASE x.runtime = run.rt
        <5>1. p = run.spec.repo
          BY <2>1, <2>5, <2>15, <4>2, <4>4
        <5> QED BY <2>2, <3>5, <3>7, <5>1 DEF PermIsLeft
      <4>5. CASE x.runtime # run.rt
        <5>1. p \in PermsUsed(u, a, {run.rt})
          BY <4>2, <4>5 DEF PermsUsed, UsesOf
        <5>2. \E r \in Others : ClaimsPerm(r, a, p)
          BY <2>10, <2>15, <5>1, UsedIsClaimed
        <5> QED BY <2>4, <3>5, <3>7, <5>2 DEF PermIsLeft
      <4> QED BY <4>4, <4>5
    <3>8. DeploymentIsTidy'
      BY <2>10, <3>1, <3>3, <3>5, <3>6, <3>7
      DEF DeploymentIsTidy, At, SameReconcile, FromSynced, FromLeft, FromSpaces, FromAccount,
          FromUsers, FromRole, FromGranted, FromSaved, Leaving
    <3>9. DeletionIsTidy'
      BY <3>5 DEF DeletionIsTidy
    <3> QED BY <1>1, <1>3, <2>13, <2>15, <3>1, <3>2, <3>4, <3>8, <3>9, TidyStep
  <2> QED BY <1>3, <2>16, <2>17 DEF Answer
<1> QED BY <1>2, <1>3 DEF Grant

LEMMA RevokeIsTidy ==
  ASSUME Inv, TidyInv, NEW p \in Repos, Revoke(p)
  PROVE  TidyInv'
<1>1. /\ run.pc = "revoke" /\ run.pc \in Calls /\ p \in run.todo
      /\ RevokePermission(run.spec.account, p) /\ Answer(GoTo("revoke", run.todo \ {p}))
      /\ UNCHANGED <<ns, users, accounts, project, apps, usage, runtimes, recorded, edits>>
  BY DEF Revoke, At, Calls, PC
<1>2. Deploying /\ ~Deleting /\ run.spec.account \in Accounts /\ run.pc # "idle"
  BY <1>1, DeployingFacts
<1>3. roles \in [Accounts -> Role]
  BY DEF Inv, RestTyped, ClusterTypeOK
<1>4. /\ \A a \in Accounts : roles'[a].exists = roles[a].exists
      /\ \A a \in Accounts : roles'[a].perms \subseteq roles[a].perms
      /\ p \notin roles'[run.spec.account].perms
  BY <1>1, <1>2, <1>3 DEF RevokePermission, Role
<1>5. ClusterIsOwn
  BY <1>1, <1>4 DEF ClusterIsOwn, Operable, HasAccount, TidyInv, ClusterIsClaimed
<1>6. "revoke" \in Calls \cup {"saveUsage"} /\ run.todo \ {p} \in SUBSET (Spaces \cup Repos)
  BY <1>1, <1>2, RunFacts DEF Calls, PC
<1>7. ASSUME run' = GoTo("revoke", run.todo \ {p}) PROVE TidyInv'
  <2>1. /\ SameReconcile /\ run'.pc = "revoke" /\ run'.usage = run.usage
        /\ run'.failed = run.failed /\ run'.new = run.new /\ run'.todo = run.todo \ {p}
        /\ Deploying' /\ ~Deleting' /\ Record = run.usage /\ Record' = run.usage
        /\ run.old.perms \subseteq Repos
        /\ AccountIsLeft => AccountIsLeft'
        /\ \A t \in Repos : PermIsLeft(t) => PermIsLeft(t)'
        /\ PermsAreLeft => PermsAreLeft'
        /\ PermsAreExact(Record)' <=> PermsAreExact(Record)
        /\ AccountIsExact(Record)' <=> AccountIsExact(Record)
    BY <1>1, <1>2, <1>5, <1>6, <1>7, GoneOn
  <2>2. ~run.failed =>
          /\ run.usage.space[run.rt] \subseteq run.spec.spaces
          /\ run.spec.spaces \subseteq run.new.spaces
          /\ run.old.spaces \subseteq run.new.spaces
          /\ run.old.account # run.spec.account => PermsAreLeft
          /\ run.old.account = run.spec.account =>
               \A t \in run.old.perms \ run.todo : PermIsLeft(t)
          /\ AccountIsLeft /\ AccountIsExact(Record) /\ PermsAreExact(Record)
    BY <1>1, <1>2, <2>1
    DEF TidyInv, DeploymentIsTidy, FromSynced, FromSaved, FromSpaces, FromLeft, FromAccount,
        FromUsers, FromRole, FromGranted, Leaving, At
  <2>3. run.old.account = run.spec.account => PermIsLeft(p)'
    BY <1>4, <2>1 DEF PermIsLeft, SameReconcile
  <2>4. ~run.failed /\ run.old.account = run.spec.account =>
          \A t \in run.old.perms \ run'.todo : PermIsLeft(t)'
    BY <2>1, <2>2, <2>3
  <2>5. DeploymentIsTidy'
    BY <2>1, <2>2, <2>4
    DEF DeploymentIsTidy, At, SameReconcile, FromSynced, FromLeft, FromSpaces, FromAccount,
        FromUsers, FromRole, FromGranted, FromSaved, Leaving
  <2>6. DeletionIsTidy'
    BY <2>1 DEF DeletionIsTidy
  <2> QED BY <1>1, <1>5, <1>6, <1>7, <2>5, <2>6, TidyGoesOn
<1> QED BY <1>1, <1>5, <1>7, AnswerIsTidy

LEMMA PermissionsSyncedIsTidy ==
  ASSUME Inv, TidyInv, PermissionsSynced
  PROVE  TidyInv'
<1>1. /\ run.pc = "revoke" /\ run.todo = {} /\ run.pc \in Calls
      /\ UNCHANGED <<clusterVars, runtimes, recorded, edits>>
  BY DEF PermissionsSynced, At, Calls, PC
<1>2. /\ run.pc # "idle" /\ Deploying /\ ~Deleting /\ Copied /\ run.rt \in Names
  BY <1>1, DeployingFacts, RunFacts
<1>3. run \in RunType /\ run.new \in Cache /\ ~run.failed
  BY <1>1, <1>2, RunFacts DEF TidyInv, RunIsCurrent, FromSaved
<1> DEFINE n == [run.new EXCEPT !.perms = {run.spec.repo}, !.account = run.spec.account]
<1>4. n.account = run.spec.account /\ n.perms = {run.spec.repo} /\ n.spaces = run.new.spaces
  BY <1>3 DEF Cache
<1>5. run' = [run EXCEPT !.pc = "deleteSpaces", !.new = n, !.todo = OutdatedSpaces(run.usage, {})]
  BY <1>3 DEF PermissionsSynced, RunType
<1> HIDE DEF n
<1>6. /\ SameReconcile /\ SameObject /\ run'.pc = "deleteSpaces" /\ run'.usage = run.usage
      /\ run'.new = n /\ run'.failed = run.failed /\ run'.todo = OutdatedSpaces(run.usage, {})
  BY <1>3, <1>5 DEF RunType, SameReconcile, SameObject
<1>7. run'.pc \in Calls \cup {"saveUsage"} /\ run'.pc # "createSpaces" /\ UNCHANGED <<runtimes, usage>>
  BY <1>1, <1>6 DEF Calls, PC, clusterVars
<1>8. ClusterIsOwn
  BY <1>1, NoCallIsOwn
<1>9. /\ Claimed(run.usage)
      /\ \A s \in SpacesUsed(run.usage, {run.rt}) : SpaceIsLeft(s)
  BY <1>2, CopyFacts
<1>10. /\ Deploying' /\ ~Deleting' /\ Record = run.usage /\ Record' = run.usage
       /\ run.old.spaces \subseteq Spaces
       /\ \A s \in Spaces : SpaceIsLeft(s) => SpaceIsLeft(s)'
       /\ AccountIsLeft => AccountIsLeft'
       /\ PermsAreLeft => PermsAreLeft'
       /\ PermsAreExact(Record)' <=> PermsAreExact(run.usage)
       /\ AccountIsExact(Record)' <=> AccountIsExact(run.usage)
  BY <1>1, <1>2, <1>6, <1>7, <1>8, CallFacts
<1>11. /\ run.usage.space[run.rt] \subseteq run.spec.spaces
       /\ run.spec.spaces \subseteq run.new.spaces
       /\ run.old.spaces \subseteq run.new.spaces
       /\ run.old.account # run.spec.account => PermsAreLeft
       /\ run.old.account = run.spec.account =>
            \A t \in run.old.perms \ run.todo : PermIsLeft(t)
       /\ AccountIsLeft /\ AccountIsExact(Record) /\ PermsAreExact(Record)
  BY <1>1, <1>2, <1>3, <1>10
  DEF TidyInv, DeploymentIsTidy, FromSynced, FromSaved, FromSpaces, FromLeft, FromAccount,
      FromUsers, FromRole, FromGranted, Leaving, At
<1>12. PermsAreLeft
  BY <1>1, <1>11 DEF PermsAreLeft
<1>13. NewIsTidy'
  BY <1>4, <1>6, <1>10, <1>11, <1>12 DEF NewIsTidy, SameReconcile
<1>14. \A s \in run.old.spaces \ run'.todo : SpaceIsLeft(s)'
  <2> SUFFICES ASSUME NEW s \in run.old.spaces \ run'.todo PROVE SpaceIsLeft(s)'
    OBVIOUS
  <2>1. PICK r \in Names : s \in run.usage.space[r]
    BY <1>6 DEF OutdatedSpaces, SpacesUsed
  <2>2. CASE r = run.rt
    <3>1. s \in run.spec.spaces
      BY <1>11, <2>1, <2>2
    <3> QED BY <1>2, <1>10, <3>1 DEF SpaceIsLeft
  <2>3. CASE r # run.rt
    BY <1>9, <1>10, <2>1, <2>3 DEF SpacesUsed
  <2> QED BY <2>2, <2>3
<1>15. DeploymentIsTidy'
  BY <1>4, <1>6, <1>10, <1>11, <1>12, <1>14
  DEF DeploymentIsTidy, At, SameReconcile, FromSynced, FromLeft, FromSpaces, FromAccount,
      FromUsers, FromRole, FromGranted, FromSaved, Leaving
<1>16. DeletionIsTidy'
  BY <1>10 DEF DeletionIsTidy
<1> QED BY <1>1, <1>6, <1>7, <1>8, <1>9, <1>13, <1>15, <1>16, TidyStep

-----------------------------------------------------------------------------
(* The spaces of the last deployment, and the application. *)

\* The deployment has synced the permissions.
LEMMA SyncedFacts ==
  ASSUME Inv, TidyInv, run.pc \in FromSynced \ {"saveStatus"}, Deploying, ~run.failed
  PROVE  /\ run.usage.space[run.rt] \subseteq run.spec.spaces
         /\ run.spec.spaces \subseteq run.new.spaces
         /\ PermsAreLeft /\ AccountIsLeft /\ AccountIsExact(run.usage) /\ PermsAreExact(run.usage)
         /\ run.new.account = run.spec.account /\ run.new.perms = {run.spec.repo}
         /\ At("deleteSpaces") => \A s \in run.old.spaces \ run.todo : SpaceIsLeft(s)
         /\ At("deleteSpaces") => run.spec.spaces \cap run.todo = {}
         /\ run.pc \in {"createApp"} \cup FromSaved => \A s \in run.old.spaces : SpaceIsLeft(s)
<1>1. At("deleteSpaces") => run.spec.spaces \cap run.todo = {}
  BY DEF Inv, DeploymentProgress
<1>2. Record = run.usage
  BY DEF Record, At
<1> QED BY <1>1, <1>2
    DEF TidyInv, DeploymentIsTidy, FromSynced, FromLeft, FromSpaces, FromAccount,
        FromUsers, FromRole, FromGranted, FromSaved, Leaving, At

\* The deletion has left the account.
LEMMA CleanedFacts ==
  ASSUME Inv, TidyInv, run.pc \in {"deleteSpaces", "saveUsage"} \cup Ending, Deleting, ~run.failed
  PROVE  /\ run.rt \notin run.usage.runtimes /\ run.usage.space[run.rt] = {}
         /\ apps[run.rt] = {} /\ PermsAreLeft /\ AccountIsLeft
         /\ \A x \in run.usage.account : x.runtime # run.rt
         /\ At("deleteSpaces") => \A s \in run.old.spaces \ run.todo : SpaceIsLeft(s)
         /\ run.pc # "deleteSpaces" => \A s \in run.old.spaces : SpaceIsLeft(s)
         /\ run.pc \in Ending => run.usage.runtimes = {}
         /\ At("deleteProject") => ~Operable(Product)
         /\ At("saveUsage") /\ run.usage.runtimes = {} => ~Operable(Product) /\ project = "none"
<1>1. Record = run.usage /\ Copied
  BY DEF Record, At, Copied, PC, Ending
<1> QED BY <1>1 DEF TidyInv, DeletionIsTidy, FromCleaned

LEMMA DeleteSpaceIsTidy ==
  ASSUME Inv, TidyInv, NEW s \in Spaces, DeleteSpace(s)
  PROVE  TidyInv'
<1> DEFINE next == [run EXCEPT !.todo = @ \ {s}, !.new.spaces = IF Deploying THEN @ \ {s} ELSE @]
<1>1. /\ run.pc = "deleteSpaces" /\ run.pc \in Calls /\ s \in run.todo /\ Answer(next)
      /\ UNCHANGED <<users, accounts, project, apps, roles, usage, runtimes, recorded, edits>>
      /\ ns' = [ns EXCEPT ![s] = IF @ = "active" THEN "terminating" ELSE @]
  BY DEF DeleteSpace, DeleteNamespace, At, Calls, PC
<1>2. /\ run.pc # "idle" /\ Copied /\ run \in RunType /\ run.new \in Cache /\ run.old \in Cache
      /\ Deploying <=> ~Deleting
  BY <1>1, RunFacts DEF Copied, PC
<1>3. ~run.failed
  BY <1>1, <1>2, RunFacts DEF TidyInv, RunIsCurrent, FromSaved
<1>4. ns \in [Spaces \cup {Product} -> {"none", "active", "terminating"}] /\ s # Product
  BY ClusterAssumption DEF Inv, RestTyped, ClusterTypeOK
<1>5. ns'[s] # "active" /\ \A t \in (Spaces \cup {Product}) \ {s} : ns'[t] = ns[t]
  BY <1>1, <1>4
<1>6. ClusterIsOwn
  BY <1>1, <1>4, <1>5 DEF ClusterIsOwn, Operable, HasAccount, TidyInv, ClusterIsClaimed
<1>7. ASSUME run' = next PROVE TidyInv'
  <2> DEFINE n == IF Deploying THEN [run.new EXCEPT !.spaces = @ \ {s}] ELSE run.new
  <2>1. /\ n.account = run.new.account /\ n.perms = run.new.perms
        /\ Deploying => n.spaces = run.new.spaces \ {s}
        /\ ~Deploying => n = run.new
    BY <1>2 DEF Cache
  <2>2. run' = [run EXCEPT !.todo = run.todo \ {s}, !.new = n]
    BY <1>2, <1>7 DEF RunType, Cache
  <2> HIDE DEF n
  <2>3. /\ SameReconcile /\ SameObject /\ run'.pc = "deleteSpaces" /\ run'.usage = run.usage
        /\ run'.new = n /\ run'.failed = run.failed /\ run'.todo = run.todo \ {s}
    BY <1>1, <1>2, <2>2 DEF RunType, SameReconcile, SameObject
  <2>4. run'.pc \in Calls \cup {"saveUsage"} /\ run'.pc # "createSpaces"
    BY <2>3 DEF Calls, PC
  <2>5. /\ Deploying' <=> Deploying
        /\ Deleting' <=> Deleting
        /\ Record = run.usage /\ Record' = run.usage
        /\ run.old.spaces \subseteq Spaces
        /\ \A t \in Spaces : SpaceIsLeft(t) => SpaceIsLeft(t)'
        /\ AccountIsLeft => AccountIsLeft'
        /\ PermsAreLeft => PermsAreLeft'
        /\ PermsAreExact(Record)' <=> PermsAreExact(run.usage)
        /\ AccountIsExact(Record)' <=> AccountIsExact(run.usage)
    BY <1>1, <1>6, <2>3, <2>4, CallFacts
  <2>6. ~Operable(s)' /\ SpaceIsLeft(s)'
    BY <1>5 DEF Operable, SpaceIsLeft
  <2>7. Deploying =>
          /\ run.usage.space[run.rt] \subseteq run.spec.spaces
          /\ run.spec.spaces \subseteq n.spaces
          /\ PermsAreLeft /\ AccountIsLeft /\ AccountIsExact(run.usage) /\ PermsAreExact(run.usage)
          /\ run.new.account = run.spec.account /\ run.new.perms = {run.spec.repo}
          /\ \A t \in run.old.spaces \ run.todo : SpaceIsLeft(t)
          /\ s \notin run.spec.spaces
    BY <1>1, <1>3, <2>1, SyncedFacts DEF FromSynced, At
  <2>8. Deleting =>
          /\ run.rt \notin run.usage.runtimes /\ run.usage.space[run.rt] = {}
          /\ apps[run.rt] = {} /\ PermsAreLeft /\ AccountIsLeft
          /\ \A x \in run.usage.account : x.runtime # run.rt
          /\ \A t \in run.old.spaces \ run.todo : SpaceIsLeft(t)
    BY <1>1, <1>3, CleanedFacts DEF At
  <2>9. \A t \in run.old.spaces \ run'.todo : SpaceIsLeft(t)'
    BY <1>2, <2>3, <2>5, <2>6, <2>7, <2>8
  <2>10. DeploymentIsTidy'
    BY <2>1, <2>3, <2>5, <2>7, <2>9
    DEF DeploymentIsTidy, At, SameReconcile, FromSynced, FromLeft, FromSpaces, FromAccount,
        FromUsers, FromRole, FromGranted, FromSaved, Leaving
  <2>11. DeletionIsTidy'
    BY <1>1, <2>3, <2>5, <2>8, <2>9
    DEF DeletionIsTidy, At, SameReconcile, Leaving, FromCleaned, Ending
  <2>12. NewIsTidy'
    <3>1. CASE Deleting
      <4>1. run.new = run.old
        BY <1>2, <3>1 DEF TidyInv, NewIsTidy
      <4> QED BY <1>2, <2>1, <2>3, <2>5, <3>1, <4>1 DEF NewIsTidy, SameReconcile
    <3>2. CASE Deploying
      <4>1. \A t \in run.old.spaces \ run.new.spaces : ~Operable(t) /\ t \notin run.spec.spaces
        BY <1>2 DEF TidyInv, NewIsTidy
      <4>2. \A t \in run.old.spaces \ n.spaces : ~Operable(t)' /\ t \notin run.spec.spaces
        BY <1>6, <2>1, <2>5, <2>6, <2>7, <3>2, <4>1 DEF ClusterIsOwn
      <4> QED BY <1>2, <2>1, <2>3, <2>5, <2>7, <3>2, <4>2 DEF NewIsTidy, SameReconcile
    <3> QED BY <1>2, <3>1, <3>2
  <2>13. Claimed(run'.usage)
    BY <1>2, <2>3, CopyFacts
  <2> QED BY <1>1, <1>6, <2>3, <2>4, <2>10, <2>11, <2>12, <2>13, TidyStep
<1> QED BY <1>1, <1>6, <1>7, AnswerIsTidy

LEMMA SpacesDeletedIsTidy ==
  ASSUME Inv, TidyInv, SpacesDeleted
  PROVE  TidyInv'
<1>1. /\ run.pc = "deleteSpaces" /\ run.pc \in Calls /\ run.todo = {}
      /\ UNCHANGED <<clusterVars, runtimes, recorded, edits>>
  BY DEF SpacesDeleted, At, Calls, PC
<1>2. run.pc # "idle" /\ (Deploying <=> ~Deleting)
  BY <1>1, RunFacts
<1> DEFINE pc == CASE Deploying -> "createApp"
                   [] Deleting /\ run.usage.runtimes = {} -> "deleteProductUser"
                   [] OTHER -> "saveUsage"
<1>3. /\ Deploying => pc = "createApp"
      /\ Deleting => \/ pc = "deleteProductUser" /\ run.usage.runtimes = {}
                     \/ pc = "saveUsage" /\ run.usage.runtimes # {}
  BY <1>2
<1>4. run' = GoTo(pc, {})
  BY DEF SpacesDeleted
<1> HIDE DEF pc
<1>5. pc \in Calls \cup {"saveUsage"} /\ {} \in SUBSET (Spaces \cup Repos) /\ pc # "createSpaces"
  BY <1>2, <1>3 DEF Calls, PC
<1>6. ClusterIsOwn /\ UNCHANGED <<runtimes, usage, apps>>
  BY <1>1, NoCallIsOwn DEF clusterVars
<1>7. /\ SameReconcile /\ run'.pc = pc /\ run'.usage = run.usage
      /\ run'.failed = run.failed /\ run'.new = run.new
      /\ Deploying' <=> Deploying
      /\ Deleting' <=> Deleting
      /\ Record = run.usage /\ Record' = run.usage
      /\ run.old.spaces \subseteq Spaces
      /\ \A t \in Spaces : SpaceIsLeft(t) => SpaceIsLeft(t)'
      /\ AccountIsLeft => AccountIsLeft'
      /\ PermsAreLeft => PermsAreLeft'
      /\ PermsAreExact(Record)' <=> PermsAreExact(Record)
      /\ AccountIsExact(Record)' <=> AccountIsExact(Record)
  BY <1>1, <1>4, <1>5, <1>6, GoneOn
<1>8. DeploymentIsTidy'
  <2>1. CASE Deploying /\ ~run.failed
    <3>1. /\ run.usage.space[run.rt] \subseteq run.spec.spaces
          /\ run.spec.spaces \subseteq run.new.spaces
          /\ PermsAreLeft /\ AccountIsLeft /\ AccountIsExact(run.usage) /\ PermsAreExact(run.usage)
          /\ run.new.account = run.spec.account /\ run.new.perms = {run.spec.repo}
          /\ \A s \in run.old.spaces : SpaceIsLeft(s)
      BY <1>1, <2>1, SyncedFacts DEF FromSynced, At
    <3>2. run'.pc = "createApp"
      BY <1>3, <1>7, <2>1
    <3> QED BY <1>7, <2>1, <3>1, <3>2
        DEF DeploymentIsTidy, At, SameReconcile, FromSynced, FromLeft, FromSpaces, FromAccount,
            FromUsers, FromRole, FromGranted, FromSaved, Leaving
  <2>2. CASE ~(Deploying /\ ~run.failed)
    BY <1>7, <2>2 DEF DeploymentIsTidy
  <2> QED BY <2>1, <2>2
<1>9. DeletionIsTidy'
  <2>1. CASE Deleting /\ ~run.failed
    <3>1. /\ run.rt \notin run.usage.runtimes /\ run.usage.space[run.rt] = {}
          /\ apps[run.rt] = {} /\ PermsAreLeft /\ AccountIsLeft
          /\ \A x \in run.usage.account : x.runtime # run.rt
          /\ \A t \in run.old.spaces : SpaceIsLeft(t)
      BY <1>1, <2>1, CleanedFacts DEF At
    <3>2. \/ run'.pc = "deleteProductUser" /\ run.usage.runtimes = {}
          \/ run'.pc = "saveUsage" /\ run.usage.runtimes # {}
      BY <1>3, <1>7, <2>1
    <3> QED BY <1>6, <1>7, <2>1, <3>1, <3>2
        DEF DeletionIsTidy, At, SameReconcile, Leaving, FromCleaned, Ending
  <2>2. CASE ~(Deleting /\ ~run.failed)
    BY <1>7, <2>2 DEF DeletionIsTidy
  <2> QED BY <2>1, <2>2
<1> QED BY <1>1, <1>4, <1>5, <1>6, <1>8, <1>9, TidyGoesOn

LEMMA CreateAppIsTidy ==
  ASSUME Inv, TidyInv, CreateApp
  PROVE  TidyInv'
<1>1. /\ run.pc = "createApp" /\ run.pc \in Calls /\ Answer(GoTo("saveUsage", {}))
      /\ apps' = [apps EXCEPT ![run.rt] = run.spec.spaces]
      /\ UNCHANGED <<ns, users, accounts, project, roles, usage, runtimes, recorded, edits>>
  BY DEF CreateApp, At, Calls, PC
<1>2. Deploying /\ ~Deleting /\ run.rt \in Names
  BY <1>1, DeployingFacts, RunFacts
<1>3. \A r \in Names : apps'[r] # {} => apps[r] # {} \/ r = run.rt
  BY <1>1, <1>2 DEF Inv, RestTyped, ClusterTypeOK
<1>4. ClusterIsOwn
  BY <1>1, <1>3 DEF ClusterIsOwn, Operable, HasAccount, TidyInv, ClusterIsClaimed
<1>5. "saveUsage" \in Calls \cup {"saveUsage"} /\ {} \in SUBSET (Spaces \cup Repos)
  OBVIOUS
<1>6. ASSUME run' = GoTo("saveUsage", {}) PROVE TidyInv'
  <2>1. /\ SameReconcile /\ run'.pc = "saveUsage" /\ run'.usage = run.usage
        /\ run'.failed = run.failed /\ run'.new = run.new
        /\ Deploying' /\ ~Deleting'
        /\ Record = run.usage /\ Record' = run.usage
        /\ run.old.spaces \subseteq Spaces
        /\ \A t \in Spaces : SpaceIsLeft(t) => SpaceIsLeft(t)'
        /\ AccountIsLeft => AccountIsLeft'
        /\ PermsAreLeft => PermsAreLeft'
        /\ PermsAreExact(Record)' <=> PermsAreExact(Record)
        /\ AccountIsExact(Record)' <=> AccountIsExact(Record)
    BY <1>1, <1>2, <1>4, <1>5, <1>6, GoneOn
  <2>2. ~run.failed =>
          /\ run.usage.space[run.rt] \subseteq run.spec.spaces
          /\ run.spec.spaces \subseteq run.new.spaces
          /\ PermsAreLeft /\ AccountIsLeft /\ AccountIsExact(run.usage) /\ PermsAreExact(run.usage)
          /\ run.new.account = run.spec.account /\ run.new.perms = {run.spec.repo}
          /\ \A s \in run.old.spaces : SpaceIsLeft(s)
    BY <1>1, <1>2, SyncedFacts DEF FromSynced
  <2>3. DeploymentIsTidy'
    BY <2>1, <2>2
    DEF DeploymentIsTidy, At, SameReconcile, FromSynced, FromLeft, FromSpaces, FromAccount,
        FromUsers, FromRole, FromGranted, FromSaved, Leaving
  <2>4. DeletionIsTidy'
    BY <2>1 DEF DeletionIsTidy
  <2> QED BY <1>1, <1>4, <1>5, <1>6, <2>3, <2>4, TidyGoesOn
<1> QED BY <1>1, <1>4, <1>6, AnswerIsTidy

-----------------------------------------------------------------------------
(* What only a deletion does. *)

LEMMA DeleteAppIsTidy ==
  ASSUME Inv, TidyInv, DeleteApp
  PROVE  TidyInv'
<1> DEFINE pc == IF run.old.account = NoAccount THEN "deleteSpaces" ELSE "revokeOld"
           todo == IF run.old.account = NoAccount THEN OutdatedSpaces(run.usage, {run.rt}) ELSE OldPerms
<1>1. /\ run.pc = "deleteApp" /\ run.pc \in Calls /\ apps' = [apps EXCEPT ![run.rt] = {}]
      /\ UNCHANGED <<ns, users, accounts, project, roles, usage, runtimes, recorded, edits>>
  BY DEF DeleteApp, At, Calls, PC
<1>2. Answer(GoTo(pc, todo))
  BY DEF DeleteApp
<1>3. /\ run.pc # "idle" /\ Copied /\ run.old \in Cache /\ run.rt \in Names
      /\ Deploying <=> ~Deleting
      /\ Deploying => run.pc \in DeployPCs
  BY <1>1, RunFacts DEF Copied, PC
<1>4. Deleting /\ ~Deploying
  BY <1>1, <1>3 DEF DeployPCs, FromUsage, FromProduct, FromProject, FromSpaces, FromAccount,
                    FromUsers, FromRole, FromGranted, FromSaved, Leaving
<1>5. \/ /\ pc = "deleteSpaces" /\ run.old.account = NoAccount
         /\ todo = run.old.spaces \ SpacesUsed(run.usage, {run.rt})
      \/ /\ pc = "revokeOld"
         /\ todo = run.old.perms \ PermsUsed(run.usage, run.old.account, {run.rt})
  BY <1>3 DEF OutdatedSpaces, OldPerms, Cache
<1> HIDE DEF pc, todo
<1>6. pc \in Calls \cup {"saveUsage"} /\ todo \in SUBSET (Spaces \cup Repos) /\ pc # "createSpaces"
  BY <1>3, <1>5 DEF PC, Calls, Cache
<1>7. apps'[run.rt] = {} /\ \A r \in Names : apps'[r] # {} => apps[r] # {}
  BY <1>1, <1>3 DEF Inv, RestTyped, ClusterTypeOK
<1>8. ClusterIsOwn
  BY <1>1, <1>7 DEF ClusterIsOwn, Operable, HasAccount, TidyInv, ClusterIsClaimed
<1>9. ASSUME run' = GoTo(pc, todo) PROVE TidyInv'
  <2>1. /\ SameReconcile /\ run'.pc = pc /\ run'.usage = run.usage /\ run'.todo = todo
        /\ run'.failed = run.failed /\ run'.new = run.new
        /\ ~Deploying' /\ Deleting'
        /\ Record' = run.usage
        /\ run.old.spaces \subseteq Spaces /\ run.old.perms \subseteq Repos
        /\ \A t \in Spaces : SpaceIsLeft(t) => SpaceIsLeft(t)'
        /\ \A p \in Repos : PermIsLeft(p) => PermIsLeft(p)'
    BY <1>1, <1>4, <1>6, <1>8, <1>9, GoneOn
  <2>2. /\ \A s \in SpacesUsed(run.usage, {run.rt}) : SpaceIsLeft(s)
        /\ \A p \in PermsUsed(run.usage, run.old.account, {run.rt}) : PermIsLeft(p)
        /\ \A x \in run.usage.account : x.runtime = run.rt =>
             x.account \in Accounts /\ x.account = run.old.account
    BY <1>3, <1>4, CopyFacts
  <2>3. ~run.failed => run.rt \notin run.usage.runtimes /\ run.usage.space[run.rt] = {}
    BY <1>3, <1>4 DEF TidyInv, DeletionIsTidy
  <2>4. CASE pc = "deleteSpaces"
    <3>1. run.old.account \notin Accounts /\ todo = run.old.spaces \ SpacesUsed(run.usage, {run.rt})
      BY <1>5, <2>4, SpecsAssumption
    <3>2. AccountIsLeft' /\ PermsAreLeft'
      BY <2>1, <3>1 DEF AccountIsLeft, PermsAreLeft, PermIsLeft, SameReconcile
    <3>3. \A x \in run.usage.account : x.runtime # run.rt
      BY <2>2, <3>1
    <3>4. \A s \in run.old.spaces \ run'.todo : SpaceIsLeft(s)'
      BY <2>1, <2>2, <3>1
    <3> QED BY <1>1, <1>6, <1>7, <1>8, <1>9, <2>1, <2>3, <2>4, <3>2, <3>3, <3>4, TidyGoesOn
        DEF DeploymentIsTidy, DeletionIsTidy, At, SameReconcile, Leaving, FromCleaned, Ending
  <2>5. CASE pc = "revokeOld"
    <3>1. \A p \in run.old.perms \ run'.todo : PermIsLeft(p)'
      BY <1>5, <2>1, <2>2, <2>5
    <3> QED BY <1>1, <1>6, <1>7, <1>8, <1>9, <2>1, <2>3, <2>5, <3>1, TidyGoesOn
        DEF DeploymentIsTidy, DeletionIsTidy, At, SameReconcile, Leaving, FromCleaned, Ending
  <2> QED BY <1>5, <2>4, <2>5
<1> QED BY <1>1, <1>2, <1>8, <1>9, AnswerIsTidy

\* The product goes with its last runtime.
LEMMA EndingIsTidyStep ==
  ASSUME Inv, TidyInv, run.pc \in Ending, NEW pc \in (Ending \ {"deleteProductUser"}) \cup {"saveUsage"},
         Answer(GoTo(pc, {})), UNCHANGED <<usage, runtimes, apps>>, ClusterIsOwn,
         pc = "deleteProject" => ~Operable(Product)',
         pc = "saveUsage" => run.pc = "deleteProject" /\ UNCHANGED ns /\ project' = "none"
  PROVE  TidyInv'
<1>1. run.pc \in Calls /\ run.pc # "idle"
  BY DEF Ending, Calls, PC
<1>2. Deleting /\ ~Deploying
  BY <1>1, RunFacts
  DEF Ending, DeployPCs, FromUsage, FromProduct, FromProject, FromSpaces, FromAccount,
      FromUsers, FromRole, FromGranted, FromSaved, Leaving
<1>3. pc \in Calls \cup {"saveUsage"} /\ {} \in SUBSET (Spaces \cup Repos) /\ pc # "createSpaces"
  BY DEF Ending, Calls, PC
<1>4. ASSUME run' = GoTo(pc, {}) PROVE TidyInv'
  <2>1. /\ SameReconcile /\ run'.pc = pc /\ run'.usage = run.usage
        /\ run'.failed = run.failed /\ run'.new = run.new
        /\ ~Deploying' /\ Deleting'
        /\ Record' = run.usage
        /\ run.old.spaces \subseteq Spaces
        /\ \A t \in Spaces : SpaceIsLeft(t) => SpaceIsLeft(t)'
        /\ AccountIsLeft => AccountIsLeft'
        /\ PermsAreLeft => PermsAreLeft'
    BY <1>1, <1>2, <1>3, <1>4, GoneOn
  <2>2. ~run.failed =>
          /\ run.rt \notin run.usage.runtimes /\ run.usage.space[run.rt] = {}
          /\ apps[run.rt] = {} /\ PermsAreLeft /\ AccountIsLeft
          /\ \A x \in run.usage.account : x.runtime # run.rt
          /\ \A s \in run.old.spaces : SpaceIsLeft(s)
          /\ run.usage.runtimes = {}
          /\ At("deleteProject") => ~Operable(Product)
    BY <1>2, CleanedFacts DEF Ending
  <2>3. ~run.failed /\ pc = "saveUsage" => ~Operable(Product)' /\ project' = "none"
    BY <2>2 DEF At, Operable
  <2>4. DeletionIsTidy'
    BY <2>1, <2>2, <2>3 DEF DeletionIsTidy, At, SameReconcile, Leaving, FromCleaned, Ending
  <2>5. DeploymentIsTidy'
    BY <2>1 DEF DeploymentIsTidy
  <2> QED BY <1>1, <1>3, <1>4, <2>4, <2>5, TidyGoesOn
<1> QED BY <1>1, <1>4, AnswerIsTidy

LEMMA EndingIsTidy ==
  ASSUME Inv, TidyInv, DeleteProductUser \/ DeleteProduct \/ DeleteProject
  PROVE  TidyInv'
<1>1. CASE DeleteProductUser
  <2>1. ClusterIsOwn
    BY <1>1 DEF DeleteProductUser, ClusterIsOwn, Operable, HasAccount, TidyInv, ClusterIsClaimed
  <2> QED BY <1>1, <2>1, EndingIsTidyStep DEF DeleteProductUser, At, Ending
<1>2. CASE DeleteProject
  <2>1. ClusterIsOwn
    BY <1>2 DEF DeleteProject, ClusterIsOwn, Operable, HasAccount, TidyInv, ClusterIsClaimed
  <2> QED BY <1>2, <2>1, EndingIsTidyStep DEF DeleteProject, At, Ending
<1>3. CASE DeleteProduct
  <2>1. run.pc = "deleteProduct" /\ run.pc \in Calls /\ run.pc \in Ending
    BY <1>3 DEF DeleteProduct, At, Calls, PC, Ending
  <2>2. CASE Refuse
    BY <2>1, <2>2, RefuseIsTidy
  <2>3. CASE DeleteNamespace(Product) /\ Answer(GoTo("deleteProject", {}))
             /\ UNCHANGED <<users, accounts, project, apps, roles, usage, runtimes, recorded, edits>>
    <3>1. ns \in [Spaces \cup {Product} -> {"none", "active", "terminating"}]
      BY DEF Inv, RestTyped, ClusterTypeOK
    <3>2. /\ ns'[Product] # "active" /\ (ns'[Product] = "none" => ns[Product] = "none")
          /\ \A s \in Spaces : ns'[s] = ns[s]
      BY <2>3, <3>1, ClusterAssumption DEF DeleteNamespace
    <3>3. ClusterIsOwn /\ ~Operable(Product)'
      BY <2>3, <3>2 DEF ClusterIsOwn, Operable, HasAccount, TidyInv, ClusterIsClaimed
    <3> QED BY <2>1, <2>3, <3>3, EndingIsTidyStep DEF Ending
  <2> QED BY <1>3, <2>2, <2>3 DEF DeleteProduct
<1> QED BY <1>1, <1>2, <1>3

-----------------------------------------------------------------------------
(* Steps that change an object, or end a reconcile. *)

\* The object q is changed: what it claimed and is still there, it claims still,
\* or another does.
LEMMA ObjectStep ==
  ASSUME Inv, TidyInv, UNCHANGED clusterVars, NEW q \in Names,
         \A r \in Names \ {q} : runtimes'[r] = runtimes[r],
         \A s \in Spaces : Operable(s) /\ ClaimsSpace(q, s) =>
           ClaimsSpace(q, s)' \/ \E r \in Names \ {q} : ClaimsSpace(r, s),
         \A a \in Accounts : (HasAccount(a) \/ roles[a].exists) /\ ClaimsAccount(q, a) =>
           ClaimsAccount(q, a)' \/ \E r \in Names \ {q} : ClaimsAccount(r, a),
         \A a \in Accounts : \A p \in roles[a].perms : ClaimsPerm(q, a, p) =>
           ClaimsPerm(q, a, p)' \/ \E r \in Names \ {q} : ClaimsPerm(r, a, p),
         \A s \in usage.space[q] : ClaimsSpace(q, s)',
         \A x \in usage.account : x.runtime = q =>
           ClaimsAccount(q, x.account)' /\ \A p \in x.perms : ClaimsPerm(q, x.account, p)',
         \/ runtimes'[q].phase # "none"
         \/ /\ q \notin usage.runtimes /\ apps[q] = {}
            /\ Operable(Product) \/ project # "none" =>
                 \E r \in Names \ {q} : runtimes[r].phase # "none"
  PROVE  UsageIsClaimed' /\ ClusterIsClaimed'
<1> USE DEF clusterVars
<1>1. \A r \in Names \ {q} : \A s :
        /\ ClaimsSpace(r, s)' <=> ClaimsSpace(r, s)
        /\ ClaimsAccount(r, s)' <=> ClaimsAccount(r, s)
  BY DEF ClaimsSpace, ClaimsAccount, Live, Remembers, Settled
<1>2. \A r \in Names \ {q} : \A a, p : ClaimsPerm(r, a, p)' <=> ClaimsPerm(r, a, p)
  BY DEF ClaimsPerm, Live, Remembers, Settled
<1>3. Claimed(usage)
  BY DEF TidyInv, UsageIsClaimed
<1>4. \A x \in usage.account : x.runtime \in Names
  BY DEF Inv, RestTyped, ClusterTypeOK, Usage, AccountUse
<1>5. UsageIsClaimed'
  <2>1. \A r \in usage.runtimes : runtimes'[r].phase # "none"
    BY <1>3 DEF Claimed, Inv, RestTyped, ClusterTypeOK, Usage
  <2>2. \A r \in Names : \A s \in usage.space[r] : ClaimsSpace(r, s)'
    <3> SUFFICES ASSUME NEW r \in Names, NEW s \in usage.space[r] PROVE ClaimsSpace(r, s)'
      OBVIOUS
    <3>1. ClaimsSpace(r, s)
      BY <1>3 DEF Claimed
    <3> QED BY <1>1, <3>1
  <2>3. ASSUME NEW x \in usage.account
        PROVE  ClaimsAccount(x.runtime, x.account)' /\ \A p \in x.perms : ClaimsPerm(x.runtime, x.account, p)'
    <3>1. ClaimsAccount(x.runtime, x.account) /\ \A p \in x.perms : ClaimsPerm(x.runtime, x.account, p)
      BY <1>3 DEF Claimed
    <3>2. x.runtime \in Names
      BY <1>4
    <3> QED BY <1>1, <1>2, <3>1, <3>2
  <2> QED BY <2>1, <2>2, <2>3 DEF UsageIsClaimed, Claimed
<1>6. \A s \in Spaces : Operable(s)' => \E r \in Names : ClaimsSpace(r, s)'
  <2> SUFFICES ASSUME NEW s \in Spaces, Operable(s)' PROVE \E r \in Names : ClaimsSpace(r, s)'
    OBVIOUS
  <2>1. Operable(s) /\ \E r \in Names : ClaimsSpace(r, s)
    BY DEF TidyInv, ClusterIsClaimed, Operable
  <2> QED BY <1>1, <2>1
<1>7. \A a \in Accounts : HasAccount(a)' \/ roles'[a].exists => \E r \in Names : ClaimsAccount(r, a)'
  <2> SUFFICES ASSUME NEW a \in Accounts, HasAccount(a)' \/ roles'[a].exists
               PROVE  \E r \in Names : ClaimsAccount(r, a)'
    OBVIOUS
  <2>1. HasAccount(a) \/ roles[a].exists
    BY DEF HasAccount, Operable
  <2>2. \E r \in Names : ClaimsAccount(r, a)
    BY <2>1 DEF TidyInv, ClusterIsClaimed
  <2> QED BY <1>1, <2>1, <2>2
<1>8. \A a \in Accounts : \A p \in roles'[a].perms : \E r \in Names : ClaimsPerm(r, a, p)'
  <2> SUFFICES ASSUME NEW a \in Accounts, NEW p \in roles[a].perms
               PROVE  \E r \in Names : ClaimsPerm(r, a, p)'
    OBVIOUS
  <2>1. \E r \in Names : ClaimsPerm(r, a, p)
    BY DEF TidyInv, ClusterIsClaimed
  <2> QED BY <1>2, <2>1
<1>9. /\ Operable(Product)' \/ project' # "none" => \E r \in Names : runtimes'[r].phase # "none"
      /\ \A r \in Names : apps'[r] # {} => runtimes'[r].phase # "none"
      /\ ns'[Product] = "none" => accounts' = {}
  BY DEF TidyInv, ClusterIsClaimed, Operable
<1> QED BY <1>5, <1>6, <1>7, <1>8, <1>9 DEF ClusterIsClaimed

\* The reconcile is over.
LEMMA IdleIsTidy ==
  ASSUME Inv, TidyInv, run' = Idle, SettledIsSaved', UsageIsClaimed', ClusterIsClaimed'
  PROVE  TidyInv'
<1>1. run'.pc = "idle" /\ run'.rt = NoName /\ run'.op = "none" /\ NoName \notin Names
  BY IdleFacts
<1> QED BY <1>1
    DEF TidyInv, RunIsCurrent, CopyIsClaimed, Copied, NewIsTidy, DeploymentIsTidy, DeletionIsTidy,
        Deploying, Deleting

\* Objects claim what they claimed, or more, and the cluster has no more.
LEMMA ClaimsGrow ==
  ASSUME Inv, TidyInv, UNCHANGED <<usage, project, apps, roles>>,
         \A s \in Spaces \cup {Product} : Operable(s)' => Operable(s),
         accounts' \subseteq accounts, ns'[Product] = "none" => accounts' = {},
         \A r \in Names : runtimes[r].phase # "none" => runtimes'[r].phase # "none",
         \A r \in Names : \A s : ClaimsSpace(r, s) => ClaimsSpace(r, s)',
         \A r \in Names : \A a : ClaimsAccount(r, a) => ClaimsAccount(r, a)',
         \A r \in Names : \A a, p : ClaimsPerm(r, a, p) => ClaimsPerm(r, a, p)'
  PROVE  /\ UsageIsClaimed' /\ ClusterIsClaimed'
         /\ \A u \in Usage : Claimed(u) => Claimed(u)'
<1>1. \A a \in Accounts : HasAccount(a)' => HasAccount(a)
  BY DEF HasAccount
<1>2. ASSUME NEW u \in Usage, Claimed(u) PROVE Claimed(u)'
  <2>1. \A r \in u.runtimes : r \in Names
    BY DEF Usage
  <2>2. \A x \in u.account : x.runtime \in Names
    BY DEF Usage, AccountUse
  <2> QED BY <1>2, <2>1, <2>2 DEF Claimed
<1>3. UsageIsClaimed'
  BY <1>2 DEF UsageIsClaimed, TidyInv, Inv, RestTyped, ClusterTypeOK, Claimed
<1>4. \A s \in Spaces : Operable(s)' => \E r \in Names : ClaimsSpace(r, s)'
  BY DEF TidyInv, ClusterIsClaimed
<1>5. \A a \in Accounts : HasAccount(a)' \/ roles'[a].exists => \E r \in Names : ClaimsAccount(r, a)'
  BY <1>1 DEF TidyInv, ClusterIsClaimed
<1>6. \A a \in Accounts : \A p \in roles'[a].perms : \E r \in Names : ClaimsPerm(r, a, p)'
  BY DEF TidyInv, ClusterIsClaimed
<1>7. /\ Operable(Product)' \/ project' # "none" => \E r \in Names : runtimes'[r].phase # "none"
      /\ \A r \in Names : apps'[r] # {} => runtimes'[r].phase # "none"
  BY DEF TidyInv, ClusterIsClaimed
<1> QED BY <1>2, <1>3, <1>4, <1>5, <1>6, <1>7 DEF ClusterIsClaimed

\* A reconcile ends without a trace.
LEMMA EndsTidy ==
  ASSUME Inv, TidyInv, run' = Idle, UNCHANGED <<clusterVars, runtimes>>
  PROVE  TidyInv'
<1>1. SettledIsSaved'
  BY DEF TidyInv, SettledIsSaved, Settled, clusterVars
<1>2. ns'[Product] = "none" => accounts' = {}
  BY DEF TidyInv, ClusterIsClaimed, clusterVars
<1>3. UsageIsClaimed' /\ ClusterIsClaimed'
  BY <1>2, ClaimsAreSame, ClaimsGrow DEF clusterVars, Operable
<1> QED BY <1>1, <1>3, IdleIsTidy

LEMMA CrashIsTidy ==
  ASSUME Inv, TidyInv, Crash
  PROVE  TidyInv'
  BY EndsTidy DEF Crash

\* A step outside the reconcile in progress.
LEMMA OutsideIsTidy ==
  ASSUME Inv, TidyInv, UNCHANGED <<run, usage, project, apps, roles>>,
         \A s \in Spaces \cup {Product} : Operable(s)' => Operable(s),
         accounts' \subseteq accounts, ns'[Product] = "none" => accounts' = {},
         \A r \in Names : runtimes[r].phase # "none" => runtimes'[r].phase # "none",
         \A r \in Names : \A s : ClaimsSpace(r, s) => ClaimsSpace(r, s)',
         \A r \in Names : \A a : ClaimsAccount(r, a) => ClaimsAccount(r, a)',
         \A r \in Names : \A a, p : ClaimsPerm(r, a, p) => ClaimsPerm(r, a, p)',
         run.rt \in Names => runtimes'[run.rt] = runtimes[run.rt], SettledIsSaved'
  PROVE  TidyInv'
<1>1. UsageIsClaimed' /\ ClusterIsClaimed' /\ \A u \in Usage : Claimed(u) => Claimed(u)'
  BY ClaimsGrow
<1>2. RunIsCurrent'
  BY DEF TidyInv, RunIsCurrent, At, Deploying
<1>3. CopyIsClaimed'
  BY <1>1 DEF TidyInv, CopyIsClaimed, Copied, Inv, RunIsSound, RunType
<1>4. run.old.spaces \subseteq Spaces /\ run.old.perms \subseteq Repos
  BY DEF Inv, RunIsSound, RunType, Cache
<1>5. /\ Record' = Record /\ Others' = Others
      /\ PermsAreExact(Record)' <=> PermsAreExact(Record)
      /\ AccountIsExact(Record)' <=> AccountIsExact(Record)
      /\ Deploying' <=> Deploying
      /\ Deleting' <=> Deleting
  BY DEF Record, At, Others, PermsAreExact, AccountIsExact, Deploying, Deleting
<1>6. \A a \in Accounts : HasAccount(a)' => HasAccount(a)
  BY DEF HasAccount
<1>7. ASSUME NEW s \in Spaces, SpaceIsLeft(s) PROVE SpaceIsLeft(s)'
  BY <1>5, <1>7 DEF SpaceIsLeft, Others
<1>8. ASSUME AccountIsLeft PROVE AccountIsLeft'
  <2>1. CASE run.old.account \in Accounts
    <3>1. PICK a \in Accounts : a = run.old.account
      BY <2>1
    <3>2. HasAccount(a)' \/ roles'[a].exists =>
            \/ Deploying /\ a = run.spec.account
            \/ \E r \in Others : ClaimsAccount(r, a)'
      BY <1>6, <1>8, <3>1 DEF AccountIsLeft, Others
    <3> QED BY <1>5, <3>1, <3>2 DEF AccountIsLeft, HasAccount, Operable, ClaimsAccount, Live, Remembers, Settled
  <2>2. CASE run.old.account \notin Accounts
    BY <2>2 DEF AccountIsLeft
  <2> QED BY <2>1, <2>2
<1>9. ASSUME NEW p \in Repos, PermIsLeft(p) PROVE PermIsLeft(p)'
  <2>1. CASE run.old.account \in Accounts
    <3>1. PICK a \in Accounts : a = run.old.account
      BY <2>1
    <3>2. p \in roles[a].perms =>
            \/ Deploying /\ a = run.spec.account /\ p = run.spec.repo
            \/ \E r \in Others : ClaimsPerm(r, a, p)'
      BY <1>9, <3>1 DEF PermIsLeft, Others
    <3> QED BY <1>5, <3>1, <3>2 DEF PermIsLeft, ClaimsPerm, Live, Remembers, Settled
  <2>2. CASE run.old.account \notin Accounts
    BY <2>2 DEF PermIsLeft
  <2> QED BY <2>1, <2>2
<1>10. PermsAreLeft => PermsAreLeft'
  BY <1>4, <1>9 DEF PermsAreLeft
<1>11. NewIsTidy'
  <2>1. CASE run.pc = "idle"
    BY <2>1 DEF NewIsTidy
  <2>2. CASE run.pc # "idle"
    <3>1. /\ \/ run.new.account = run.old.account /\ run.new.perms = run.old.perms
             \/ /\ Deploying /\ run.new.account = run.spec.account /\ run.new.perms = {run.spec.repo}
                /\ AccountIsLeft' /\ PermsAreLeft' /\ PermsAreExact(Record)
          /\ Deleting => run.new = run.old
      BY <1>8, <1>10, <2>2 DEF TidyInv, NewIsTidy
    <3>2. \A s \in run.old.spaces \ run.new.spaces :
            Deploying /\ ~Operable(s)' /\ s \notin run.spec.spaces /\ Record.space[run.rt] \subseteq run.spec.spaces
      BY <1>4, <2>2 DEF TidyInv, NewIsTidy
    <3> QED BY <1>5, <3>1, <3>2 DEF NewIsTidy
  <2> QED BY <2>1, <2>2
<1>12. DeploymentIsTidy'
  BY <1>4, <1>5, <1>7, <1>8, <1>9, <1>10 DEF TidyInv, DeploymentIsTidy, At
<1>13. DeletionIsTidy'
  BY <1>4, <1>5, <1>7, <1>8, <1>9, <1>10 DEF TidyInv, DeletionIsTidy, At, Copied, Leaving, FromCleaned
<1> QED BY <1>1, <1>2, <1>3, <1>11, <1>12, <1>13 DEF TidyInv

-----------------------------------------------------------------------------
(* Users, who wait, and the cluster. *)

\* A user changes an object that no reconcile is in progress for.
LEMMA UserIsTidy ==
  ASSUME Inv, TidyInv, NEW r \in Names, run.rt # r, Touch(r), UNCHANGED clusterVars,
         \A q \in Names \ {r} : runtimes'[q] = runtimes[q],
         runtimes'[r].phase # "none",
         \A s : ClaimsSpace(r, s) => ClaimsSpace(r, s)',
         \A a : ClaimsAccount(r, a) => ClaimsAccount(r, a)',
         \A a, p : ClaimsPerm(r, a, p) => ClaimsPerm(r, a, p)',
         ~Settled(r)', runtimes'[r].phase = "deleting" => usage.known
  PROVE  TidyInv'
<1>1. run' = run
  BY DEF Touch, Inv, RunIsSound, RunType
<1>2. \A q \in Names : \A s : ClaimsSpace(q, s) => ClaimsSpace(q, s)'
  BY DEF ClaimsSpace, Live, Remembers, Settled
<1>3. \A q \in Names : \A a : ClaimsAccount(q, a) => ClaimsAccount(q, a)'
  BY DEF ClaimsAccount, Live, Remembers, Settled
<1>4. \A q \in Names : \A a, p : ClaimsPerm(q, a, p) => ClaimsPerm(q, a, p)'
  BY DEF ClaimsPerm, Live, Remembers, Settled
<1>5. SettledIsSaved'
  BY DEF TidyInv, SettledIsSaved, Settled, clusterVars
<1>6. ns'[Product] = "none" => accounts' = {}
  BY DEF TidyInv, ClusterIsClaimed, clusterVars
<1> QED BY <1>1, <1>2, <1>3, <1>4, <1>5, <1>6, OutsideIsTidy DEF clusterVars, Operable

LEMMA UsersAreTidy ==
  ASSUME Inv, TidyInv, UsersWait, User
  PROVE  TidyInv'
<1>1. ASSUME NEW r \in Names, NEW spec \in Specs, CreateRuntime(r, spec)
      PROVE  TidyInv'
  <2>1. /\ runtimes[r].phase = "none" /\ Touch(r) /\ UNCHANGED clusterVars
        /\ runtimes' = [runtimes EXCEPT ![r] = [NoRuntime EXCEPT !.phase = "live", !.spec = spec]]
        /\ runtimes \in [Names -> Runtime]
    BY <1>1 DEF CreateRuntime, Edited, Inv, RestTyped
  <2>2. /\ runtimes'[r].phase = "live" /\ runtimes'[r].spec = spec /\ runtimes'[r].applied = NoSpec
        /\ \A q \in Names \ {r} : runtimes'[q] = runtimes[q]
    BY <2>1 DEF NoRuntime
  <2>3. run.rt # r
    BY <2>1 DEF TidyInv, RunIsCurrent
  <2>4. ~Settled(r)'
    BY <2>2, ConstantFacts DEF Settled
  <2>5. \A s, a, p : ~(ClaimsSpace(r, s) \/ ClaimsAccount(r, a) \/ ClaimsPerm(r, a, p))
    BY <2>1, ClaimsArePhased
  <2> QED BY <2>1, <2>2, <2>3, <2>4, <2>5, UserIsTidy
<1>2. ASSUME NEW r \in Names, NEW spec \in Specs, EditRuntime(r, spec)
      PROVE  TidyInv'
  <2>1. /\ runtimes[r].phase = "live" /\ runtimes[r].spec # spec /\ Settled(r) /\ run.rt # r
        /\ Touch(r) /\ UNCHANGED clusterVars
        /\ runtimes' = [runtimes EXCEPT ![r].spec = spec]
        /\ runtimes \in [Names -> Runtime]
    BY <1>2 DEF EditRuntime, MayChange, Edited, Inv, RestTyped
  <2>2. /\ runtimes'[r].phase = "live" /\ runtimes'[r].spec = spec
        /\ runtimes'[r].applied = runtimes[r].applied /\ runtimes'[r].cache = runtimes[r].cache
        /\ \A q \in Names \ {r} : runtimes'[q] = runtimes[q]
    BY <2>1 DEF Runtime
  <2>3. ~Settled(r)'
    BY <2>1, <2>2 DEF Settled
  <2>4. /\ runtimes[r].cache.account = runtimes[r].spec.account
        /\ runtimes[r].cache.perms = {runtimes[r].spec.repo}
        /\ runtimes[r].spec.spaces \subseteq runtimes[r].cache.spaces
    BY <2>1 DEF TidyInv, SettledIsSaved
  <2>5. Live(r) /\ ~Remembers(r) /\ Remembers(r)'
    BY <2>1, <2>2, <2>3 DEF Live, Remembers
  <2>6. \A s : ClaimsSpace(r, s) => ClaimsSpace(r, s)'
    BY <2>2, <2>4, <2>5 DEF ClaimsSpace
  <2>7. \A a : ClaimsAccount(r, a) => ClaimsAccount(r, a)'
    BY <2>2, <2>4, <2>5 DEF ClaimsAccount
  <2>8. \A a, p : ClaimsPerm(r, a, p) => ClaimsPerm(r, a, p)'
    BY <2>2, <2>4, <2>5 DEF ClaimsPerm
  <2> QED BY <2>1, <2>2, <2>3, <2>6, <2>7, <2>8, UserIsTidy
<1>3. ASSUME NEW r \in Names, DeleteRuntime(r)
      PROVE  TidyInv'
  <2>1. /\ runtimes[r].phase = "live" /\ Settled(r) /\ run.rt # r
        /\ Touch(r) /\ UNCHANGED clusterVars
        /\ runtimes' = [runtimes EXCEPT ![r] = IF @.finalizer THEN [@ EXCEPT !.phase = "deleting"]
                                               ELSE NoRuntime]
        /\ runtimes \in [Names -> Runtime]
    BY <1>3 DEF DeleteRuntime, MayChange, Edited, Inv, RestTyped
  <2>2. /\ runtimes[r].cache.account = runtimes[r].spec.account
        /\ runtimes[r].cache.perms = {runtimes[r].spec.repo}
        /\ runtimes[r].spec.spaces \subseteq runtimes[r].cache.spaces
        /\ runtimes[r].finalizer /\ usage.known
    BY <2>1 DEF TidyInv, SettledIsSaved
  <2>3. /\ runtimes'[r].phase = "deleting" /\ runtimes'[r].cache = runtimes[r].cache
        /\ \A q \in Names \ {r} : runtimes'[q] = runtimes[q]
    BY <2>1, <2>2 DEF Runtime
  <2>4. ~Settled(r)'
    BY <2>3 DEF Settled
  <2>5. Live(r) /\ ~Remembers(r) /\ Remembers(r)'
    BY <2>1, <2>3, <2>4 DEF Live, Remembers
  <2>6. \A s : ClaimsSpace(r, s) => ClaimsSpace(r, s)'
    BY <2>2, <2>3, <2>5 DEF ClaimsSpace
  <2>7. \A a : ClaimsAccount(r, a) => ClaimsAccount(r, a)'
    BY <2>2, <2>3, <2>5 DEF ClaimsAccount
  <2>8. \A a, p : ClaimsPerm(r, a, p) => ClaimsPerm(r, a, p)'
    BY <2>2, <2>3, <2>5 DEF ClaimsPerm
  <2> QED BY <2>1, <2>2, <2>3, <2>4, <2>6, <2>7, <2>8, UserIsTidy
<1> QED BY <1>1, <1>2, <1>3 DEF User

\* The cluster and its reconcile go on, the objects are as they were.
LEMMA SameObjectsAreTidy ==
  ASSUME Inv, TidyInv, UNCHANGED <<runtimes, run, usage, project, apps, roles>>,
         \A s \in Spaces \cup {Product} : Operable(s)' => Operable(s),
         accounts' \subseteq accounts, ns'[Product] = "none" => accounts' = {}
  PROVE  TidyInv'
<1>1. SettledIsSaved'
  BY DEF TidyInv, SettledIsSaved, Settled
<1> QED BY <1>1, ClaimsAreSame, OutsideIsTidy

LEMMA GoneIsTidy ==
  ASSUME Inv, TidyInv, NEW s \in Spaces \cup {Product}, Gone(s)
  PROVE  TidyInv'
<1>1. /\ UNCHANGED <<runtimes, run, project, apps, roles, usage>>
      /\ ns[s] = "terminating" /\ ns' = [ns EXCEPT ![s] = "none"]
      /\ IF s = Product THEN accounts' = {} ELSE UNCHANGED accounts
  BY DEF Gone, NamespaceGone
<1>2. ns \in [Spaces \cup {Product} -> {"none", "active", "terminating"}]
  BY DEF Inv, RestTyped, ClusterTypeOK
<1>3. /\ \A t \in Spaces \cup {Product} : Operable(t)' => Operable(t)
      /\ s # Product => ns'[Product] = ns[Product]
  BY <1>1, <1>2 DEF Operable
<1>4. ns'[Product] = "none" => accounts' = {}
  BY <1>1, <1>3 DEF TidyInv, ClusterIsClaimed
<1> QED BY <1>1, <1>3, <1>4, SameObjectsAreTidy

LEMMA StutterIsTidy ==
  ASSUME Inv, TidyInv, UNCHANGED vars
  PROVE  TidyInv'
<1>1. ns'[Product] = "none" => accounts' = {}
  BY DEF TidyInv, ClusterIsClaimed, vars, clusterVars
<1> QED BY <1>1, SameObjectsAreTidy DEF vars, clusterVars, Operable

-----------------------------------------------------------------------------
(* The beginning of a reconcile. *)

\* An object is read, or its finalizer added: it claims what it claimed.
LEMMA ObjectIsRead ==
  ASSUME Inv, TidyInv, UNCHANGED clusterVars,
         \A r \in Names : /\ runtimes'[r].phase = runtimes[r].phase
                          /\ runtimes'[r].spec = runtimes[r].spec
                          /\ runtimes'[r].cache = runtimes[r].cache
                          /\ runtimes[r].finalizer => runtimes'[r].finalizer
                          /\ Settled(r)' <=> Settled(r)
  PROVE  SettledIsSaved' /\ UsageIsClaimed' /\ ClusterIsClaimed'
<1>1. SettledIsSaved'
  BY DEF TidyInv, SettledIsSaved, clusterVars
<1>2. \A r \in Names : \A s, a, p :
        /\ ClaimsSpace(r, s) => ClaimsSpace(r, s)'
        /\ ClaimsAccount(r, a) => ClaimsAccount(r, a)'
        /\ ClaimsPerm(r, a, p) => ClaimsPerm(r, a, p)'
  BY DEF ClaimsSpace, ClaimsAccount, ClaimsPerm, Live, Remembers
<1>3. ns'[Product] = "none" => accounts' = {}
  BY DEF TidyInv, ClusterIsClaimed, clusterVars
<1> QED BY <1>1, <1>2, <1>3, ClaimsGrow DEF clusterVars, Operable

LEMMA ReconcileIsTidy ==
  ASSUME Inv, TidyInv, NEW r \in Names, Reconcile(r)
  PROVE  TidyInv'
<1>1. /\ runtimes[r].phase # "none" /\ UNCHANGED clusterVars
      /\ run' = [Idle EXCEPT !.rt = r,
                         !.pc = IF runtimes[r].finalizer THEN "getUsage" ELSE "addFinalizer",
                         !.op = IF runtimes[r].phase = "live" THEN "deploy" ELSE "delete",
                         !.spec = runtimes[r].spec,
                         !.old = runtimes[r].cache,
                         !.new = runtimes[r].cache]
      /\ runtimes' = [runtimes EXCEPT ![r].applied = IF @ = runtimes[r].spec THEN @ ELSE NoSpec]
      /\ runtimes \in [Names -> Runtime]
  BY DEF Reconcile, Inv, RestTyped
<1>2. runtimes[r].phase \in {"live", "deleting"} /\ runtimes[r].spec \in Specs
  BY <1>1 DEF Runtime, Inv, AppliedIsKnown
<1>3. \A q \in Names : /\ runtimes'[q].phase = runtimes[q].phase
                       /\ runtimes'[q].spec = runtimes[q].spec
                       /\ runtimes'[q].cache = runtimes[q].cache
                       /\ runtimes'[q].finalizer = runtimes[q].finalizer
  BY <1>1 DEF Runtime
<1>4. \A q \in Names : Settled(q)' <=> Settled(q)
  <2>1. Settled(r)' <=> Settled(r)
    BY <1>1, <1>2, ConstantFacts DEF Settled, Runtime
  <2> QED BY <1>1, <2>1 DEF Settled
<1>5. SettledIsSaved' /\ UsageIsClaimed' /\ ClusterIsClaimed'
  BY <1>1, <1>3, <1>4, ObjectIsRead
<1>6. /\ run'.rt = r /\ run'.spec = runtimes[r].spec /\ run'.old = runtimes[r].cache
      /\ run'.new = run'.old /\ ~run'.stale /\ ~run'.failed
      /\ run'.pc = (IF runtimes[r].finalizer THEN "getUsage" ELSE "addFinalizer")
      /\ run'.op = (IF runtimes[r].phase = "live" THEN "deploy" ELSE "delete")
  BY <1>1 DEF Idle
<1>7. run'.pc \in {"addFinalizer", "getUsage"}
  BY <1>6
<1>8. RunIsCurrent'
  BY <1>2, <1>3, <1>6, <1>7 DEF RunIsCurrent, Deploying, At
<1>9. CopyIsClaimed'
  BY <1>7 DEF CopyIsClaimed, Copied
<1>10. NewIsTidy'
  BY <1>6 DEF NewIsTidy
<1>11. DeploymentIsTidy'
  BY <1>6, <1>7
  DEF DeploymentIsTidy, At, FromSynced, FromLeft, FromSpaces, FromAccount,
      FromUsers, FromRole, FromGranted, FromSaved, Leaving
<1>12. DeletionIsTidy'
  BY <1>7 DEF DeletionIsTidy, At, Copied, Leaving, FromCleaned, Ending
<1> QED BY <1>5, <1>8, <1>9, <1>10, <1>11, <1>12 DEF TidyInv

LEMMA AddFinalizerIsTidy ==
  ASSUME Inv, TidyInv, AddFinalizer
  PROVE  TidyInv'
<1>1. run.pc = "addFinalizer" /\ run.pc # "idle" /\ UNCHANGED clusterVars
  BY DEF AddFinalizer, At
<1>2. CASE run' = Idle /\ UNCHANGED runtimes
  BY <1>1, <1>2, EndsTidy
<1>3. CASE run' = GoTo("getUsage", {}) /\ runtimes' = [runtimes EXCEPT ![run.rt].finalizer = TRUE]
  <2>1. PICK q \in Names : q = run.rt
    BY <1>1, RunFacts
  <2>2. runtimes \in [Names -> Runtime]
    BY DEF Inv, RestTyped
  <2>3. "getUsage" \in PC \ {"idle"} /\ {} \in SUBSET (Spaces \cup Repos)
    BY DEF PC
  <2>4. /\ SameReconcile /\ run'.pc = "getUsage" /\ run'.new = run.new /\ run'.failed = run.failed
    BY <1>1, <1>3, <2>3, RunGoesTo
  <2>5. run'.stale = run.stale
    BY <1>1, <1>3, <2>3, RunFacts, GoToFacts
  <2>6. /\ run.rt \in Names /\ ~run.stale
        /\ runtimes[q].spec = run.spec /\ runtimes[q].cache = run.old
        /\ runtimes[q].phase = (IF Deploying THEN "live" ELSE "deleting")
        /\ run.new = run.old /\ ~run.failed
    BY <1>1, <2>1 DEF TidyInv, RunIsCurrent, FromSaved
  <2>7. /\ \A r \in Names : /\ runtimes'[r].phase = runtimes[r].phase
                            /\ runtimes'[r].spec = runtimes[r].spec
                            /\ runtimes'[r].cache = runtimes[r].cache
                            /\ runtimes'[r].applied = runtimes[r].applied
                            /\ runtimes[r].finalizer => runtimes'[r].finalizer
        /\ runtimes'[q].finalizer
    BY <1>3, <2>1, <2>2 DEF Runtime
  <2>8. SettledIsSaved' /\ UsageIsClaimed' /\ ClusterIsClaimed'
    BY <1>1, <2>7, ObjectIsRead DEF Settled
  <2>9. RunIsCurrent'
    BY <2>1, <2>4, <2>5, <2>6, <2>7 DEF RunIsCurrent, SameReconcile, Deploying, At
  <2>10. CopyIsClaimed'
    BY <2>4 DEF CopyIsClaimed, Copied
  <2>11. NewIsTidy'
    BY <2>4, <2>6 DEF NewIsTidy, SameReconcile
  <2>12. DeploymentIsTidy'
    BY <2>4, <2>6
    DEF DeploymentIsTidy, SameReconcile, At, FromSynced, FromLeft, FromSpaces, FromAccount,
        FromUsers, FromRole, FromGranted, FromSaved, Leaving
  <2>13. DeletionIsTidy'
    BY <2>4 DEF DeletionIsTidy, At, Copied, Leaving, FromCleaned, Ending
  <2> QED BY <2>8, <2>9, <2>10, <2>11, <2>12, <2>13 DEF TidyInv
<1> QED BY <1>2, <1>3 DEF AddFinalizer

LEMMA GetUsageIsTidy ==
  ASSUME Inv, TidyInv, GetUsage
  PROVE  TidyInv'
<1>1. run.pc = "getUsage" /\ run.pc # "idle" /\ UNCHANGED <<clusterVars, runtimes>>
  BY DEF GetUsage, At
<1>2. PICK q \in Names : q = run.rt
  BY <1>1, RunFacts
<1>3. /\ run \in RunType /\ usage \in Usage /\ Claimed(usage)
      /\ Deploying <=> ~Deleting
  BY <1>1, RunFacts DEF Inv, RestTyped, ClusterTypeOK, TidyInv, UsageIsClaimed
<1>4. /\ run.rt \in Names /\ ~run.stale
      /\ runtimes[q].spec = run.spec /\ runtimes[q].cache = run.old
      /\ runtimes[q].phase = (IF Deploying THEN "live" ELSE "deleting")
      /\ run.new = run.old /\ ~run.failed /\ runtimes[q].finalizer
  BY <1>1, <1>2 DEF TidyInv, RunIsCurrent, FromSaved
<1>5. Deleting => usage.known
  BY <1>2, <1>3, <1>4 DEF TidyInv, SettledIsSaved
<1>6. SettledIsSaved' /\ UsageIsClaimed' /\ ClusterIsClaimed'
  BY <1>1, ObjectIsRead DEF Settled
<1>7. ASSUME SameReconcile, run'.stale = run.stale, run'.new = run.new,
             run'.failed => run'.pc = "saveStatus", run'.pc \in {"createProduct", "deleteApp", "saveStatus"}
      PROVE  RunIsCurrent' /\ NewIsTidy'
  <2>1. RunIsCurrent'
    BY <1>1, <1>2, <1>4, <1>7 DEF RunIsCurrent, SameReconcile, Deploying, At, FromSaved
  <2>2. NewIsTidy'
    BY <1>4, <1>7 DEF NewIsTidy, SameReconcile
  <2> QED BY <2>1, <2>2
<1>8. CASE Deploying /\ run' = [run EXCEPT !.pc = "createProduct",
                                           !.usage = [usage EXCEPT !.runtimes = @ \cup {run.rt}]]
  <2> DEFINE u == [usage EXCEPT !.runtimes = @ \cup {run.rt}]
  <2>1. u.runtimes = usage.runtimes \cup {q} /\ u.space = usage.space /\ u.account = usage.account
    BY <1>2, <1>3 DEF Usage
  <2>2. run' = [run EXCEPT !.pc = "createProduct", !.usage = u]
    BY <1>8
  <2> HIDE DEF u
  <2>3. /\ SameReconcile /\ run'.stale = run.stale /\ run'.new = run.new /\ run'.failed = run.failed
        /\ run'.pc = "createProduct" /\ run'.usage = u
    BY <1>3, <2>2 DEF RunType, SameReconcile
  <2>4. RunIsCurrent' /\ NewIsTidy'
    BY <1>4, <1>7, <2>3
  <2>5. Claimed(u)
    BY <1>3, <1>4, <2>1 DEF Claimed
  <2>6. CopyIsClaimed'
    BY <1>1, <2>3, <2>5, ClaimsAreSame DEF CopyIsClaimed, Claimed
  <2>7. DeploymentIsTidy'
    BY <1>4, <2>3
    DEF DeploymentIsTidy, SameReconcile, At, FromSynced, FromLeft, FromSpaces, FromAccount,
        FromUsers, FromRole, FromGranted, FromSaved, Leaving
  <2>8. DeletionIsTidy'
    BY <1>3, <1>8, <2>3 DEF DeletionIsTidy, SameReconcile, Deleting
  <2> QED BY <1>6, <2>4, <2>6, <2>7, <2>8 DEF TidyInv
<1>9. CASE Deleting /\ usage.known
           /\ run' = [run EXCEPT !.pc = "deleteApp",
                                 !.usage = [usage EXCEPT !.runtimes = @ \ {run.rt}, !.space[run.rt] = {}]]
  <2> DEFINE u == [usage EXCEPT !.runtimes = @ \ {run.rt}, !.space[run.rt] = {}]
  <2>1. /\ u.runtimes = usage.runtimes \ {q} /\ u.account = usage.account
        /\ u.space[q] = {} /\ \A r \in Names \ {q} : u.space[r] = usage.space[r]
    BY <1>2, <1>3 DEF Usage
  <2>2. run' = [run EXCEPT !.pc = "deleteApp", !.usage = u]
    BY <1>9
  <2> HIDE DEF u
  <2>3. /\ SameReconcile /\ run'.stale = run.stale /\ run'.new = run.new /\ run'.failed = run.failed
        /\ run'.pc = "deleteApp" /\ run'.usage = u
    BY <1>3, <2>2 DEF RunType, SameReconcile
  <2>4. RunIsCurrent' /\ NewIsTidy'
    BY <1>4, <1>7, <2>3
  <2>5. Claimed(u)
    BY <1>1, <1>3, <2>1, ClaimedStays
  <2>6. CopyIsClaimed'
    BY <1>1, <2>3, <2>5, ClaimsAreSame DEF CopyIsClaimed, Claimed
  <2>7. DeploymentIsTidy'
    BY <1>3, <1>9, <2>3 DEF DeploymentIsTidy, SameReconcile, Deploying
  <2>8. DeletionIsTidy'
    BY <1>2, <2>1, <2>3 DEF DeletionIsTidy, SameReconcile, At, Leaving, FromCleaned, Ending
  <2> QED BY <1>6, <2>4, <2>6, <2>7, <2>8 DEF TidyInv
<1>10. CASE run' = [run EXCEPT !.pc = "saveStatus", !.failed = TRUE]
  <2>1. /\ SameReconcile /\ run'.stale = run.stale /\ run'.new = run.new /\ run'.failed
        /\ run'.pc = "saveStatus"
    BY <1>3, <1>10 DEF RunType, SameReconcile
  <2>2. RunIsCurrent' /\ NewIsTidy'
    BY <1>7, <2>1
  <2>3. CopyIsClaimed'
    BY <2>1 DEF CopyIsClaimed, Copied
  <2>4. DeploymentIsTidy' /\ DeletionIsTidy'
    BY <2>1 DEF DeploymentIsTidy, DeletionIsTidy
  <2> QED BY <1>6, <2>2, <2>3, <2>4 DEF TidyInv
<1> QED BY <1>5, <1>8, <1>9, <1>10 DEF GetUsage

-----------------------------------------------------------------------------
(* The end of a reconcile. *)

LEMMA SaveUsageIsTidy ==
  ASSUME Inv, TidyInv, ~UsageWritesFail, SaveUsage
  PROVE  TidyInv'
<1>1. /\ run.pc = "saveUsage" /\ run.pc # "idle" /\ Copied
      /\ UNCHANGED <<ns, users, accounts, project, apps, roles, runtimes>>
      /\ UpdateProductUsage(run.usage)
      /\ run' = GoTo(IF Deleting /\ ~run.failed THEN "removeFinalizer" ELSE "saveStatus", {})
  BY DEF SaveUsage, At, Copied, PC
<1>2. PICK pc \in {"removeFinalizer", "saveStatus"} :
        /\ pc = "removeFinalizer" <=> Deleting /\ ~run.failed
        /\ run' = GoTo(pc, {})
  BY <1>1
<1>3. PICK q \in Names : q = run.rt
  BY <1>1, RunFacts
<1>4. /\ run \in RunType /\ run.usage \in Usage /\ Claimed(run.usage)
      /\ Deploying <=> ~Deleting
  BY <1>1, RunFacts, CopyFacts
<1>5. pc \in PC \ {"idle"} /\ {} \in SUBSET (Spaces \cup Repos)
  BY DEF PC
<1>6. /\ SameReconcile /\ run'.pc = pc /\ run'.new = run.new /\ run'.failed = run.failed
      /\ run'.usage = run.usage
  BY <1>1, <1>2, <1>5, RunGoesTo
<1>7. run'.stale = run.stale
  BY <1>2, <1>4, <1>5, GoToFacts
<1>8. /\ usage'.known
      /\ usage'.runtimes = run.usage.runtimes
      /\ \A r \in Names : usage'.space[r] \subseteq run.usage.space[r]
      /\ usage'.account \subseteq run.usage.account
  BY <1>1, <1>4 DEF UpdateProductUsage, EmptyUsage, Usage
<1>9. RunIsCurrent'
  <2>1. /\ run.rt \in Names /\ ~run.stale
        /\ runtimes[q].spec = run.spec /\ runtimes[q].cache = run.old
        /\ runtimes[q].phase = (IF Deploying THEN "live" ELSE "deleting")
        /\ runtimes[q].finalizer
    BY <1>1, <1>3, OwnFacts
  <2>2. run'.failed => run'.pc \in FromSaved
    BY <1>2, <1>6 DEF FromSaved
  <2> QED BY <1>1, <1>3, <1>6, <1>7, <2>1, <2>2 DEF RunIsCurrent, SameReconcile, Deploying, At
<1>10. SettledIsSaved'
  BY <1>1, <1>8 DEF TidyInv, SettledIsSaved, Settled
<1>11. UsageIsClaimed'
  <2>1. PICK w : w = usage'
    OBVIOUS
  <2>2. Claimed(w)'
    BY <1>1, <1>4, <1>8, <2>1, ClaimedStays
  <2> QED BY <2>1, <2>2 DEF UsageIsClaimed, Claimed
<1>12. CopyIsClaimed'
  BY <1>6 DEF CopyIsClaimed, Copied
<1>13. ClusterIsOwn
  BY <1>1 DEF ClusterIsOwn, Operable, HasAccount, TidyInv, ClusterIsClaimed
<1>14. /\ ClusterIsClaimed'
       /\ \A s \in Spaces : SpaceIsLeft(s) => SpaceIsLeft(s)'
       /\ AccountIsLeft => AccountIsLeft'
       /\ \A p \in Repos : PermIsLeft(p) => PermIsLeft(p)'
  BY <1>1, <1>6, <1>13, OwnStep
<1>15. run.old.spaces \subseteq Spaces /\ run.old.perms \subseteq Repos
  BY <1>1, RunFacts DEF Cache
<1>16. PermsAreLeft => PermsAreLeft'
  BY <1>6, <1>14, <1>15 DEF PermsAreLeft, SameReconcile
<1>17. /\ Deploying' <=> Deploying
       /\ Deleting' <=> Deleting
       /\ Record = run.usage
       /\ Deploying => Record' = usage'
  BY <1>1, <1>2, <1>4, <1>6 DEF Deploying, Deleting, SameReconcile, Record, At
<1>18. Deploying => /\ AccountIsExact(Record) => AccountIsExact(Record)'
                    /\ PermsAreExact(Record) => PermsAreExact(Record)'
                    /\ Record'.space[run.rt] \subseteq Record.space[run.rt]
  <2>1. /\ AccountIsExact(run.usage) => AccountIsExact(usage)'
        /\ PermsAreExact(run.usage) => PermsAreExact(usage)'
    BY <1>6, <1>8 DEF PermsAreExact, AccountIsExact, SameReconcile
  <2>2. Deploying => /\ AccountIsExact(Record)' <=> AccountIsExact(usage)'
                     /\ PermsAreExact(Record)' <=> PermsAreExact(usage)'
    BY <1>17 DEF PermsAreExact, AccountIsExact
  <2> QED BY <1>3, <1>8, <1>17, <2>1, <2>2
<1>19. NewIsTidy'
  <2>1. /\ \/ run.new.account = run.old.account /\ run.new.perms = run.old.perms
           \/ /\ Deploying /\ run.new.account = run.spec.account /\ run.new.perms = {run.spec.repo}
              /\ AccountIsLeft /\ PermsAreLeft /\ PermsAreExact(Record)
        /\ Deleting => run.new = run.old
        /\ \A s \in run.old.spaces \ run.new.spaces :
             Deploying /\ ~Operable(s) /\ s \notin run.spec.spaces /\ Record.space[run.rt] \subseteq run.spec.spaces
    BY <1>1 DEF TidyInv, NewIsTidy
  <2>2. \/ run'.new.account = run'.old.account /\ run'.new.perms = run'.old.perms
        \/ /\ Deploying' /\ run'.new.account = run'.spec.account /\ run'.new.perms = {run'.spec.repo}
           /\ AccountIsLeft' /\ PermsAreLeft' /\ PermsAreExact(Record)'
    BY <1>6, <1>14, <1>16, <1>17, <1>18, <2>1 DEF SameReconcile
  <2>3. \A s \in run'.old.spaces \ run'.new.spaces :
          Deploying' /\ ~Operable(s)' /\ s \notin run'.spec.spaces /\ Record'.space[run'.rt] \subseteq run'.spec.spaces
    BY <1>1, <1>6, <1>17, <1>18, <2>1 DEF SameReconcile, Operable
  <2>4. Deleting' => run'.new = run'.old
    BY <1>6, <1>17, <2>1 DEF SameReconcile
  <2> QED BY <2>2, <2>3, <2>4 DEF NewIsTidy
<1>20. DeploymentIsTidy'
  <2>1. CASE Deploying /\ ~run.failed
    <3>1. run'.pc = "saveStatus"
      BY <1>2, <1>4, <1>6, <2>1
    <3>2. /\ Record.space[run.rt] \subseteq run.spec.spaces /\ run.spec.spaces \subseteq run.new.spaces
          /\ PermsAreLeft /\ AccountIsLeft
          /\ AccountIsExact(Record) /\ PermsAreExact(Record)
          /\ run.new.account = run.spec.account /\ run.new.perms = {run.spec.repo}
          /\ \A s \in run.old.spaces : SpaceIsLeft(s)
      BY <1>1, <2>1
      DEF TidyInv, DeploymentIsTidy, FromSynced, FromLeft, FromSpaces, FromAccount,
          FromUsers, FromRole, FromGranted, FromSaved
    <3>3. /\ Record'.space[run.rt] \subseteq run.spec.spaces
          /\ PermsAreLeft' /\ AccountIsLeft' /\ AccountIsExact(Record)' /\ PermsAreExact(Record)'
          /\ \A s \in run.old.spaces : SpaceIsLeft(s)'
      BY <1>14, <1>15, <1>16, <1>18, <2>1, <3>2
    <3> QED BY <1>6, <1>8, <3>1, <3>2, <3>3
        DEF DeploymentIsTidy, SameReconcile, At, FromSynced, FromLeft, FromSpaces, FromAccount,
            FromUsers, FromRole, FromGranted, FromSaved, Leaving
  <2>2. CASE ~(Deploying /\ ~run.failed)
    BY <1>6, <1>17, <2>2 DEF DeploymentIsTidy
  <2> QED BY <2>1, <2>2
<1>21. DeletionIsTidy'
  <2>1. CASE Deleting /\ ~run.failed
    <3>1. run'.pc = "removeFinalizer"
      BY <1>2, <1>6, <2>1
    <3>2. /\ run.rt \notin run.usage.runtimes /\ run.usage.space[run.rt] = {} /\ apps[run.rt] = {}
          /\ PermsAreLeft /\ AccountIsLeft
          /\ \A x \in run.usage.account : x.runtime # run.rt
          /\ \A s \in run.old.spaces : SpaceIsLeft(s)
          /\ run.usage.runtimes = {} => ~Operable(Product) /\ project = "none"
      BY <1>1, <1>17, <2>1 DEF TidyInv, DeletionIsTidy, FromCleaned, At
    <3>3. PermsAreLeft' /\ AccountIsLeft' /\ \A s \in run.old.spaces : SpaceIsLeft(s)'
      BY <1>14, <1>15, <1>16, <3>2
    <3>4. /\ run.rt \notin usage'.runtimes /\ usage'.space[run.rt] = {}
          /\ \A x \in usage'.account : x.runtime # run.rt
          /\ usage'.runtimes = {} => ~Operable(Product)' /\ project' = "none"
      BY <1>1, <1>3, <1>8, <3>2 DEF Operable
    <3>5. run'.usage = run.usage /\ Record' = run.usage
      BY <1>6, <3>1 DEF Record, At
    <3>6. \A x \in Record'.account : x.runtime = run'.rt => FALSE
      BY <1>6, <3>2, <3>5 DEF SameReconcile
    <3>7. /\ run'.pc = "removeFinalizer" /\ run'.rt = run.rt /\ run'.old = run.old
          /\ apps'[run.rt] = {}
      BY <1>1, <1>6, <3>1, <3>2 DEF SameReconcile
    <3>8. PermsAreLeft' /\ AccountIsLeft' /\ \A s \in run'.old.spaces : SpaceIsLeft(s)'
      BY <3>3, <3>7
    <3> QED BY <3>4, <3>6, <3>7, <3>8
        DEF DeletionIsTidy, At, Copied, Leaving, FromCleaned, Ending
  <2>2. CASE ~(Deleting /\ ~run.failed)
    BY <1>6, <1>17, <2>2 DEF DeletionIsTidy
  <2> QED BY <2>1, <2>2
<1> QED BY <1>9, <1>10, <1>11, <1>12, <1>14, <1>19, <1>20, <1>21 DEF TidyInv

\* The status forgets of the last deployment only what is gone or is left to others.
LEMMA SaveStatusIsTidy ==
  ASSUME Inv, TidyInv, SaveStatus
  PROVE  TidyInv'
<1>1. run.pc = "saveStatus" /\ run.pc # "idle" /\ run' = Idle /\ UNCHANGED clusterVars
  BY DEF SaveStatus, At
<1>2. CASE UNCHANGED runtimes
  BY <1>1, <1>2, EndsTidy
<1>3. CASE runtimes' = [runtimes EXCEPT ![run.rt].cache = run.new,
                           ![run.rt].applied = IF Deploying /\ ~run.failed THEN run.spec ELSE @]
  <2>1. PICK q \in Names : q = run.rt
    BY <1>1, RunFacts
  <2>2. /\ runtimes \in [Names -> Runtime]
        /\ Deploying <=> ~Deleting
        /\ run.new \in Cache /\ run.old \in Cache /\ usage \in Usage
    BY <1>1, RunFacts DEF Inv, RestTyped, ClusterTypeOK
  <2>3. /\ runtimes'[q].phase = runtimes[q].phase /\ runtimes'[q].spec = runtimes[q].spec
        /\ runtimes'[q].finalizer = runtimes[q].finalizer /\ runtimes'[q].cache = run.new
        /\ runtimes'[q].applied = (IF Deploying /\ ~run.failed THEN run.spec ELSE runtimes[q].applied)
        /\ \A r \in Names \ {q} : runtimes'[r] = runtimes[r]
    <3> DEFINE o == [runtimes[q] EXCEPT !.cache = run.new,
                                        !.applied = IF Deploying /\ ~run.failed THEN run.spec ELSE @]
    <3>1. runtimes' = [runtimes EXCEPT ![q] = o]
      BY <1>3, <2>1
    <3>2. /\ o.phase = runtimes[q].phase /\ o.spec = runtimes[q].spec
          /\ o.finalizer = runtimes[q].finalizer /\ o.cache = run.new
          /\ o.applied = (IF Deploying /\ ~run.failed THEN run.spec ELSE runtimes[q].applied)
      BY <2>2 DEF Runtime
    <3> HIDE DEF o
    <3>3. runtimes'[q] = o /\ \A r \in Names \ {q} : runtimes'[r] = runtimes[r]
      BY <2>2, <3>1
    <3> QED BY <3>2, <3>3
  <2>4. /\ runtimes[q].spec = run.spec /\ runtimes[q].cache = run.old
        /\ runtimes[q].phase = (IF Deploying THEN "live" ELSE "deleting")
        /\ runtimes[q].finalizer
        /\ \A s : ClaimsSpace(q, s) => s \in run.old.spaces \/ (Deploying /\ s \in run.spec.spaces)
        /\ \A a : ClaimsAccount(q, a) => a = run.old.account \/ (Deploying /\ a = run.spec.account)
        /\ \A a, p : ClaimsPerm(q, a, p) =>
             \/ a = run.old.account /\ p \in run.old.perms
             \/ Deploying /\ a = run.spec.account /\ p = run.spec.repo
    BY <1>1, <2>1, OwnFacts
  <2>5. Record = usage /\ Others = Names \ {q}
    BY <1>1, <2>1 DEF Record, At, Others
  <2>6. /\ \/ run.new.account = run.old.account /\ run.new.perms = run.old.perms
           \/ /\ Deploying /\ run.new.account = run.spec.account /\ run.new.perms = {run.spec.repo}
              /\ AccountIsLeft /\ PermsAreLeft /\ PermsAreExact(usage)
        /\ Deleting => run.new = run.old
        /\ \A s \in run.old.spaces \ run.new.spaces :
             Deploying /\ ~Operable(s) /\ s \notin run.spec.spaces /\ usage.space[q] \subseteq run.spec.spaces
    BY <1>1, <2>1, <2>5 DEF TidyInv, NewIsTidy, PermsAreExact, AccountIsExact
  <2>7. /\ \A s \in usage.space[q] : ClaimsSpace(q, s)
        /\ \A x \in usage.account : x.runtime = q =>
             ClaimsAccount(q, x.account) /\ \A p \in x.perms : ClaimsPerm(q, x.account, p)
    BY DEF TidyInv, UsageIsClaimed, Claimed
  <2>8. Deploying => /\ \A s \in run.spec.spaces : ClaimsSpace(q, s)'
                     /\ \A a : a = run.spec.account => ClaimsAccount(q, a)'
                     /\ \A a, p : a = run.spec.account /\ p = run.spec.repo => ClaimsPerm(q, a, p)'
    BY <2>3, <2>4 DEF ClaimsSpace, ClaimsAccount, ClaimsPerm, Live
  <2>9. /\ AccountIsLeft => \A a \in Accounts :
             a = run.old.account /\ (HasAccount(a) \/ roles[a].exists) =>
               (Deploying /\ a = run.spec.account) \/ \E r \in Names \ {q} : ClaimsAccount(r, a)
        /\ PermsAreLeft => \A a \in Accounts : \A p \in roles[a].perms :
             a = run.old.account /\ p \in run.old.perms =>
               \/ Deploying /\ a = run.spec.account /\ p = run.spec.repo
               \/ \E r \in Names \ {q} : ClaimsPerm(r, a, p)
    <3>1. ASSUME AccountIsLeft, NEW a \in Accounts, a = run.old.account, HasAccount(a) \/ roles[a].exists
          PROVE  (Deploying /\ a = run.spec.account) \/ \E r \in Names \ {q} : ClaimsAccount(r, a)
      BY <2>5, <3>1 DEF AccountIsLeft
    <3>2. ASSUME PermsAreLeft, NEW a \in Accounts, NEW p \in roles[a].perms,
                 a = run.old.account, p \in run.old.perms
          PROVE  \/ Deploying /\ a = run.spec.account /\ p = run.spec.repo
                 \/ \E r \in Names \ {q} : ClaimsPerm(r, a, p)
      BY <2>5, <3>2 DEF PermsAreLeft, PermIsLeft
    <3> QED BY <3>1, <3>2
  <2>10. CASE Deploying /\ ~run.failed
    <3>1. /\ usage.space[q] \subseteq run.spec.spaces /\ run.spec.spaces \subseteq run.new.spaces
          /\ PermsAreLeft /\ AccountIsLeft /\ PermsAreExact(usage)
          /\ run.new.account = run.spec.account /\ run.new.perms = {run.spec.repo}
          /\ \A s \in run.old.spaces : SpaceIsLeft(s)
          /\ usage.known
      BY <1>1, <2>1, <2>5, <2>10
      DEF TidyInv, DeploymentIsTidy, FromSynced, FromLeft, FromSpaces, FromAccount,
          FromUsers, FromRole, FromGranted, FromSaved, At, PermsAreExact, AccountIsExact
    <3>2. \A x \in usage.account : x.runtime = q => x.account = run.spec.account /\ x.perms \subseteq {run.spec.repo}
      BY <2>1, <3>1 DEF PermsAreExact, AccountIsExact
    <3>3. \A s \in Spaces : Operable(s) /\ ClaimsSpace(q, s) =>
            ClaimsSpace(q, s)' \/ \E r \in Names \ {q} : ClaimsSpace(r, s)
      BY <2>4, <2>5, <2>8, <2>10, <3>1 DEF SpaceIsLeft
    <3>4. \A a \in Accounts : (HasAccount(a) \/ roles[a].exists) /\ ClaimsAccount(q, a) =>
            ClaimsAccount(q, a)' \/ \E r \in Names \ {q} : ClaimsAccount(r, a)
      BY <2>4, <2>8, <2>9, <2>10, <3>1
    <3>5. \A a \in Accounts : \A p \in roles[a].perms : ClaimsPerm(q, a, p) =>
            ClaimsPerm(q, a, p)' \/ \E r \in Names \ {q} : ClaimsPerm(r, a, p)
      BY <2>4, <2>8, <2>9, <2>10, <3>1
    <3>6. /\ \A s \in usage.space[q] : ClaimsSpace(q, s)'
          /\ \A x \in usage.account : x.runtime = q =>
               ClaimsAccount(q, x.account)' /\ \A p \in x.perms : ClaimsPerm(q, x.account, p)'
      <4>1. \A s \in usage.space[q] : ClaimsSpace(q, s)'
        BY <2>8, <2>10, <3>1
      <4>2. ASSUME NEW x \in usage.account, x.runtime = q
            PROVE  ClaimsAccount(q, x.account)' /\ \A p \in x.perms : ClaimsPerm(q, x.account, p)'
        <5>1. x.account = run.spec.account /\ \A p \in x.perms : p = run.spec.repo
          BY <3>2, <4>2
        <5> QED BY <2>8, <2>10, <5>1
      <4> QED BY <4>1, <4>2
    <3>7. UsageIsClaimed' /\ ClusterIsClaimed'
      <4>1. runtimes'[q].phase # "none"
        BY <2>3, <2>4
      <4> QED BY <1>1, <2>3, <3>3, <3>4, <3>5, <3>6, <4>1, ObjectStep
    <3>8. SettledIsSaved'
      <4>1. /\ runtimes'[q].finalizer /\ usage'.known
            /\ runtimes'[q].cache.account = runtimes'[q].spec.account
            /\ runtimes'[q].cache.perms = {runtimes'[q].spec.repo}
            /\ runtimes'[q].spec.spaces \subseteq runtimes'[q].cache.spaces
        BY <1>1, <2>3, <2>4, <3>1 DEF clusterVars
      <4> QED BY <1>1, <2>3, <4>1 DEF TidyInv, SettledIsSaved, Settled, clusterVars
    <3> QED BY <1>1, <3>7, <3>8, IdleIsTidy
  <2>11. CASE ~(Deploying /\ ~run.failed)
    <3>1. Settled(q)' <=> Settled(q)
      BY <2>3, <2>11 DEF Settled
    <3>2. /\ Live(q)' <=> Live(q)
          /\ Remembers(q)' <=> Remembers(q)
      BY <2>3, <3>1 DEF Live, Remembers
    <3>3. \A s : ClaimsSpace(q, s) =>
            \/ ClaimsSpace(q, s)'
            \/ Deploying /\ ~Operable(s) /\ usage.space[q] \subseteq run.spec.spaces
      BY <2>3, <2>4, <2>6, <3>2 DEF ClaimsSpace
    <3>4. \A s \in Spaces : Operable(s) /\ ClaimsSpace(q, s) =>
            ClaimsSpace(q, s)' \/ \E r \in Names \ {q} : ClaimsSpace(r, s)
      BY <3>3
    <3>5. \/ /\ \A a : ClaimsAccount(q, a) => ClaimsAccount(q, a)'
             /\ \A a, p : ClaimsPerm(q, a, p) => ClaimsPerm(q, a, p)'
          \/ Deploying /\ AccountIsLeft /\ PermsAreLeft /\ PermsAreExact(usage)
      BY <2>3, <2>4, <2>6, <3>2 DEF ClaimsAccount, ClaimsPerm
    <3>6. \A a \in Accounts : (HasAccount(a) \/ roles[a].exists) /\ ClaimsAccount(q, a) =>
            ClaimsAccount(q, a)' \/ \E r \in Names \ {q} : ClaimsAccount(r, a)
      BY <2>4, <2>8, <2>9, <3>5
    <3>7. \A a \in Accounts : \A p \in roles[a].perms : ClaimsPerm(q, a, p) =>
            ClaimsPerm(q, a, p)' \/ \E r \in Names \ {q} : ClaimsPerm(r, a, p)
      BY <2>4, <2>8, <2>9, <3>5
    <3>8. \A s \in usage.space[q] : ClaimsSpace(q, s)'
      BY <2>7, <2>8, <3>3
    <3>9. \A x \in usage.account : x.runtime = q =>
            ClaimsAccount(q, x.account)' /\ \A p \in x.perms : ClaimsPerm(q, x.account, p)'
      <4> SUFFICES ASSUME NEW x \in usage.account, x.runtime = q
                   PROVE  ClaimsAccount(q, x.account)' /\ \A p \in x.perms : ClaimsPerm(q, x.account, p)'
        OBVIOUS
      <4>1. CASE Deploying /\ PermsAreExact(usage)
        <5>1. x.account = run.spec.account /\ \A p \in x.perms : p = run.spec.repo
          BY <2>1, <4>1 DEF PermsAreExact, AccountIsExact
        <5> QED BY <2>8, <4>1, <5>1
      <4>2. CASE /\ \A a : ClaimsAccount(q, a) => ClaimsAccount(q, a)'
                 /\ \A a, p : ClaimsPerm(q, a, p) => ClaimsPerm(q, a, p)'
        BY <2>7, <4>2
      <4> QED BY <3>5, <4>1, <4>2
    <3>10. UsageIsClaimed' /\ ClusterIsClaimed'
      <4>1. runtimes'[q].phase # "none"
        BY <2>3, <2>4
      <4> QED BY <1>1, <2>3, <3>4, <3>6, <3>7, <3>8, <3>9, <4>1, ObjectStep
    <3>11. Settled(q) => /\ run.new.account = run.spec.account
                         /\ run.new.perms = {run.spec.repo}
                         /\ run.spec.spaces \subseteq run.new.spaces
      BY <2>4, <2>6 DEF TidyInv, SettledIsSaved
    <3>12. SettledIsSaved'
      <4>1. Settled(q)' => /\ runtimes'[q].finalizer /\ usage'.known
                           /\ runtimes'[q].cache.account = runtimes'[q].spec.account
                           /\ runtimes'[q].cache.perms = {runtimes'[q].spec.repo}
                           /\ runtimes'[q].spec.spaces \subseteq runtimes'[q].cache.spaces
        BY <1>1, <2>3, <2>4, <3>1, <3>11 DEF TidyInv, SettledIsSaved, clusterVars
      <4>2. \A r \in Names : runtimes'[r].phase = "deleting" => usage'.known
        BY <1>1, <2>3 DEF TidyInv, SettledIsSaved, clusterVars
      <4> QED BY <1>1, <2>3, <4>1, <4>2 DEF TidyInv, SettledIsSaved, Settled, clusterVars
    <3> QED BY <1>1, <3>10, <3>12, IdleIsTidy
  <2> QED BY <2>10, <2>11
<1> QED BY <1>2, <1>3 DEF SaveStatus

\* What is left of a runtime that goes others claim.
LEMMA RemoveFinalizerIsTidy ==
  ASSUME Inv, TidyInv, RemoveFinalizer
  PROVE  TidyInv'
<1>1. run.pc = "removeFinalizer" /\ run.pc # "idle" /\ run' = Idle /\ UNCHANGED clusterVars
  BY DEF RemoveFinalizer, At
<1>2. CASE UNCHANGED runtimes
  BY <1>1, <1>2, EndsTidy
<1>3. CASE runtimes' = [runtimes EXCEPT ![run.rt] = NoRuntime]
  <2>1. PICK q \in Names : q = run.rt
    BY <1>1, RunFacts
  <2>2. /\ runtimes \in [Names -> Runtime] /\ usage \in Usage
        /\ ~Deploying /\ Deleting /\ ~run.failed
    BY <1>1, <2>1, RunFacts
    DEF Inv, RestTyped, ClusterTypeOK, TidyInv, RunIsCurrent, DeployPCs, FromUsage, FromProduct,
        FromProject, FromSpaces, FromAccount, FromUsers, FromRole, FromGranted, FromSaved, Leaving
  <2>3. /\ runtimes'[q] = NoRuntime /\ NoRuntime.phase = "none"
        /\ \A r \in Names \ {q} : runtimes'[r] = runtimes[r]
    BY <1>3, <2>1, <2>2, ConstantFacts
  <2>4. /\ \A s : ClaimsSpace(q, s) => s \in run.old.spaces
        /\ \A a : ClaimsAccount(q, a) => a = run.old.account
        /\ \A a, p : ClaimsPerm(q, a, p) => a = run.old.account /\ p \in run.old.perms
    BY <1>1, <2>1, <2>2, OwnFacts
  <2>5. /\ PermsAreLeft /\ AccountIsLeft /\ \A s \in run.old.spaces : SpaceIsLeft(s)
        /\ q \notin usage.runtimes /\ usage.space[q] = {} /\ apps[q] = {}
        /\ \A x \in usage.account : x.runtime # q
        /\ usage.runtimes = {} => ~Operable(Product) /\ project = "none"
    BY <1>1, <2>1, <2>2 DEF TidyInv, DeletionIsTidy, At, FromCleaned
  <2>6. Others = Names \ {q}
    BY <2>1 DEF Others
  <2>7. \A s \in Spaces : Operable(s) /\ ClaimsSpace(q, s) => \E r \in Names \ {q} : ClaimsSpace(r, s)
    BY <2>2, <2>4, <2>5, <2>6 DEF SpaceIsLeft
  <2>8. \A a \in Accounts : (HasAccount(a) \/ roles[a].exists) /\ ClaimsAccount(q, a) =>
          \E r \in Names \ {q} : ClaimsAccount(r, a)
    BY <2>2, <2>4, <2>5, <2>6 DEF AccountIsLeft
  <2>9. \A a \in Accounts : \A p \in roles[a].perms : ClaimsPerm(q, a, p) =>
          \E r \in Names \ {q} : ClaimsPerm(r, a, p)
    BY <2>2, <2>4, <2>5, <2>6 DEF PermsAreLeft, PermIsLeft
  <2>10. Operable(Product) \/ project # "none" => \E r \in Names \ {q} : runtimes[r].phase # "none"
    BY <2>2, <2>5 DEF TidyInv, UsageIsClaimed, Claimed, Usage
  <2>11. UsageIsClaimed' /\ ClusterIsClaimed'
    BY <1>1, <2>3, <2>5, <2>7, <2>8, <2>9, <2>10, ObjectStep
  <2>12. SettledIsSaved'
    BY <1>1, <2>3 DEF TidyInv, SettledIsSaved, Settled, clusterVars
  <2> QED BY <1>1, <2>11, <2>12, IdleIsTidy
<1> QED BY <1>2, <1>3 DEF RemoveFinalizer

-----------------------------------------------------------------------------
(* Nothing is left behind. *)

LEMMA InitIsTidy == Init => TidyInv
<1> SUFFICES ASSUME Init PROVE TidyInv
  OBVIOUS
<1>1. run.pc = "idle" /\ run.rt = NoName /\ run.op = "none" /\ NoName \notin Names
  BY IdleFacts DEF Init
<1>2. \A r \in Names : runtimes[r].phase = "none"
  BY ConstantFacts DEF Init
<1>3. /\ ns = [s \in Spaces \cup {Product} |-> "none"] /\ accounts = {} /\ project = "none"
      /\ apps = [r \in Names |-> {}] /\ roles = [a \in Accounts |-> NoRole]
      /\ usage = EmptyUsage(FALSE)
  BY DEF Init, ClusterInit
<1>4. RunIsCurrent /\ CopyIsClaimed /\ NewIsTidy /\ DeploymentIsTidy /\ DeletionIsTidy
  BY <1>1 DEF RunIsCurrent, CopyIsClaimed, Copied, NewIsTidy, DeploymentIsTidy, DeletionIsTidy,
              Deploying, Deleting
<1>5. SettledIsSaved
  BY <1>2 DEF SettledIsSaved, Settled
<1>6. UsageIsClaimed
  BY <1>3 DEF UsageIsClaimed, Claimed, EmptyUsage
<1>7. ClusterIsClaimed
  BY <1>3 DEF ClusterIsClaimed, Operable, HasAccount, NoRole
<1> QED BY <1>4, <1>5, <1>6, <1>7 DEF TidyInv

LEMMA ProceedIsTidy ==
  ASSUME Inv, TidyInv, ~UsageWritesFail, Proceed
  PROVE  TidyInv'
<1>1. CASE \E s \in Spaces : CreateSpace(s) \/ DropUser(s) \/ AddUser(s) \/ DeleteSpace(s)
  BY <1>1, CreateSpaceIsTidy, DropUserIsTidy, AddUserIsTidy, DeleteSpaceIsTidy
<1>2. CASE \E p \in Repos : RevokeOld(p) \/ Revoke(p)
  BY <1>2, RevokeOldIsTidy, RevokeIsTidy
<1>3. CASE \/ AddFinalizer \/ GetUsage \/ CreateProduct \/ CreateProject \/ AddProductUser
           \/ SpacesCreated \/ OldRevoked \/ UsersDropped \/ AccountLeft \/ UsersAdded
  BY <1>3, AddFinalizerIsTidy, GetUsageIsTidy, CreateProductIsTidy, CreateProjectIsTidy,
     AddProductUserIsTidy, SpacesCreatedIsTidy, OldRevokedIsTidy, UsersDroppedIsTidy,
     AccountLeftIsTidy, UsersAddedIsTidy
<1>4. CASE \/ PermissionsSynced \/ SpacesDeleted \/ DeleteProductRole \/ DeleteProductAccount
           \/ CreateProductAccount \/ CreateAccountRole \/ Grant \/ CreateApp
  BY <1>4, PermissionsSyncedIsTidy, SpacesDeletedIsTidy, DeleteProductRoleIsTidy,
     DeleteProductAccountIsTidy, CreateProductAccountIsTidy, CreateAccountRoleIsTidy,
     GrantIsTidy, CreateAppIsTidy
<1>5. CASE \/ DeleteApp \/ DeleteProductUser \/ DeleteProduct \/ DeleteProject
           \/ SaveUsage \/ SaveStatus \/ RemoveFinalizer
  BY <1>5, DeleteAppIsTidy, EndingIsTidy, SaveUsageIsTidy, SaveStatusIsTidy,
     RemoveFinalizerIsTidy
<1> QED BY <1>1, <1>2, <1>3, <1>4, <1>5 DEF Proceed

LEMMA StepIsTidy ==
  ASSUME UsersWait, ~UsageWritesFail
  PROVE  Inv /\ TidyInv /\ [Next]_vars => TidyInv'
<1> SUFFICES ASSUME Inv, TidyInv, [Next]_vars PROVE TidyInv'
  OBVIOUS
<1>1. CASE User
  BY <1>1, UsersAreTidy
<1>2. CASE \E r \in Names : Reconcile(r)
  BY <1>2, ReconcileIsTidy
<1>3. CASE Proceed
  BY <1>3, ProceedIsTidy
<1>4. CASE CallFails
  BY <1>4, CallFailsIsTidy
<1>5. CASE Crash
  BY <1>5, CrashIsTidy
<1>6. CASE \E s \in Spaces \cup {Product} : Gone(s)
  BY <1>6, GoneIsTidy
<1>7. CASE UNCHANGED vars
  BY <1>7, StutterIsTidy
<1> QED BY <1>1, <1>2, <1>3, <1>4, <1>5, <1>6, <1>7 DEF Next

\* When every runtime is deployed, or gone, the caches claim nothing.
LEMMA TidyLeavesNothing == Inv /\ TidyInv => NothingLeftBehind
<1> SUFFICES ASSUME TidyInv, Quiet PROVE NothingLeftBehind!2
  BY DEF NothingLeftBehind
<1>1. \A r \in Names : ~Remembers(r)
  BY DEF Quiet, Remembers
<1>2. \A r \in Names : Live(r) => runtimes[r].spec \in LiveSpecs
  BY DEF Live, LiveSpecs
<1>3. \A r \in Names : runtimes[r].phase # "none" => Live(r) /\ runtimes[r].phase = "live"
  BY DEF Quiet, Settled, Live
<1>4. \A s \in Spaces : Operable(s) => \E spec \in LiveSpecs : s \in spec.spaces
  BY <1>1, <1>2 DEF TidyInv, ClusterIsClaimed, ClaimsSpace
<1>5. \A a \in Accounts : HasAccount(a) \/ roles[a].exists => \E spec \in LiveSpecs : spec.account = a
  BY <1>1, <1>2 DEF TidyInv, ClusterIsClaimed, ClaimsAccount
<1>6. \A a \in Accounts : \A p \in roles[a].perms :
        \E spec \in LiveSpecs : spec.account = a /\ spec.repo = p
  BY <1>1, <1>2 DEF TidyInv, ClusterIsClaimed, ClaimsPerm
<1>7. Operable(Product) \/ project # "none" => LiveSpecs # {}
  BY <1>2, <1>3 DEF TidyInv, ClusterIsClaimed
<1>8. \A r \in Names : apps[r] # {} => runtimes[r].phase = "live"
  BY <1>3 DEF TidyInv, ClusterIsClaimed
<1> QED BY <1>4, <1>5, <1>6, <1>7, <1>8

\* When users wait for a change to be deployed before the next one, and the
\* usage record can be written, deletions and changes leave nothing behind:
\* whenever every runtime is deployed or gone, each space, account, permission
\* and application left is one a live runtime asks for, and the product has gone
\* with its last runtime.  For any runtimes, spaces, accounts and repositories,
\* any number of changes, failed calls and crashes.
THEOREM DeletionsAreComplete ==
  ASSUME UsersWait, ~UsageWritesFail
  PROVE  Spec => []NothingLeftBehind
<1>1. Init => TidyInv
  BY InitIsTidy
<1>2. Inv /\ TidyInv /\ [Next]_vars => TidyInv'
  BY StepIsTidy
<1>3. Inv /\ TidyInv => NothingLeftBehind
  BY TidyLeavesNothing
<1> QED BY <1>1, <1>2, <1>3, Inductive, PTL DEF Spec

=============================================================================
