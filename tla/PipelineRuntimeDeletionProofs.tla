------------------- MODULE PipelineRuntimeDeletionProofs -------------------
(***************************************************************************)
(* That deletions are complete: with users who wait, what is left of the   *)
(* cluster, Argo CD and the product once all is quiet is what live         *)
(* runtimes ask for (NothingLeftBehind), for any runtimes, spaces,         *)
(* accounts and repositories, and any number of edits, failures and        *)
(* crashes.                                                                *)
(*                                                                         *)
(* What is there, one of the objects claims at any time, by its spec or    *)
(* by the cache in its status (SpacesAreTidy, ProductIsTidy, AppsAreTidy,  *)
(* HooksAreTidy, AccountsAreTidy).  Claims are given up when a status is   *)
(* saved and when a finalizer is removed; a reconcile is followed there,   *)
(* so that what the new status forgets is gone by then, or claimed by      *)
(* another object (HookIsGone, OldIsLeft), or excepted.  As a deployed     *)
(* runtime claims by its cache what it claims by its spec                  *)
(* (SettledIsComplete), the specs have it all when nobody has anything     *)
(* left to do.                                                             *)
(*                                                                         *)
(* A usage record that names what nobody claims would keep it alive:       *)
(* UsageIsClaimed allows that for one runtime at a time, whose last write  *)
(* of the record was lost (Lost).  A reconcile that a late request         *)
(* disturbs deploys again what is deployed (StaleIsComplete and            *)
(* StaleIsExact).                                                          *)
(***************************************************************************)
EXTENDS PipelineRuntimeProofs

-----------------------------------------------------------------------------
(* The invariant.                                                          *)

\* A status that has all of spec.
Complete(c, spec) ==
  /\ c.account = spec.account /\ c.space = spec.space /\ c.perms = Perms(spec)
  /\ c.hook = HookOf(spec) /\ (spec.app => c.app)

\* One object at a time is not deployed.  A reconcile that is disturbed deploys
\* again what is deployed.
SettledIsComplete == \A r \in Names : Settled(r) => Complete(runtimes[r].cache, runtimes[r].spec)
AtRest(r) == runtimes[r].phase = "none" \/ Settled(r)
ChangesAreAlone == \A r, q \in Names : AtRest(r) \/ AtRest(q) \/ r = q
StaleIsComplete == run.rt \in Names /\ run.stale => Complete(run.old, run.spec)

\* What a deployment saves is what was saved before, or what its spec asks for.
HookSynced == {"createSensors", "surplusSensors", "app"} \cup FromSaved
NewIsMade ==
  run.rt \in Names /\ Deploying =>
    LET old == run.old
        new == run.new
        spec == run.spec
    IN
    /\ \/ new.account = old.account /\ new.perms = old.perms
       \/ new.account = spec.account /\ new.perms = Perms(spec)
    /\ new.hook = old.hook \/ new.hook = HookOf(spec)
    /\ old.app => new.app
    /\ ~run.failed =>
         /\ run.pc \in FromSynced => new.account = spec.account /\ new.perms = Perms(spec)
         /\ IF run.pc \in HookSynced THEN new.hook = HookOf(spec) ELSE new.hook = old.hook
         /\ run.pc \in FromSaved /\ spec.app => new.app

ObjectsAreTidy == SettledIsComplete /\ ChangesAreAlone /\ StaleIsComplete /\ NewIsMade

\* Spaces.
Ended == Ending \cup {"saveUsage", "removeFinalizer"}
ClaimsSpace(r, s) ==
  \/ Live(r) /\ runtimes[r].spec.space = s
  \/ runtimes[r].phase = "deleting" /\ runtimes[r].cache.space = s
SpacesAreTidy ==
  /\ \A s \in Spaces : Operable(s) => s \in left \/ \E r \in Names : ClaimsSpace(r, s)
  /\ Deploying /\ run.pc \notin FromSpace => run.new.space = run.old.space
  /\ Deleting /\ ~run.failed /\ run.pc \in Ended => run.new.space = NoSpace
  /\ Deleting /\ run.new.space = NoSpace /\ run.old.space # NoSpace => ~Operable(run.old.space)

\* The product.
Exists(r) == runtimes[r].phase # "none"
ProductIsTidy ==
  /\ Operable(Product) \/ project # "none" => \E r \in Names : Exists(r)
  /\ \A r \in usage.runtimes : Exists(r)
  /\ Copied \/ At("removeFinalizer") => \A r \in run.usage.runtimes : Exists(r) /\ (Deleting => r # run.rt)
  /\ At("removeFinalizer") => run.rt \notin usage.runtimes
  /\ Deleting /\ ~run.failed =>
       /\ run.pc \in Ending => run.usage.runtimes = {}
       /\ At("deleteProject") => ~Operable(Product)
       /\ run.pc \in {"saveUsage", "removeFinalizer"} /\ run.usage.runtimes = {} =>
            ~Operable(Product) /\ project = "none"

\* Applications.
AppSynced == IF Deploying THEN run.pc \in FromSaved
             ELSE run.pc \in Leaving \cup {"deleteSpace"} \cup Ended
AppsAreTidy ==
  /\ \A r \in Names : apps[r] # {} =>
       r \in abandoned \/ runtimes[r].spec.app \/ (Exists(r) /\ runtimes[r].cache.app /\ ~Settled(r))
  /\ run.rt \in Names /\ ~run.failed /\ ~run.stale /\ ~run.spec.app /\ AppSynced =>
       apps[run.rt] = {} \/ run.rt \in abandoned

\* What a reconcile listens to is there, unless a call failed.
ReposAreThere ==
  /\ \A r \in Names : gitlab[r].repos \cup runtimes[r].spec.tokens \subseteq codeRepos
  /\ late # NoRequest => late.spec.tokens \subseteq codeRepos
  /\ run.rt \in Names =>
       /\ run.repos = codeRepos /\ run.spec.tokens \subseteq codeRepos
       /\ run.pc \in {"listen", "forgetRepos", "unlistenRepos"} => run.todo \subseteq codeRepos
CalendarsAreThere ==
  /\ faults = MaxFaults =>
       \A r \in Names : "calendar" \in cached[r] =>
         r \in calendar \/ (r = run.rt /\ run.pc \in Unlistening /\ "calendar" \notin run.kinds)
  /\ Deploying /\ run.spec.calendar /\ run.pc \in Unlistening => run.rt \in calendar
SourcesAreThere == ReposAreThere /\ CalendarsAreThere

\* Hook secrets.
ClaimsHook(r, s) ==
  LET object == runtimes[r] IN
  \/ Live(r) /\ object.spec.space = s /\ hooks[s] = HookOf(object.spec)
  \/ /\ Exists(r) /\ object.cache.space = s /\ object.cache.hook # NoRepo
     /\ Live(r) => object.spec.space # s \/ object.cache.hook # HookOf(object.spec)
HookIsGone ==
  /\ run.old.hook # NoRepo /\ run.old.space # NoSpace
  /\ Deploying => run.old.space # run.spec.space \/ run.old.hook # HookOf(run.spec)
  => hooks[run.old.space] = NoRepo
HookRemoved == IF Deploying THEN run.pc \in HookSynced
               ELSE run.pc \in {"app", "deleteSpace"} \cup Leaving \cup Ended
HooksAreTidy ==
  /\ \A s \in Spaces : hooks[s] # NoRepo =>
       (s \in left /\ faults < MaxFaults) \/ \E r \in Names : ClaimsHook(r, s)
  /\ run.rt \in Names =>
       /\ run.new.hook # run.old.hook \/ (~run.failed /\ HookRemoved) => HookIsGone
       /\ run.failed /\ run.new.space # run.old.space => HookIsGone \/ (Deploying /\ faults < MaxFaults)
       /\ Deleting /\ run.new.space # run.old.space => HookIsGone

\* Accounts and permissions.
ClaimsAccount(r, a) ==
  \/ Live(r) /\ a = runtimes[r].spec.account
  \/ Exists(r) /\ a = runtimes[r].cache.account
ClaimsPerm(r, a, p) ==
  \/ Live(r) /\ a = runtimes[r].spec.account /\ p \in Perms(runtimes[r].spec)
  \/ Exists(r) /\ a = runtimes[r].cache.account /\ p \in runtimes[r].cache.perms

\* A usage record names nothing but claims, but for permissions of a runtime
\* whose last write of the record was lost, when no other is to be deployed.
Lost(r) == r \notin recorded /\ late = NoRequest /\ \A q \in Names \ {r} : AtRest(q)
Claimed(u) ==
  \A x \in u.account :
    /\ ClaimsAccount(x.runtime, x.account)
    /\ Lost(x.runtime) \/ \A p \in x.perms : ClaimsPerm(x.runtime, x.account, p)
AccountsAreClaimed ==
  /\ \A a \in Accounts : HasAccount(a) \/ roles[a].exists => \E r \in Names : ClaimsAccount(r, a)
  /\ \A a \in Accounts : \A p \in roles[a].perms : \E r \in Names : ClaimsPerm(r, a, p)
  /\ ns[Product] = "none" => accounts = {}
UsageIsClaimed == Claimed(usage) /\ (Copied => Claimed(run.usage))

Others == Names \ {run.rt}
AccountIsLeft ==
  run.old.account \in Accounts /\ (HasAccount(run.old.account) \/ roles[run.old.account].exists) =>
    \/ Deploying /\ run.old.account = run.spec.account
    \/ \E r \in Others : ClaimsAccount(r, run.old.account)
PermIsLeft(p) ==
  run.old.account \in Accounts /\ p \in roles[run.old.account].perms =>
    \/ Deploying /\ run.old.account = run.spec.account /\ p \in Perms(run.spec)
    \/ \E r \in Others : ClaimsPerm(r, run.old.account, p)
OldIsLeft == AccountIsLeft /\ \A p \in run.old.perms : PermIsLeft(p)
TodoIsLeft == \A p \in run.old.perms \ run.todo : PermIsLeft(p)

\* The record that was saved, or will be; what it has of the runtime.
Record == IF run.pc \in {"saveStatus", "removeFinalizer"} THEN usage ELSE run.usage
AccountIsExact(u) == \A x \in u.account : x.runtime = run.rt => x.account = run.spec.account
PermsAreExact(u) == \A x \in u.account : x.runtime = run.rt => x.perms \subseteq Perms(run.spec)
NoUse(u) == \A x \in u.account : x.runtime # run.rt
RecordIsExact ==
  AccountIsExact(Record) /\ (PermsAreExact(Record) \/ (At("saveStatus") /\ run.rt \notin recorded))

NewIsTidy ==
  run.rt \in Names =>
    /\ Deploying => \/ run.new.account = run.old.account /\ run.new.perms = run.old.perms
                    \/ OldIsLeft /\ RecordIsExact
    /\ Deleting => /\ run.new.perms = run.old.perms
                   /\ run.new.account = run.old.account \/ run.new.account = NoAccount
                   /\ run.new.account = NoAccount => OldIsLeft /\ NoUse(Record)

FromLeft == {"createSpace"} \cup FromSpace
DeploymentIsTidy ==
  Deploying /\ ~run.failed =>
    /\ run.pc \in {"revokeOld", "dropUser"} \cup FromLeft => AccountIsLeft
    /\ At("revokeOld") => TodoIsLeft
    /\ At("deleteAccount") => roles[run.old.account] = NoRole
    /\ At("dropUser") => OldIsLeft
    /\ run.pc \in FromLeft /\ run.old.account # run.spec.account => OldIsLeft
    /\ run.pc \in FromLeft => AccountIsExact(Record)
    /\ At("grant") => run.todo \subseteq Perms(run.spec)
    /\ run.pc \in FromGranted => RecordIsExact
    /\ At("revoke") /\ run.old.account = run.spec.account => TodoIsLeft
    /\ run.pc \in FromSynced => OldIsLeft
DeletionIsTidy ==
  Deleting /\ ~run.failed =>
    /\ At("revokeOld") => TodoIsLeft
    /\ At("deleteAccount") => roles[run.old.account] = NoRole
    /\ run.pc \in {"deleteSpace"} \cup Ended => run.new.account = NoAccount
StaleIsExact ==
  run.rt \in Names /\ run.stale => AccountIsExact(usage) /\ (Copied => AccountIsExact(run.usage))

AccountsAreTidy ==
  /\ AccountsAreClaimed /\ UsageIsClaimed /\ NewIsTidy /\ DeploymentIsTidy /\ DeletionIsTidy
  /\ StaleIsExact

TidyInOrder == /\ ObjectsAreTidy /\ SpacesAreTidy /\ ProductIsTidy /\ AppsAreTidy /\ SourcesAreThere
               /\ HooksAreTidy /\ AccountsAreTidy
TidyInv == calm => TidyInOrder

-----------------------------------------------------------------------------
(* Claims. *)

LEMMA ClaimsAreSame ==
  ASSUME UNCHANGED runtimes, NEW r, NEW s, NEW a, NEW p
  PROVE  /\ Live(r)' <=> Live(r)
         /\ Settled(r)' <=> Settled(r)
         /\ AtRest(r)' <=> AtRest(r)
         /\ Exists(r)' <=> Exists(r)
         /\ ClaimsSpace(r, s)' <=> ClaimsSpace(r, s)
         /\ ClaimsAccount(r, a)' <=> ClaimsAccount(r, a)
         /\ ClaimsPerm(r, a, p)' <=> ClaimsPerm(r, a, p)
  BY DEF Live, Settled, AtRest, Exists, ClaimsSpace, ClaimsAccount, ClaimsPerm

\* The object of a reconcile claims what the reconcile brings about.
LEMMA OwnRun ==
  ASSUME Inv, EventsInOrder, ObjectsAreTidy, run.pc # "idle", NEW q \in Names, q = run.rt
  PROVE  /\ Exists(q) /\ runtimes[q].cache = run.old
         /\ Live(q) <=> Deploying
         /\ Deleting => runtimes[q].phase = "deleting" /\ ~run.stale /\ ~Settled(q)
         /\ ~run.stale => runtimes[q].spec = run.spec
         /\ run.stale => Deploying /\ Complete(run.old, run.spec)
         /\ Settled(q) /\ ~run.stale => Complete(run.old, run.spec)
         /\ Deploying => /\ ClaimsAccount(q, run.spec.account)
                         /\ \A p \in Perms(run.spec) : ClaimsPerm(q, run.spec.account, p)
<1>1. /\ runtimes[q].phase = IF Deploying THEN "live" ELSE "deleting"
      /\ run.stale => Deploying
      /\ Deploying <=> ~Deleting
      /\ runtimes[q].cache = run.old
  BY RunFacts DEF EventsInOrder, RunIsCalm
<1>2. ~run.stale => runtimes[q].spec = run.spec
  BY DEF Inv, ObjectIsRead
<1>3. run.stale => Complete(run.old, run.spec)
  BY DEF ObjectsAreTidy, StaleIsComplete
<1>4. Exists(q) /\ (Live(q) <=> Deploying) /\ (Deleting => ~Settled(q))
  BY <1>1 DEF Exists, Live, Settled
<1>5. Settled(q) /\ ~run.stale => Complete(run.old, run.spec)
  BY <1>1, <1>2 DEF ObjectsAreTidy, SettledIsComplete
<1>6. Deploying => /\ ClaimsAccount(q, run.spec.account)
                   /\ \A p \in Perms(run.spec) : ClaimsPerm(q, run.spec.account, p)
  BY <1>1, <1>2, <1>3, <1>4 DEF ClaimsAccount, ClaimsPerm, Complete
<1> QED BY <1>1, <1>2, <1>3, <1>4, <1>5, <1>6

\* A call fails.
Fails == run'.failed /\ run'.pc = "saveUsage"

LEMMA FaultsGrow ==
  ASSUME Inv, UNCHANGED faults \/ Fault
  PROVE  /\ faults < MaxFaults => faults' < MaxFaults
         /\ faults' = MaxFaults => faults = MaxFaults
         /\ ~(faults' < MaxFaults) => faults = MaxFaults /\ faults' = MaxFaults
         /\ Fault => faults' < MaxFaults
<1>1. faults \in 0..MaxFaults /\ MaxFaults \in Nat
  BY SpecsAssumption DEF Inv, RestTyped
<1> QED BY <1>1 DEF Fault

-----------------------------------------------------------------------------
(* A step of a reconcile to which the parts of the cluster are as before.   *)

LEMMA ObjectsStep ==
  ASSUME ObjectsAreTidy, UNCHANGED runtimes, SameReconcile, NewIsMade'
  PROVE  ObjectsAreTidy'
<1>1. SettledIsComplete' /\ ChangesAreAlone'
  BY DEF ObjectsAreTidy, SettledIsComplete, ChangesAreAlone, Settled, AtRest, Live
<1>2. StaleIsComplete'
  BY DEF ObjectsAreTidy, StaleIsComplete, SameReconcile
<1> QED BY <1>1, <1>2 DEF ObjectsAreTidy

SameNew == /\ run'.new.account = run.new.account /\ run'.new.perms = run.new.perms
           /\ run'.new.hook = run.new.hook /\ run'.new.app = run.new.app

LEMMA NewStep ==
  ASSUME ObjectsAreTidy, SameReconcile, Deploying => SameNew,
         Deploying /\ ~run'.failed =>
           /\ ~run.failed
           /\ run'.pc \in FromSynced => run.pc \in FromSynced
           /\ run'.pc \in HookSynced <=> run.pc \in HookSynced
           /\ run'.pc \in FromSaved => run.pc \in FromSaved
  PROVE  NewIsMade'
<1> SUFFICES ASSUME run.rt \in Names, Deploying PROVE NewIsMade'
  BY DEF NewIsMade, SameReconcile, Deploying
<1>1. NewIsMade
  BY DEF ObjectsAreTidy
<1>2. run'.rt \in Names /\ Deploying' /\ run'.spec = run.spec /\ run'.old = run.old
  BY DEF SameReconcile, Deploying
<1> QED BY <1>1, <1>2 DEF NewIsMade, SameNew

\* A deployment creates a space.
SpacesGrow ==
  \A s \in Spaces : Operable(s)' =>
    Operable(s) \/ (Deploying /\ (s \in left \/ \E r \in Names : ClaimsSpace(r, s)))

LEMMA SpacesStep ==
  ASSUME Inv, SpacesAreTidy, run.pc # "idle", UNCHANGED <<runtimes, left>>, SameReconcile,
         SpacesGrow, Deploying <=> ~Deleting,
         Deploying /\ run'.pc \notin FromSpace => run.pc \notin FromSpace /\ run'.new.space = run.new.space,
         Deleting => /\ run'.new.space = run.new.space
                     /\ ~run'.failed /\ run'.pc \in Ended => ~run.failed /\ run.pc \in Ended
  PROVE  SpacesAreTidy'
<1>0. /\ Deploying' <=> Deploying
      /\ Deploying' /\ run'.pc \notin FromSpace => run'.new.space = run'.old.space
  BY DEF SpacesAreTidy, SameReconcile, Deploying
<1>1. PICK old \in Spaces \cup {NoSpace} : old = run.old.space
  BY RunFacts DEF Cache
<1>2. run'.old.space = old /\ (Deleting' <=> Deleting)
  BY <1>1 DEF SameReconcile, Deleting
<1>3. \A s \in Spaces : Operable(s)' => s \in left' \/ \E r \in Names : ClaimsSpace(r, s)'
  BY ClaimsAreSame DEF SpacesAreTidy, SpacesGrow
<1>4. Deleting /\ ~run'.failed /\ run'.pc \in Ended => run'.new.space = NoSpace
  BY DEF SpacesAreTidy
<1>5. Deleting /\ run'.new.space = NoSpace /\ old # NoSpace => ~Operable(old)'
  BY <1>1 DEF SpacesAreTidy, SpacesGrow
<1>6. Operable(old)' <=> ns'[run'.old.space] = "active"
  BY <1>2 DEF Operable
<1> QED BY <1>0, <1>2, <1>3, <1>4, <1>5, <1>6 DEF SpacesAreTidy, Operable

LEMMA ProductStep ==
  ASSUME Inv, EventsInOrder, ObjectsAreTidy, ProductIsTidy, run.pc \in Calls,
         UNCHANGED <<runtimes, usage>>, SameReconcile,
         run'.usage.runtimes = run.usage.runtimes, run'.pc # "removeFinalizer",
         Deleting /\ ~run'.failed => run'.pc \notin Ending \cup {"saveUsage"}
  PROVE  ProductIsTidy'
<1>1. run.pc # "idle" /\ Copied
  BY DEF Calls, Copied, PC
<1>2. PICK q \in Names : q = run.rt
  BY <1>1, RunFacts
<1>3. Exists(q)
  BY <1>1, <1>2, OwnRun
<1>4. \A r : Exists(r)' <=> Exists(r)
  BY DEF Exists
<1>5. /\ \A r \in usage'.runtimes : Exists(r)'
      /\ \A r \in run'.usage.runtimes : Exists(r)' /\ (Deleting => r # q)
  BY <1>1, <1>2, <1>4 DEF ProductIsTidy
<1>6. /\ (Deleting' <=> Deleting) /\ run'.rt = q
      /\ ~At("removeFinalizer")'
      /\ Deleting /\ ~run'.failed => run'.pc # "deleteProject" /\ run'.pc \notin Ending \cup {"saveUsage", "removeFinalizer"}
  BY <1>2 DEF SameReconcile, Deleting, At, Ending
<1> QED BY <1>3, <1>4, <1>5, <1>6 DEF ProductIsTidy, At, Copied

LEMMA AppsStep ==
  ASSUME AppsAreTidy, UNCHANGED <<runtimes, apps, abandoned>>, SameReconcile,
         ~run'.failed /\ AppSynced' => ~run.failed /\ AppSynced
  PROVE  AppsAreTidy'
<1>1. \A r : (Exists(r)' <=> Exists(r)) /\ (Settled(r)' <=> Settled(r))
  BY DEF Exists, Settled, Live
<1> QED BY <1>1 DEF AppsAreTidy, SameReconcile

LEMMA HooksStep ==
  ASSUME HooksAreTidy, UNCHANGED <<runtimes, left, hooks>>, SameReconcile,
         faults < MaxFaults => faults' < MaxFaults,
         run'.new.hook = run.new.hook, run'.new.space = run.new.space \/ (Deploying /\ ~run'.failed),
         ~run'.failed /\ HookRemoved' => ~run.failed /\ HookRemoved,
         Deploying /\ run'.failed /\ ~run.failed =>
           faults' < MaxFaults \/ run.new.space = run.old.space \/ HookRemoved,
         Deploying <=> ~Deleting
  PROVE  HooksAreTidy'
<1>1. \A r, s : ClaimsHook(r, s)' <=> ClaimsHook(r, s)
  BY DEF ClaimsHook, Live, Exists
<1>2. /\ HookIsGone' <=> HookIsGone
      /\ Deploying' <=> Deploying
      /\ Deleting' <=> Deleting
      /\ run'.rt = run.rt /\ run'.old = run.old
  BY DEF HookIsGone, SameReconcile, Deploying, Deleting
<1>3. \A s \in Spaces : hooks'[s] # NoRepo =>
        (s \in left' /\ faults' < MaxFaults) \/ \E r \in Names : ClaimsHook(r, s)'
  BY <1>1 DEF HooksAreTidy
<1> QED BY <1>2, <1>3 DEF HooksAreTidy

LEMMA SourcesStep ==
  ASSUME SourcesAreThere, UNCHANGED <<runtimes, late, codeRepos, gitlab, calendar, cached>>,
         SameReconcile, run'.repos = run.repos,
         run'.pc \notin {"listen", "forgetRepos", "unlistenRepos"},
         faults' = MaxFaults => faults = MaxFaults,
         faults' = MaxFaults /\ run.pc \in Unlistening =>
           run'.pc \in Unlistening /\ ("calendar" \notin run.kinds => "calendar" \notin run'.kinds),
         Deploying /\ run'.pc \in Unlistening => run.pc \in Unlistening
  PROVE  SourcesAreThere'
<1>1. ReposAreThere'
  BY DEF SourcesAreThere, ReposAreThere, SameReconcile
<1>2. CalendarsAreThere'
  BY DEF SourcesAreThere, CalendarsAreThere, SameReconcile, Deploying
<1> QED BY <1>1, <1>2 DEF SourcesAreThere

-----------------------------------------------------------------------------
(* Accounts and permissions from one call to the next.                      *)

LEMMA CallFacts ==
  ASSUME Inv, EventsInOrder, run.pc \in Calls
  PROVE  /\ run.pc \notin {"idle", "addFinalizer", "validate", "getUsage", "saveUsage", "saveStatus",
                           "removeFinalizer"}
         /\ Copied /\ ~run.failed /\ run.rt \in Names /\ (Deploying <=> ~Deleting)
         /\ ~At("saveStatus") /\ ~At("removeFinalizer") /\ Record = run.usage
<1>1. /\ run.pc \notin {"idle", "addFinalizer", "validate", "getUsage", "saveUsage", "saveStatus",
                        "removeFinalizer"}
      /\ Copied
  BY DEF Calls, Copied, PC
<1>2. run.rt \in Names /\ (Deploying <=> ~Deleting)
  BY <1>1, RunFacts
<1>3. ~run.failed
  BY <1>1, <1>2 DEF EventsInOrder, RunIsCalm, FromSaved
<1> QED BY <1>1, <1>2, <1>3 DEF Record, At

\* What a call may add to the accounts and their permissions.
OwnAccount(a) == Deploying /\ a = run.spec.account
AccountsGrow ==
  /\ \A a \in Accounts : HasAccount(a)' \/ roles'[a].exists =>
       HasAccount(a) \/ roles[a].exists \/ OwnAccount(a)
  /\ \A a \in Accounts : \A p \in roles'[a].perms :
       p \in roles[a].perms \/ (OwnAccount(a) /\ p \in Perms(run.spec))
  /\ ns'[Product] = "none" => accounts' = {}

LEMMA SameAccountsGrow ==
  ASSUME Inv, UNCHANGED <<accounts, roles>>, ns'[Product] = ns[Product], AccountsAreClaimed
  PROVE  AccountsGrow
  BY DEF AccountsGrow, AccountsAreClaimed, HasAccount, Operable

LEMMA ClaimedStep ==
  ASSUME Inv, EventsInOrder, ObjectsAreTidy, AccountsAreClaimed, run.pc # "idle", UNCHANGED runtimes,
         AccountsGrow
  PROVE  AccountsAreClaimed'
<1>1. PICK q \in Names : q = run.rt
  BY RunFacts
<1>2. \A a : OwnAccount(a) => /\ ClaimsAccount(q, a)
                              /\ \A p \in Perms(run.spec) : ClaimsPerm(q, a, p)
  BY <1>1, OwnRun DEF OwnAccount
<1>3. \A a \in Accounts : HasAccount(a)' \/ roles'[a].exists => \E r \in Names : ClaimsAccount(r, a)'
  <2> SUFFICES ASSUME NEW a \in Accounts, HasAccount(a)' \/ roles'[a].exists
               PROVE  \E r \in Names : ClaimsAccount(r, a)'
    OBVIOUS
  <2>1. HasAccount(a) \/ roles[a].exists \/ OwnAccount(a)
    BY DEF AccountsGrow
  <2>2. \E r \in Names : ClaimsAccount(r, a)
    BY <1>2, <2>1 DEF AccountsAreClaimed
  <2> QED BY <2>2, ClaimsAreSame
<1>4. \A a \in Accounts : \A p \in roles'[a].perms : \E r \in Names : ClaimsPerm(r, a, p)'
  <2> SUFFICES ASSUME NEW a \in Accounts, NEW p \in roles'[a].perms
               PROVE  \E r \in Names : ClaimsPerm(r, a, p)'
    OBVIOUS
  <2>1. p \in roles[a].perms \/ (OwnAccount(a) /\ p \in Perms(run.spec))
    BY DEF AccountsGrow
  <2>2. \E r \in Names : ClaimsPerm(r, a, p)
    BY <1>2, <2>1 DEF AccountsAreClaimed
  <2> QED BY <2>2, ClaimsAreSame
<1>5. ns'[Product] = "none" => accounts' = {}
  BY DEF AccountsGrow
<1> QED BY <1>3, <1>4, <1>5 DEF AccountsAreClaimed

\* What was left of the old account stays so.
LEMMA LeftStays ==
  ASSUME Inv, run.pc # "idle", UNCHANGED runtimes, SameReconcile, AccountsGrow
  PROVE  /\ AccountIsLeft => AccountIsLeft'
         /\ \A p : PermIsLeft(p) => PermIsLeft(p)'
         /\ OldIsLeft => OldIsLeft'
<1>1. PICK a \in Accounts \cup {NoAccount} : a = run.old.account
  BY RunFacts DEF Cache
<1>2. /\ run'.old = run.old /\ run'.spec = run.spec /\ run'.rt = run.rt /\ (Deploying' <=> Deploying)
      /\ Others' = Others
  BY DEF SameReconcile, Deploying, Others
<1>3. a \in Accounts /\ (HasAccount(a)' \/ roles'[a].exists) =>
        HasAccount(a) \/ roles[a].exists \/ (Deploying /\ a = run.spec.account)
  BY DEF AccountsGrow, OwnAccount
<1>4. \A p : a \in Accounts /\ p \in roles'[a].perms =>
        p \in roles[a].perms \/ (Deploying /\ a = run.spec.account /\ p \in Perms(run.spec))
  BY DEF AccountsGrow, OwnAccount
<1>5. \A r, p : (ClaimsAccount(r, a)' <=> ClaimsAccount(r, a)) /\ (ClaimsPerm(r, a, p)' <=> ClaimsPerm(r, a, p))
  BY ClaimsAreSame
<1>6. AccountIsLeft <=>
        (a \in Accounts /\ (HasAccount(a) \/ roles[a].exists) =>
           (Deploying /\ a = run.spec.account) \/ \E r \in Others : ClaimsAccount(r, a))
  BY <1>1 DEF AccountIsLeft
<1>7. AccountIsLeft' <=>
        (a \in Accounts /\ (HasAccount(a)' \/ roles'[a].exists) =>
           (Deploying /\ a = run.spec.account) \/ \E r \in Others : ClaimsAccount(r, a)')
  BY <1>1, <1>2 DEF AccountIsLeft, HasAccount, Operable, ClaimsAccount, Live, Exists
<1>8. AccountIsLeft => AccountIsLeft'
  BY <1>3, <1>5, <1>6, <1>7
<1>9. ASSUME NEW p PROVE PermIsLeft(p) => PermIsLeft(p)'
  <2>1. PermIsLeft(p) <=>
          (a \in Accounts /\ p \in roles[a].perms =>
             (Deploying /\ a = run.spec.account /\ p \in Perms(run.spec))
             \/ \E r \in Others : ClaimsPerm(r, a, p))
    BY <1>1 DEF PermIsLeft
  <2>2. PermIsLeft(p)' <=>
          (a \in Accounts /\ p \in roles'[a].perms =>
             (Deploying /\ a = run.spec.account /\ p \in Perms(run.spec))
             \/ \E r \in Others : ClaimsPerm(r, a, p)')
    BY <1>1, <1>2 DEF PermIsLeft, ClaimsPerm, Live, Exists
  <2> QED BY <1>4, <1>5, <2>1, <2>2
<1>10. OldIsLeft => OldIsLeft'
  BY <1>2, <1>8, <1>9 DEF OldIsLeft
<1> QED BY <1>8, <1>9, <1>10

LEMMA LostIsSame ==
  ASSUME UNCHANGED <<runtimes, recorded, late>>, NEW u, Claimed(u)
  PROVE  \A x \in u.account :
           /\ ClaimsAccount(x.runtime, x.account)'
           /\ Lost(x.runtime)' \/ \A p \in x.perms : ClaimsPerm(x.runtime, x.account, p)'
<1>1. \A r : Lost(r)' <=> Lost(r)
  BY DEF Lost, AtRest, Settled, Live
<1>2. \A r, a, p : (ClaimsAccount(r, a)' <=> ClaimsAccount(r, a)) /\ (ClaimsPerm(r, a, p)' <=> ClaimsPerm(r, a, p))
  BY ClaimsAreSame
<1> QED BY <1>1, <1>2 DEF Claimed

LEMMA AccountsFrame ==
  ASSUME Inv, EventsInOrder, ObjectsAreTidy, AccountsAreTidy, run.pc \in Calls,
         UNCHANGED <<runtimes, recorded, late, usage>>, SameReconcile, AccountsGrow,
         Claimed(run'.usage), run.stale => AccountIsExact(run'.usage),
         NewIsTidy', DeploymentIsTidy', DeletionIsTidy'
  PROVE  AccountsAreTidy'
<1>1. AccountsAreClaimed'
  BY CallFacts, ClaimedStep DEF AccountsAreTidy
<1>2. UsageIsClaimed'
  <2>1. Claimed(usage)
    BY DEF AccountsAreTidy, UsageIsClaimed
  <2>2. \A x \in usage'.account :
           /\ ClaimsAccount(x.runtime, x.account)'
           /\ Lost(x.runtime)' \/ \A p \in x.perms : ClaimsPerm(x.runtime, x.account, p)'
    BY <2>1, LostIsSame
  <2>3. \A x \in run'.usage.account :
           /\ ClaimsAccount(x.runtime, x.account)'
           /\ Lost(x.runtime)' \/ \A p \in x.perms : ClaimsPerm(x.runtime, x.account, p)'
    BY LostIsSame
  <2> QED BY <2>2, <2>3 DEF UsageIsClaimed, Claimed
<1>3. StaleIsExact'
  <2>1. run.rt \in Names /\ run.stale => AccountIsExact(usage)
    BY DEF AccountsAreTidy, StaleIsExact
  <2> QED BY <2>1 DEF StaleIsExact, AccountIsExact, SameReconcile
<1> QED BY <1>1, <1>2, <1>3 DEF AccountsAreTidy

\* A call that changes neither the copy of the record nor what is saved.
LEMMA NewTidyStep ==
  ASSUME Inv, EventsInOrder, ObjectsAreTidy, AccountsAreTidy, run.pc \in Calls,
         UNCHANGED <<runtimes, recorded, late, usage>>, SameReconcile, AccountsGrow,
         run'.usage = run.usage, run'.new.account = run.new.account, run'.new.perms = run.new.perms,
         run'.pc \notin {"saveStatus", "removeFinalizer"}
  PROVE  /\ Claimed(run'.usage) /\ (run.stale => AccountIsExact(run'.usage)) /\ NewIsTidy'
<1>1. Copied /\ run.rt \in Names /\ Record = run.usage /\ ~At("saveStatus")
  BY CallFacts
<1>2. Record' = run.usage
  BY DEF Record
<1>3. Claimed(run'.usage) /\ (run.stale => AccountIsExact(run'.usage))
  BY <1>1 DEF AccountsAreTidy, UsageIsClaimed, StaleIsExact, Claimed, AccountIsExact
<1>4. /\ OldIsLeft => OldIsLeft'
      /\ RecordIsExact => RecordIsExact'
      /\ NoUse(Record) => NoUse(Record)'
  BY <1>1, <1>2, CallFacts, LeftStays
     DEF RecordIsExact, AccountIsExact, PermsAreExact, NoUse, SameReconcile
<1>5. NewIsTidy
  BY DEF AccountsAreTidy
<1>6. (Deploying' <=> Deploying) /\ (Deleting' <=> Deleting) /\ run'.rt = run.rt /\ run'.old = run.old
  BY DEF SameReconcile, Deploying, Deleting
<1> QED BY <1>3, <1>4, <1>5, <1>6 DEF NewIsTidy

LEMMA AccountsStep ==
  ASSUME Inv, EventsInOrder, ObjectsAreTidy, AccountsAreTidy, run.pc \in Calls,
         UNCHANGED <<runtimes, recorded, late, usage>>, SameReconcile, AccountsGrow,
         run'.usage = run.usage, run'.new.account = run.new.account, run'.new.perms = run.new.perms,
         run'.pc \notin {"saveStatus", "removeFinalizer"},
         ~run'.failed => DeploymentIsTidy' /\ DeletionIsTidy'
  PROVE  AccountsAreTidy'
<1>1. Claimed(run'.usage) /\ (run.stale => AccountIsExact(run'.usage)) /\ NewIsTidy'
  BY NewTidyStep
<1>2. DeploymentIsTidy' /\ DeletionIsTidy'
  BY DEF DeploymentIsTidy, DeletionIsTidy
<1> QED BY <1>1, <1>2, AccountsFrame

\* Beyond the accounts there is nothing to show of them.
LEMMA ProgressStep ==
  ASSUME Inv, EventsInOrder, ObjectsAreTidy, AccountsAreTidy, run.pc \in Calls,
         UNCHANGED <<runtimes, recorded, late, usage>>, SameReconcile, AccountsGrow,
         run'.usage = run.usage, run'.pc \notin {"saveStatus", "removeFinalizer"},
         Deploying => \/ run'.pc \in FromSynced /\ run.pc \in FromSynced
                      \/ run'.pc \in {"createProject", "addProductUser"},
         Deleting => /\ run'.pc \notin {"revokeOld", "deleteAccount"}
                     /\ run'.pc \in {"deleteSpace"} \cup Ended =>
                          run.pc \in {"deleteSpace"} \cup Ended /\ run'.new.account = run.new.account
  PROVE  DeploymentIsTidy' /\ DeletionIsTidy'
<1>1. /\ Copied /\ run.rt \in Names /\ Record = run.usage /\ ~At("saveStatus") /\ ~run.failed
      /\ Deploying <=> ~Deleting
  BY CallFacts
<1>2. Record' = run.usage
  BY DEF Record
<1>3. (Deploying' <=> Deploying) /\ (Deleting' <=> Deleting) /\ run'.spec = run.spec /\ run'.rt = run.rt
  BY DEF SameReconcile, Deploying, Deleting
<1>4. CASE Deploying
  <2>1. ~DeletionIsTidy' => FALSE
    BY <1>1, <1>3, <1>4 DEF DeletionIsTidy
  <2>2. CASE run'.pc \in {"createProject", "addProductUser"}
    <3>1. /\ run'.pc \notin {"revokeOld", "dropUser"} \cup FromLeft /\ run'.pc \notin FromGranted
          /\ run'.pc \notin FromSynced /\ run'.pc \notin {"deleteAccount", "grant", "revoke"}
      BY <2>2 DEF FromLeft, FromSpace, FromAccount, FromUser, FromRole, FromGranted, FromSynced,
                  FromSaved, ListeningPCs, Unlistening
    <3> QED BY <2>1, <3>1 DEF DeploymentIsTidy, At, FromLeft
  <2>3. CASE run'.pc \in FromSynced /\ run.pc \in FromSynced
    <3>1. run'.pc \notin {"revokeOld", "dropUser", "deleteAccount", "grant", "revoke"}
      BY <2>3 DEF FromSynced, FromSaved, ListeningPCs, Unlistening
    <3>2. run.pc \in FromLeft /\ run.pc \in FromGranted
      BY <2>3 DEF FromLeft, FromSpace, FromAccount, FromUser, FromRole, FromGranted
    <3>3. AccountIsLeft /\ OldIsLeft /\ AccountIsExact(Record) /\ RecordIsExact
      BY <1>1, <1>4, <2>3, <3>2 DEF AccountsAreTidy, DeploymentIsTidy
    <3>4. AccountIsLeft' /\ OldIsLeft'
      BY <1>1, <3>3, LeftStays, CallFacts
    <3>5. AccountIsExact(Record)' /\ RecordIsExact'
      BY <1>1, <1>2, <1>3, <3>3 DEF RecordIsExact, AccountIsExact, PermsAreExact
    <3> QED BY <2>1, <3>1, <3>4, <3>5 DEF DeploymentIsTidy, At
  <2> QED BY <1>4, <2>2, <2>3
<1>5. CASE Deleting
  <2>1. DeploymentIsTidy'
    BY <1>1, <1>3, <1>5 DEF DeploymentIsTidy
  <2>2. run'.pc \in {"deleteSpace"} \cup Ended => run'.new.account = NoAccount
    BY <1>1, <1>5 DEF AccountsAreTidy, DeletionIsTidy
  <2> QED BY <1>5, <2>1, <2>2 DEF DeletionIsTidy, At
<1> QED BY <1>1, <1>4, <1>5

-----------------------------------------------------------------------------
(* A call that leaves alone what is to be saved, applications and hooks.     *)

\* The stages of the reconcile that matter to these are as before.
SameStage ==
  /\ run'.pc \notin Ended \cup FromSaved
  /\ Deploying => /\ run'.pc \in FromSynced => run.pc \in FromSynced
                  /\ run'.pc \notin FromSpace => run.pc \notin FromSpace
                  /\ run'.pc \in HookSynced <=> run.pc \in HookSynced
  /\ Deleting => (run'.pc \in {"app", "deleteSpace"} \cup Leaving => run.pc \in Leaving)

LEMMA TidyCall ==
  ASSUME Inv, EventsInOrder, TidyInOrder, run.pc \in Calls,
         UNCHANGED <<apps, usage, hooks, objectVars, history>>, SameReconcile,
         UNCHANGED faults \/ Fault,
         SpacesGrow,
         run'.usage.runtimes = run.usage.runtimes, Deploying => SameNew,
         run'.new.space = run.new.space, run'.new.hook = run.new.hook,
         \/ Fails /\ (Fault \/ Deleting \/ run.new.space = run.old.space \/ HookRemoved \/ faults < MaxFaults)
         \/ ~run'.failed /\ SameStage,
         SourcesAreThere', AccountsAreTidy'
  PROVE  TidyInOrder'
<1>1. /\ run.pc # "idle" /\ ~run.failed /\ (Deploying <=> ~Deleting) /\ run.rt \in Names
      /\ Deploying' <=> Deploying
  BY CallFacts DEF SameReconcile, Deploying
<1>2. UNCHANGED <<runtimes, late, left, abandoned>>
  BY DEF objectVars, history
<1>3. ObjectsAreTidy /\ SpacesAreTidy /\ ProductIsTidy /\ AppsAreTidy /\ HooksAreTidy
  BY DEF TidyInOrder
<1>4. (faults < MaxFaults => faults' < MaxFaults) /\ (Fault => faults' < MaxFaults)
  BY FaultsGrow
<1>5. CASE Fails
  <2>1. run'.failed /\ run'.pc = "saveUsage" /\ run'.pc \in FromSpace
    BY <1>5 DEF Fails, FromSpace, FromAccount, FromUser, FromRole, FromGranted, FromSynced, FromSaved
  <2>2. NewIsMade'
    BY <1>3, <2>1, NewStep
  <2>3. ObjectsAreTidy'
    BY <1>2, <1>3, <2>2, ObjectsStep
  <2>4. SpacesAreTidy'
    BY <1>1, <1>2, <1>3, <2>1, SpacesStep
  <2>5. ProductIsTidy'
    BY <1>2, <1>3, <2>1, ProductStep
  <2>6. AppsAreTidy'
    BY <1>2, <1>3, <2>1, AppsStep
  <2>7. Fault \/ Deleting \/ run.new.space = run.old.space \/ HookRemoved \/ faults < MaxFaults
    BY <1>5, <2>1
  <2>8. HooksAreTidy'
    BY <1>1, <1>2, <1>3, <1>4, <2>1, <2>7, HooksStep
  <2> QED BY <2>3, <2>4, <2>5, <2>6, <2>8 DEF TidyInOrder
<1>6. CASE ~run'.failed
  <2>1. SameStage
    BY <1>6 DEF Fails
  <2>2. /\ run'.pc \notin Ended \cup FromSaved
        /\ run'.pc \notin Ending \cup {"saveUsage", "removeFinalizer"} /\ run'.pc # "removeFinalizer"
    BY <2>1 DEF SameStage, Ended
  <2>3. NewIsMade'
    BY <1>1, <1>3, <2>1, <2>2, NewStep DEF SameStage
  <2>4. ObjectsAreTidy'
    BY <1>2, <1>3, <2>3, ObjectsStep
  <2>5. SpacesAreTidy'
    BY <1>1, <1>2, <1>3, <2>1, <2>2, SpacesStep DEF SameStage
  <2>6. ProductIsTidy'
    BY <1>2, <1>3, <2>2, ProductStep
  <2>7. AppSynced' => AppSynced
    BY <1>1, <2>1, <2>2 DEF AppSynced, SameStage
  <2>8. AppsAreTidy'
    BY <1>1, <1>2, <1>3, <2>7, AppsStep
  <2>9. HookRemoved' => HookRemoved
    BY <1>1, <2>1, <2>2 DEF HookRemoved, SameStage
  <2>10. HooksAreTidy'
    BY <1>1, <1>2, <1>3, <1>4, <1>6, <2>9, HooksStep
  <2> QED BY <2>4, <2>5, <2>6, <2>8, <2>10 DEF TidyInOrder
<1> QED BY <1>5, <1>6

\* A call fails without an effect, or its answer is lost.
LEMMA FellFacts ==
  ASSUME Inv, EventsInOrder, run.pc \in Calls, run' = Failed
  PROVE  /\ Fails /\ SameReconcile /\ run'.new = run.new /\ run'.usage = run.usage
         /\ run'.repos = run.repos /\ SameNew
         /\ run'.pc \notin {"saveStatus", "removeFinalizer", "listen", "forgetRepos", "unlistenRepos"}
         /\ run'.pc \notin Unlistening
<1>1. run \in RunType
  BY CallFacts, RunFacts
<1>2. /\ run'.failed /\ run'.pc = "saveUsage" /\ SameReconcile /\ run'.new = run.new
      /\ run'.usage = run.usage
  BY <1>1, FailedFacts DEF SameReconcile
<1>3. run'.repos = run.repos
  BY <1>1 DEF Failed, RunType
<1> QED BY <1>2, <1>3 DEF Fails, SameNew, Unlistening

LEMMA FellTidy ==
  ASSUME Inv, EventsInOrder, TidyInOrder, run.pc \in Calls, run' = Failed,
         UNCHANGED <<apps, usage, hooks, objectVars, history>>,
         \/ Fault
         \/ UNCHANGED faults /\ (Deleting \/ run.new.space = run.old.space \/ HookRemoved \/ faults < MaxFaults),
         SpacesGrow,
         AccountsGrow, SourcesAreThere'
  PROVE  TidyInOrder'
<1>1. /\ Fails /\ SameReconcile /\ run'.new = run.new /\ run'.usage = run.usage /\ SameNew
      /\ run'.pc \notin {"saveStatus", "removeFinalizer"} /\ run'.failed
  BY FellFacts DEF Fails
<1>2. UNCHANGED <<runtimes, late, recorded>> /\ ObjectsAreTidy /\ AccountsAreTidy
  BY DEF objectVars, history, TidyInOrder
<1>3. AccountsAreTidy'
  BY <1>1, <1>2, AccountsStep
<1> QED BY <1>1, <1>3, TidyCall

\* Nothing is listened to that was not before.
LEMMA SameSources ==
  ASSUME Inv, EventsInOrder, TidyInOrder, run.pc \in Calls, UNCHANGED <<listenerVars, objectVars>>,
         SameReconcile, run'.repos = run.repos, UNCHANGED faults \/ Fault,
         run.pc \notin Unlistening \/ Fault,
         run'.pc \notin Unlistening \cup {"listen", "forgetRepos"}
  PROVE  SourcesAreThere'
<1>1. UNCHANGED <<runtimes, late, codeRepos, gitlab, calendar, cached>>
  BY DEF objectVars, listenerVars
<1>2. (Fault => faults' < MaxFaults) /\ (faults' = MaxFaults => faults = MaxFaults)
  BY FaultsGrow
<1>3. faults' < MaxFaults => faults' # MaxFaults
  <2>1. faults \in 0..MaxFaults /\ MaxFaults \in Nat
    BY SpecsAssumption DEF Inv, RestTyped
  <2> QED BY <2>1 DEF Fault
<1>4. run'.pc \notin {"listen", "forgetRepos", "unlistenRepos"} /\ run'.pc \notin Unlistening
  BY DEF Unlistening
<1> QED BY <1>1, <1>2, <1>3, <1>4, SourcesStep DEF TidyInOrder

LEMMA CallFailsTidy == Inv /\ EventsInOrder /\ TidyInOrder /\ CallFails => TidyInOrder'
<1> SUFFICES ASSUME Inv, EventsInOrder, TidyInOrder, CallFails PROVE TidyInOrder'
  OBVIOUS
<1>1. run.pc \in Calls /\ run' = Failed /\ Fault
      /\ UNCHANGED <<clusterVars, listenerVars, hooks, objectVars, history>>
  BY DEF CallFails
<1>2. UNCHANGED <<apps, usage, accounts, roles, ns>>
  BY <1>1 DEF clusterVars
<1>3. AccountsGrow
  BY <1>2, SameAccountsGrow DEF TidyInOrder, AccountsAreTidy
<1>4. SourcesAreThere'
  BY <1>1, FellFacts, SameSources
<1>5. SpacesGrow
  BY <1>2 DEF SpacesGrow, Operable
<1> QED BY <1>1, <1>2, <1>3, <1>4, <1>5, FellTidy

-----------------------------------------------------------------------------
(* The account of the last deployment is left.                              *)

\* A call of the product, of accounts and of permissions.
Keeps == SameReconcile /\ run'.repos = run.repos /\ run'.failed = run.failed

LEMMA RunKeeps ==
  ASSUME Inv, run.pc # "idle", NEW pc
  PROVE  /\ run' = GoTo(pc) =>
              Keeps /\ run'.pc = pc /\ run'.new = run.new /\ run'.usage = run.usage
              /\ run'.todo = run.todo /\ run'.kinds = run.kinds
         /\ \A todo : run' = Do(pc, todo) =>
              Keeps /\ run'.pc = pc /\ run'.new = run.new /\ run'.usage = run.usage
              /\ run'.todo = todo /\ run'.kinds = run.kinds
         /\ \A u : run' = [run EXCEPT !.pc = pc, !.usage = u] =>
              Keeps /\ run'.pc = pc /\ run'.new = run.new /\ run'.usage = u
         /\ \A u, todo : run' = [run EXCEPT !.pc = pc, !.usage = u, !.todo = todo] =>
              Keeps /\ run'.pc = pc /\ run'.new = run.new /\ run'.usage = u /\ run'.todo = todo
         /\ \A n : run' = [run EXCEPT !.pc = pc, !.new = n] =>
              Keeps /\ run'.pc = pc /\ run'.new = n /\ run'.usage = run.usage /\ run'.todo = run.todo
<1>1. run \in RunType
  BY RunFacts
<1> QED BY ZenonT(60), <1>1 DEF RunType, GoTo, Do, Keeps, SameReconcile

LEMMA AnswerTidy ==
  ASSUME Inv, EventsInOrder, TidyInOrder, run.pc \in Calls \ Unlistening, NEW next, Answer(next),
         UNCHANGED <<apps, usage, listenerVars, hooks, objectVars, history>>,
         SpacesGrow, AccountsGrow,
         run' = next => /\ Keeps /\ SameStage /\ run'.pc \notin Unlistening \cup {"listen", "forgetRepos"}
                        /\ run'.usage.runtimes = run.usage.runtimes /\ (Deploying => SameNew)
                        /\ run'.new.space = run.new.space /\ run'.new.hook = run.new.hook
                        /\ AccountsAreTidy'
  PROVE  TidyInOrder'
<1>1. CASE run' = next /\ UNCHANGED faults
  <2>1. /\ SameReconcile /\ run'.repos = run.repos /\ ~run'.failed
    BY <1>1, CallFacts DEF Keeps
  <2>2. SourcesAreThere'
    BY <1>1, <2>1, SameSources
  <2> QED BY <1>1, <2>1, <2>2, TidyCall
<1>2. CASE run' = Failed /\ Fault
  <2>1. SourcesAreThere'
    BY <1>2, FellFacts, SameSources
  <2> QED BY <1>2, <2>1, FellTidy
<1> QED BY <1>1, <1>2 DEF Answer

\* What the copy of the record has of the others, and of the runtime itself.
LEMMA OthersUse ==
  ASSUME Inv, EventsInOrder, ObjectsAreTidy, AccountsAreTidy, run.pc \in Calls,
         NEW x \in run.usage.account, x.runtime # run.rt
  PROVE  /\ x.runtime \in Others /\ ClaimsAccount(x.runtime, x.account)
         /\ Deleting \/ ~Complete(run.old, run.spec) =>
              \A p \in x.perms : ClaimsPerm(x.runtime, x.account, p)
<1>1. PICK q \in Names : q = run.rt
  BY CallFacts
<1>2. x.runtime \in Others
  <2>1. run.usage \in Usage
    BY CallFacts, RunFacts
  <2> QED BY <2>1 DEF Usage, AccountUse, Others
<1>3. ClaimsAccount(x.runtime, x.account)
      /\ (Lost(x.runtime) \/ \A p \in x.perms : ClaimsPerm(x.runtime, x.account, p))
  BY CallFacts DEF AccountsAreTidy, UsageIsClaimed, Claimed
<1>4. Deleting \/ ~Complete(run.old, run.spec) => ~Lost(x.runtime)
  <2>1. Exists(q) /\ (Settled(q) => Deploying /\ Complete(run.old, run.spec))
    BY <1>1, CallFacts, OwnRun
  <2>2. Lost(x.runtime) => AtRest(q)
    BY <1>1 DEF Lost
  <2> QED BY <2>1, <2>2, CallFacts DEF AtRest, Exists
<1> QED BY <1>2, <1>3, <1>4

LEMMA OwnUse ==
  ASSUME Inv, EventsInOrder, ObjectsAreTidy, AccountsAreTidy, run.pc \in Calls,
         NEW x \in run.usage.account, x.runtime = run.rt
  PROVE  x.account = run.old.account \/ (Deploying /\ x.account = run.spec.account)
<1>1. PICK q \in Names : q = run.rt
  BY CallFacts
<1>2. ClaimsAccount(q, x.account) /\ (run.stale => AccountIsExact(run.usage))
  BY <1>1, CallFacts DEF AccountsAreTidy, UsageIsClaimed, Claimed, StaleIsExact
<1>3. /\ runtimes[q].cache = run.old /\ (Live(q) <=> Deploying)
      /\ ~run.stale => runtimes[q].spec = run.spec
      /\ run.stale => Deploying
  BY <1>1, CallFacts, OwnRun
<1> QED BY <1>2, <1>3 DEF ClaimsAccount, AccountIsExact

\* Another runtime has the account that is not removable.
LEMMA SharedIsClaimed ==
  ASSUME Inv, EventsInOrder, ObjectsAreTidy, AccountsAreTidy, run.pc \in Calls, ~Removable
  PROVE  AccountIsLeft
<1>1. PICK x \in run.usage.account : x.account = run.old.account /\ x.runtime # run.rt
  BY DEF Removable, AccountIsRemovable, UsesOf, Me
<1> QED BY <1>1, OthersUse DEF AccountIsLeft

\* What is not to be revoked another runtime has.
LEMMA OldPermsAreLeft ==
  ASSUME Inv, EventsInOrder, ObjectsAreTidy, AccountsAreTidy, run.pc \in Calls,
         Deploying => run.old.account # run.spec.account,
         NEW p \in run.old.perms \ OldPerms
  PROVE  PermIsLeft(p)
<1>1. PICK x \in run.usage.account : x.account = run.old.account /\ x.runtime # run.rt /\ p \in x.perms
  BY DEF OldPerms, PermsUsed, UsesOf, Me
<1>2. Deleting \/ ~Complete(run.old, run.spec)
  BY CallFacts DEF Complete
<1> QED BY <1>1, <1>2, OthersUse DEF PermIsLeft

LEMMA LeavingTidy ==
  ASSUME Inv, EventsInOrder, TidyInOrder, run.pc \in Leaving
  PROVE  /\ ObjectsAreTidy /\ AccountsAreTidy /\ SpacesAreTidy
         /\ run.pc \in Calls \ Unlistening /\ run.pc # "idle" /\ ~run.failed
         /\ run.pc \notin FromSpace /\ run.pc \notin HookSynced /\ run.pc \notin FromSynced
         /\ run.old.account \in Accounts /\ (Deploying => run.old.account # run.spec.account)
         /\ Deploying => run.new.space = run.old.space
<1>1. run.pc \in Calls \ Unlistening /\ run.pc \notin FromSpace /\ run.pc \notin HookSynced
      /\ run.pc \notin FromSynced /\ run.pc # "idle"
  BY DEF Calls, PC, Leaving, Unlistening, FromSpace, FromAccount, FromUser, FromRole, FromGranted,
         FromSynced, FromSaved, ListeningPCs, HookSynced
<1> QED BY <1>1, CallFacts, LeavingFacts DEF TidyInOrder, SpacesAreTidy

\* The steps to another step of these.
LEMMA LeavingStage ==
  ASSUME Inv, EventsInOrder, TidyInOrder, run.pc \in Leaving, SameReconcile,
         run'.pc \in Leaving \cup (IF Deploying THEN {"createSpace"} ELSE {"deleteSpace"})
  PROVE  SameStage /\ run'.pc \notin Unlistening \cup {"listen", "forgetRepos", "saveStatus", "removeFinalizer"}
<1>1. run'.pc \in Leaving \cup {"createSpace", "deleteSpace"}
  OBVIOUS
<1>2. /\ run'.pc \notin Ended \cup FromSaved
      /\ run'.pc \notin FromSynced /\ run'.pc \notin HookSynced
      /\ run'.pc \notin Unlistening \cup {"listen", "forgetRepos", "saveStatus", "removeFinalizer"}
  BY <1>1 DEF Leaving, Unlistening, Ended, Ending, FromSynced, FromSaved, ListeningPCs, HookSynced
<1> QED BY <1>2, LeavingTidy DEF SameStage

LEMMA LeftTidy ==
  ASSUME Inv, EventsInOrder, TidyInOrder, run.pc \in Leaving, run' = Left,
         UNCHANGED <<runtimes, recorded, late, usage>>, AccountsGrow, OldIsLeft'
  PROVE  /\ Keeps /\ run'.pc = (IF Deploying THEN "createSpace" ELSE "deleteSpace")
         /\ run'.usage.runtimes = run.usage.runtimes /\ (Deploying => SameNew)
         /\ run'.new.space = run.new.space /\ run'.new.hook = run.new.hook
         /\ AccountsAreTidy'
<1>1. /\ ObjectsAreTidy /\ AccountsAreTidy /\ run.pc \in Calls /\ run.pc # "idle" /\ ~run.failed
      /\ run.old.account \in Accounts /\ (Deploying => run.old.account # run.spec.account)
      /\ Deploying <=> ~Deleting
      /\ Copied /\ Record = run.usage /\ run.rt \in Names /\ ~At("saveStatus")
  BY LeavingTidy, CallFacts
<1>2. run \in RunType /\ run.new \in Cache /\ run.usage \in Usage
  BY <1>1, RunFacts
<1>3. PICK n : n = [run.new EXCEPT !.account = IF Deploying THEN @ ELSE NoAccount]
  OBVIOUS
<1>4. /\ n.space = run.new.space /\ n.hook = run.new.hook /\ n.perms = run.new.perms /\ n.app = run.new.app
      /\ n.account = IF Deploying THEN run.new.account ELSE NoAccount
  BY <1>2, <1>3 DEF Cache
<1>5. PICK u : u = ForgetAccount(run.usage, run.old.account, run.rt)
  OBVIOUS
<1>6. /\ u.runtimes = run.usage.runtimes
      /\ u.account = {x \in run.usage.account : ~(x.account = run.old.account /\ x.runtime = run.rt)}
  BY <1>2, <1>5 DEF ForgetAccount, Usage
<1>7. PICK pc : pc = IF Deploying THEN "createSpace" ELSE "deleteSpace"
  OBVIOUS
<1>8. run' = [run EXCEPT !.pc = pc, !.usage = u, !.new = n]
  BY <1>2, <1>3, <1>5, <1>7 DEF Left, RunType, Me
<1>9. Keeps /\ run'.pc = pc /\ run'.usage = u /\ run'.new = n
  BY <1>2, <1>8 DEF RunType, Keeps, SameReconcile
<1>10. /\ SameReconcile /\ ~run'.failed /\ (Deploying' <=> Deploying) /\ (Deleting' <=> Deleting)
       /\ run'.spec = run.spec /\ run'.rt = run.rt /\ run'.old = run.old /\ Record' = u
  BY <1>1, <1>7, <1>9 DEF Keeps, SameReconcile, Deploying, Deleting, Record
<1>11. Claimed(u)
  BY <1>1, <1>6 DEF AccountsAreTidy, UsageIsClaimed, Claimed
<1>12. \A x \in u.account : x.runtime = run.rt => Deploying /\ x.account = run.spec.account
  BY <1>1, <1>6, OwnUse
<1>13. NewIsTidy'
  <2>1. NewIsTidy
    BY <1>1 DEF AccountsAreTidy
  <2>2. RecordIsExact => RecordIsExact'
    BY <1>1, <1>6, <1>10 DEF RecordIsExact, AccountIsExact, PermsAreExact
  <2>3. Deleting => NoUse(Record)'
    BY <1>1, <1>10, <1>12 DEF NoUse
  <2> QED BY <1>1, <1>4, <1>9, <1>10, <2>1, <2>2, <2>3 DEF NewIsTidy
<1>14. DeploymentIsTidy'
  <2>1. AccountIsExact(Record)'
    BY <1>10, <1>12 DEF AccountIsExact
  <2>2. AccountIsLeft'
    BY DEF OldIsLeft
  <2>3. Deploying => run'.pc = "createSpace" /\ run'.pc \notin FromGranted /\ run'.pc \notin FromSynced
    BY <1>7, <1>9 DEF FromGranted, FromSynced, FromSaved, ListeningPCs, Unlistening
  <2> QED BY <1>10, <2>1, <2>2, <2>3 DEF DeploymentIsTidy, At
<1>15. DeletionIsTidy'
  BY <1>1, <1>4, <1>7, <1>9, <1>10 DEF DeletionIsTidy, At
<1>16. AccountsAreTidy'
  BY <1>1, <1>9, <1>10, <1>11, <1>12, <1>13, <1>14, <1>15, AccountsFrame DEF AccountIsExact
<1> QED BY <1>4, <1>6, <1>7, <1>9, <1>16 DEF SameNew

\* The old account is as it was left, in what comes next.
LEMMA LeavingStep ==
  ASSUME Inv, EventsInOrder, TidyInOrder, run.pc \in Leaving, Keeps,
         UNCHANGED <<runtimes, recorded, late, usage>>, AccountsGrow,
         run'.usage = run.usage, run'.new = run.new, run'.pc \in Leaving,
         Deploying /\ run'.pc \in {"revokeOld", "dropUser"} => AccountIsLeft',
         At("revokeOld")' => TodoIsLeft',
         At("deleteAccount")' => roles'[run.old.account] = NoRole,
         At("dropUser")' => OldIsLeft'
  PROVE  SameStage /\ run'.pc \notin Unlistening \cup {"listen", "forgetRepos"} /\ AccountsAreTidy'
<1>1. /\ ObjectsAreTidy /\ AccountsAreTidy /\ run.pc \in Calls /\ run.pc # "idle" /\ SameReconcile
      /\ Deploying <=> ~Deleting
  BY LeavingTidy, CallFacts DEF Keeps
<1>2. SameStage /\ run'.pc \notin Unlistening \cup {"listen", "forgetRepos", "saveStatus", "removeFinalizer"}
  BY <1>1, LeavingStage
<1>3. /\ run'.pc \notin FromLeft /\ run'.pc \notin FromGranted /\ run'.pc \notin FromSynced
      /\ run'.pc \notin {"grant", "revoke"} /\ run'.pc \notin {"deleteSpace"} \cup Ended
  BY DEF Leaving, FromLeft, FromSpace, FromAccount, FromUser, FromRole, FromGranted, FromSynced,
         FromSaved, ListeningPCs, Unlistening, Ended, Ending
<1>4. (Deploying' <=> Deploying) /\ (Deleting' <=> Deleting) /\ run'.old = run.old
  BY <1>1 DEF SameReconcile, Deploying, Deleting
<1>5. DeploymentIsTidy' /\ DeletionIsTidy'
  BY <1>3, <1>4 DEF DeploymentIsTidy, DeletionIsTidy, At, FromLeft
<1> QED BY <1>1, <1>2, <1>5, AccountsStep

LEMMA RevokeOldTidy ==
  ASSUME Inv, EventsInOrder, TidyInOrder, NEW p, RevokeOld(p)
  PROVE  TidyInOrder'
<1>1. /\ run.pc = "revokeOld" /\ run.pc \in Leaving
      /\ p \in run.todo /\ RevokePermission(run.old.account, p)
      /\ Answer(Do("revokeOld", run.todo \ {p}))
      /\ UNCHANGED <<ns, users, accounts, project, apps, usage>>
      /\ UNCHANGED <<listenerVars, hooks, objectVars, history>>
      /\ UNCHANGED <<runtimes, recorded, late>>
  BY DEF RevokeOld, At, Rest, Leaving, objectVars, history
<1>2. /\ ObjectsAreTidy /\ AccountsAreTidy /\ run.pc \in Calls \ Unlistening /\ run.pc # "idle"
      /\ run.rt \in Names /\ (Deploying <=> ~Deleting) /\ ~run.failed
  BY <1>1, LeavingTidy, CallFacts
<1>3. PICK a \in Accounts : a = run.old.account
  BY <1>1, LeavingTidy
<1>4. /\ roles \in [Accounts -> Role]
      /\ roles' = [roles EXCEPT ![a].perms = @ \ {p}]
  BY <1>1, <1>3 DEF Inv, RestTyped, ClusterTypeOK, RevokePermission
<1>5. \A b \in Accounts : /\ roles'[b].exists = roles[b].exists
                          /\ roles'[b].perms = IF b = a THEN roles[b].perms \ {p} ELSE roles[b].perms
  BY <1>4 DEF Role
<1>6. AccountsGrow
  BY <1>1, <1>2, <1>5 DEF AccountsGrow, AccountsAreTidy, AccountsAreClaimed, HasAccount, Operable
<1>7. SpacesGrow
  BY <1>1 DEF SpacesGrow, Operable
<1>8. /\ AccountIsLeft => AccountIsLeft'
      /\ \A x : PermIsLeft(x) => PermIsLeft(x)'
  BY <1>1, <1>2, <1>6, LeftStays, FellFacts, RunKeeps DEF Answer, Keeps
<1>9. ASSUME run' = Do("revokeOld", run.todo \ {p})
      PROVE  /\ Keeps /\ SameStage /\ run'.pc \notin Unlistening \cup {"listen", "forgetRepos"}
             /\ run'.usage.runtimes = run.usage.runtimes /\ (Deploying => SameNew)
             /\ run'.new.space = run.new.space /\ run'.new.hook = run.new.hook
             /\ AccountsAreTidy'
  <2>1. /\ Keeps /\ run'.pc = "revokeOld" /\ run'.new = run.new /\ run'.usage = run.usage
        /\ run'.todo = run.todo \ {p} /\ SameReconcile
    BY ZenonT(60), <1>2, <1>9, RunKeeps DEF Keeps
  <2>2. run'.old = run.old
    BY <2>1 DEF SameReconcile
  <2>3. PermIsLeft(p)'
    BY <1>3, <1>5, <2>2 DEF PermIsLeft
  <2>4. TodoIsLeft
    BY <1>1, <1>2 DEF AccountsAreTidy, DeploymentIsTidy, DeletionIsTidy, At
  <2>5. TodoIsLeft'
    BY <1>8, <2>1, <2>2, <2>3, <2>4 DEF TodoIsLeft
  <2>6. Deploying => AccountIsLeft'
    BY <1>1, <1>2, <1>8 DEF AccountsAreTidy, DeploymentIsTidy
  <2>7. run'.pc \in Leaving /\ ~At("deleteAccount")' /\ ~At("dropUser")'
    BY <2>1 DEF Leaving, At
  <2> QED BY <1>1, <1>6, <2>1, <2>5, <2>6, <2>7, LeavingStep DEF SameNew
<1> QED BY <1>1, <1>2, <1>6, <1>7, <1>9, AnswerTidy

LEMMA OldRevokedTidy ==
  ASSUME Inv, EventsInOrder, TidyInOrder, OldRevoked
  PROVE  TidyInOrder'
<1>1. /\ run.pc = "revokeOld" /\ run.pc \in Leaving /\ run.todo = {}
      /\ UNCHANGED <<clusterVars, listenerVars, hooks, faults, objectVars, history>>
      /\ UNCHANGED <<ns, users, accounts, roles, project, apps, usage, runtimes, recorded, late>>
  BY DEF OldRevoked, At, Goes, Leaving, objectVars, history, clusterVars
<1>2. /\ ObjectsAreTidy /\ AccountsAreTidy /\ run.pc \in Calls \ Unlistening /\ run.pc # "idle"
      /\ run.rt \in Names /\ (Deploying <=> ~Deleting) /\ ~run.failed
  BY <1>1, LeavingTidy, CallFacts
<1>3. AccountsGrow
  BY <1>1, <1>2, SameAccountsGrow DEF AccountsAreTidy
<1>4. SpacesGrow
  BY <1>1 DEF SpacesGrow, Operable
<1>5. TodoIsLeft /\ (Deploying => AccountIsLeft)
  BY <1>1, <1>2 DEF AccountsAreTidy, DeploymentIsTidy, DeletionIsTidy, At
<1>6. ~Removable => AccountIsLeft
  BY <1>2, SharedIsClaimed
<1>7. Deploying \/ ~Removable => OldIsLeft
  BY <1>1, <1>5, <1>6 DEF TodoIsLeft, OldIsLeft
<1>8. CASE Deploying /\ run' = GoTo("dropUser")
  <2>1. /\ Keeps /\ run'.pc = "dropUser" /\ run'.new = run.new /\ run'.usage = run.usage /\ SameReconcile
    BY <1>2, <1>8, RunKeeps DEF Keeps
  <2>2. OldIsLeft' /\ AccountIsLeft'
    BY <1>1, <1>2, <1>3, <1>7, <1>8, <2>1, LeftStays DEF OldIsLeft
  <2>3. run'.pc \in Leaving /\ ~At("deleteAccount")' /\ ~At("revokeOld")'
    BY <2>1 DEF Leaving, At
  <2>4. SameStage /\ run'.pc \notin Unlistening \cup {"listen", "forgetRepos"} /\ AccountsAreTidy'
    BY <1>1, <1>3, <2>1, <2>2, <2>3, LeavingStep
  <2> QED BY <1>1, <1>2, <1>3, <1>4, <1>8, <2>1, <2>4, AnswerTidy DEF Answer, SameNew
<1>9. CASE Deleting /\ Removable /\ run' = GoTo("deleteRole")
  <2>1. /\ Keeps /\ run'.pc = "deleteRole" /\ run'.new = run.new /\ run'.usage = run.usage /\ SameReconcile
    BY <1>2, <1>9, RunKeeps DEF Keeps
  <2>2. run'.pc \in Leaving /\ ~At("deleteAccount")' /\ ~At("revokeOld")' /\ ~At("dropUser")'
    BY <2>1 DEF Leaving, At
  <2>3. SameStage /\ run'.pc \notin Unlistening \cup {"listen", "forgetRepos"} /\ AccountsAreTidy'
    BY <1>1, <1>2, <1>3, <1>9, <2>1, <2>2, LeavingStep
  <2> QED BY <1>1, <1>2, <1>3, <1>4, <1>9, <2>1, <2>3, AnswerTidy DEF Answer, SameNew
<1>10. CASE Deleting /\ ~Removable /\ run' = Left
  <2>1. Continues
    BY <1>2, <1>10, LeftContinues
  <2>2. OldIsLeft'
    BY <1>1, <1>2, <1>3, <1>7, <1>10, <2>1, LeftStays DEF Continues
  <2>3. /\ Keeps /\ run'.pc = (IF Deploying THEN "createSpace" ELSE "deleteSpace")
        /\ run'.usage.runtimes = run.usage.runtimes /\ (Deploying => SameNew)
        /\ run'.new.space = run.new.space /\ run'.new.hook = run.new.hook
        /\ AccountsAreTidy'
    BY <1>1, <1>3, <1>10, <2>2, LeftTidy
  <2>4. SameStage /\ run'.pc \notin Unlistening \cup {"listen", "forgetRepos"}
    BY <1>1, <2>3, LeavingStage DEF Keeps
  <2> QED BY <1>1, <1>2, <1>3, <1>4, <1>10, <2>3, <2>4, AnswerTidy DEF Answer
<1>11. \/ Deploying /\ run' = GoTo("dropUser")
       \/ Deleting /\ Removable /\ run' = GoTo("deleteRole")
       \/ Deleting /\ ~Removable /\ run' = Left
  BY <1>2 DEF OldRevoked, Goes
<1> QED BY <1>8, <1>9, <1>10, <1>11

LEMMA DropUserTidy ==
  ASSUME Inv, EventsInOrder, TidyInOrder, DropUser
  PROVE  TidyInOrder'
<1>1. /\ run.pc = "dropUser" /\ run.pc \in Leaving
      /\ UNCHANGED <<ns, accounts, project, apps, roles, usage, listenerVars, hooks, objectVars, history>>
      /\ UNCHANGED <<runtimes, recorded, late>>
  BY DEF DropUser, At, Refuse, Leaving, objectVars, history, clusterVars
<1>2. /\ ObjectsAreTidy /\ AccountsAreTidy /\ run.pc \in Calls \ Unlistening /\ run.pc # "idle"
      /\ run.rt \in Names /\ (Deploying <=> ~Deleting) /\ ~run.failed
      /\ Deploying => run.new.space = run.old.space
  BY <1>1, LeavingTidy, CallFacts
<1>3. AccountsGrow
  BY <1>1, <1>2, SameAccountsGrow DEF AccountsAreTidy
<1>4. SpacesGrow
  BY <1>1 DEF SpacesGrow, Operable
<1>5. Deploying
  BY <1>1, <1>2, RunFacts DEF DeletePCs, Leaving, Unlistening, Ending
<1>6. CASE CanDeleteSpaceUser(run.old.space)
  <2>1. Answer(Left)
    BY <1>6 DEF DropUser
  <2>2. ASSUME run' = Left
        PROVE  /\ Keeps /\ SameStage /\ run'.pc \notin Unlistening \cup {"listen", "forgetRepos"}
               /\ run'.usage.runtimes = run.usage.runtimes /\ (Deploying => SameNew)
               /\ run'.new.space = run.new.space /\ run'.new.hook = run.new.hook
               /\ AccountsAreTidy'
    <3>1. Continues
      BY <1>2, <2>2, LeftContinues
    <3>2. OldIsLeft
      BY <1>1, <1>2, <1>5 DEF AccountsAreTidy, DeploymentIsTidy, At
    <3>3. OldIsLeft'
      BY <1>1, <1>2, <1>3, <3>1, <3>2, LeftStays DEF Continues
    <3>4. /\ Keeps /\ run'.pc = (IF Deploying THEN "createSpace" ELSE "deleteSpace")
          /\ run'.usage.runtimes = run.usage.runtimes /\ (Deploying => SameNew)
          /\ run'.new.space = run.new.space /\ run'.new.hook = run.new.hook
          /\ AccountsAreTidy'
      BY <1>1, <1>3, <2>2, <3>3, LeftTidy
    <3>5. SameStage /\ run'.pc \notin Unlistening \cup {"listen", "forgetRepos"}
      BY <1>1, <3>4, LeavingStage DEF Keeps
    <3> QED BY <3>4, <3>5
  <2> QED BY <1>1, <1>2, <1>3, <1>4, <2>1, <2>2, AnswerTidy
<1>7. CASE ~CanDeleteSpaceUser(run.old.space)
  <2>1. run' = Failed /\ UNCHANGED faults
    BY <1>7 DEF DropUser, Refuse
  <2>2. SourcesAreThere'
    BY <1>1, <1>2, <2>1, FellFacts, SameSources
  <2> QED BY <1>1, <1>2, <1>3, <1>4, <1>5, <2>1, <2>2, FellTidy
<1> QED BY <1>6, <1>7

LEMMA DeleteProductRoleTidy ==
  ASSUME Inv, EventsInOrder, TidyInOrder, DeleteProductRole
  PROVE  TidyInOrder'
<1>1. /\ run.pc = "deleteRole" /\ run.pc \in Leaving
      /\ DeleteRole(run.old.account) /\ Answer(GoTo("deleteAccount"))
      /\ UNCHANGED <<ns, users, accounts, project, apps, usage>>
      /\ UNCHANGED <<listenerVars, hooks, objectVars, history>>
      /\ UNCHANGED <<runtimes, recorded, late>>
  BY DEF DeleteProductRole, At, Rest, Leaving, objectVars, history
<1>2. /\ ObjectsAreTidy /\ AccountsAreTidy /\ run.pc \in Calls \ Unlistening /\ run.pc # "idle"
      /\ run.rt \in Names /\ (Deploying <=> ~Deleting) /\ ~run.failed
  BY <1>1, LeavingTidy, CallFacts
<1>3. PICK a \in Accounts : a = run.old.account
  BY <1>1, LeavingTidy
<1>4. \A b \in Accounts : roles'[b] = IF b = a THEN NoRole ELSE roles[b]
  BY <1>1, <1>3 DEF Inv, RestTyped, ClusterTypeOK, DeleteRole
<1>5. AccountsGrow
  BY <1>1, <1>2, <1>4 DEF AccountsGrow, AccountsAreTidy, AccountsAreClaimed, HasAccount, Operable, NoRole
<1>6. SpacesGrow
  BY <1>1 DEF SpacesGrow, Operable
<1>7. ASSUME run' = GoTo("deleteAccount")
      PROVE  /\ Keeps /\ SameStage /\ run'.pc \notin Unlistening \cup {"listen", "forgetRepos"}
             /\ run'.usage.runtimes = run.usage.runtimes /\ (Deploying => SameNew)
             /\ run'.new.space = run.new.space /\ run'.new.hook = run.new.hook
             /\ AccountsAreTidy'
  <2>1. /\ Keeps /\ run'.pc = "deleteAccount" /\ run'.new = run.new /\ run'.usage = run.usage
    BY <1>2, <1>7, RunKeeps
  <2>2. roles'[run.old.account] = NoRole
    BY <1>3, <1>4
  <2>3. run'.pc \in Leaving /\ ~At("revokeOld")' /\ ~At("dropUser")'
    BY <2>1 DEF Leaving, At
  <2> QED BY <1>1, <1>5, <2>1, <2>2, <2>3, LeavingStep DEF SameNew
<1> QED BY <1>1, <1>2, <1>5, <1>6, <1>7, AnswerTidy

LEMMA DeleteProductAccountTidy ==
  ASSUME Inv, EventsInOrder, TidyInOrder, DeleteProductAccount
  PROVE  TidyInOrder'
<1>1. /\ run.pc = "deleteAccount" /\ run.pc \in Leaving
      /\ DeleteAccount(run.old.account) /\ Answer(Left)
      /\ UNCHANGED <<ns, project, apps, roles, usage>>
      /\ UNCHANGED <<listenerVars, hooks, objectVars, history>>
      /\ UNCHANGED <<runtimes, recorded, late>>
  BY DEF DeleteProductAccount, At, Rest, Leaving, objectVars, history
<1>2. /\ ObjectsAreTidy /\ AccountsAreTidy /\ run.pc \in Calls \ Unlistening /\ run.pc # "idle"
      /\ run.rt \in Names /\ (Deploying <=> ~Deleting) /\ ~run.failed
  BY <1>1, LeavingTidy, CallFacts
<1>3. PICK a \in Accounts : a = run.old.account
  BY <1>1, LeavingTidy
<1>4. accounts' \subseteq accounts /\ ~HasAccount(a)'
  BY <1>1, <1>3 DEF DeleteAccount, HasAccount, Operable
<1>5. AccountsGrow
  BY <1>1, <1>2, <1>4 DEF AccountsGrow, AccountsAreTidy, AccountsAreClaimed, HasAccount, Operable
<1>6. SpacesGrow
  BY <1>1 DEF SpacesGrow, Operable
<1>7. ASSUME run' = Left
      PROVE  /\ Keeps /\ SameStage /\ run'.pc \notin Unlistening \cup {"listen", "forgetRepos"}
             /\ run'.usage.runtimes = run.usage.runtimes /\ (Deploying => SameNew)
             /\ run'.new.space = run.new.space /\ run'.new.hook = run.new.hook
             /\ AccountsAreTidy'
  <2>1. run'.old = run.old
    BY <1>2, <1>7, LeftContinues DEF Continues, SameReconcile
  <2>2. roles[a] = NoRole
    BY <1>1, <1>2, <1>3 DEF AccountsAreTidy, DeploymentIsTidy, DeletionIsTidy, At
  <2>3. ~(HasAccount(a)' \/ roles'[a].exists) /\ roles'[a].perms = {}
    BY <1>1, <1>4, <2>2 DEF NoRole
  <2>4. AccountIsLeft'
    BY <1>3, <2>1, <2>3 DEF AccountIsLeft, HasAccount, Operable
  <2>5. \A p : PermIsLeft(p)'
    BY <1>3, <2>1, <2>3 DEF PermIsLeft
  <2>6. OldIsLeft'
    BY <2>4, <2>5 DEF OldIsLeft
  <2>7. /\ Keeps /\ run'.pc = (IF Deploying THEN "createSpace" ELSE "deleteSpace")
        /\ run'.usage.runtimes = run.usage.runtimes /\ (Deploying => SameNew)
        /\ run'.new.space = run.new.space /\ run'.new.hook = run.new.hook
        /\ AccountsAreTidy'
    BY <1>1, <1>5, <1>7, <2>6, LeftTidy
  <2>8. SameStage /\ run'.pc \notin Unlistening \cup {"listen", "forgetRepos"}
    BY <1>1, <2>7, LeavingStage DEF Keeps
  <2> QED BY <2>7, <2>8
<1> QED BY <1>1, <1>2, <1>5, <1>6, <1>7, AnswerTidy

-----------------------------------------------------------------------------
(* The new account and its permissions.                                     *)

LEMMA AccountingTidy ==
  ASSUME Inv, EventsInOrder, TidyInOrder, run.pc \in AccountPCs
  PROVE  /\ ObjectsAreTidy /\ AccountsAreTidy /\ SpacesAreTidy
         /\ run.pc \in Calls \ Unlistening /\ run.pc # "idle" /\ ~run.failed /\ Copied
         /\ run.pc \notin HookSynced /\ run.pc \notin FromSynced
         /\ run.pc # "createSpace" => run.pc \in FromSpace
         /\ Deploying /\ ~Deleting /\ run.rt \in Names /\ Record = run.usage /\ ~At("saveStatus")
         /\ AccountIsLeft /\ (run.old.account # run.spec.account => OldIsLeft)
         /\ AccountIsExact(run.usage) /\ Claimed(run.usage)
         /\ run.pc = "revoke" => PermsAreExact(run.usage)
<1>1. /\ run.pc \in Calls \ Unlistening /\ run.pc \notin HookSynced /\ run.pc \notin FromSynced
      /\ run.pc \in FromLeft /\ (run.pc # "createSpace" => run.pc \in FromSpace)
      /\ run.pc = "revoke" => run.pc \in FromGranted
  BY DEF Calls, PC, AccountPCs, Unlistening, FromLeft, FromSpace, FromAccount, FromUser, FromRole,
         FromGranted, FromSynced, FromSaved, ListeningPCs, HookSynced
<1>2. /\ ObjectsAreTidy /\ AccountsAreTidy /\ SpacesAreTidy
  BY DEF TidyInOrder
<1>3. /\ run.pc # "idle" /\ ~run.failed /\ Deploying /\ ~Deleting /\ run.rt \in Names
      /\ Copied /\ Record = run.usage /\ ~At("saveStatus")
  BY <1>1, CallFacts, DeployingFacts
<1>4. DeploymentIsTidy /\ Claimed(run.usage)
  BY <1>2, <1>3 DEF AccountsAreTidy, UsageIsClaimed
<1>5. AccountIsLeft /\ (run.old.account # run.spec.account => OldIsLeft) /\ AccountIsExact(Record)
      /\ (run.pc = "revoke" => RecordIsExact)
  BY <1>1, <1>3, <1>4 DEF DeploymentIsTidy
<1> QED BY <1>1, <1>2, <1>3, <1>4, <1>5 DEF RecordIsExact

LEMMA AccountingStep ==
  ASSUME Inv, EventsInOrder, TidyInOrder, run.pc \in AccountPCs, Keeps,
         UNCHANGED <<runtimes, recorded, late, usage>>, AccountsGrow,
         run'.new.account = run.new.account, run'.new.perms = run.new.perms,
         run'.pc \in AccountPCs \ {"createSpace"},
         Claimed(run'.usage), AccountIsExact(run'.usage),
         PermsAreExact(run.usage) => PermsAreExact(run'.usage),
         At("grant")' => run'.todo \subseteq Perms(run.spec),
         At("revoke")' => PermsAreExact(run'.usage) /\ (run.old.account = run.spec.account => TodoIsLeft')
  PROVE  SameStage /\ run'.pc \notin Unlistening \cup {"listen", "forgetRepos"} /\ AccountsAreTidy'
<1>1. /\ ObjectsAreTidy /\ AccountsAreTidy /\ run.pc \in Calls /\ run.pc # "idle" /\ ~run.failed
      /\ run.pc \notin HookSynced /\ run.pc \notin FromSynced
      /\ Deploying /\ ~Deleting /\ run.rt \in Names /\ Record = run.usage /\ ~At("saveStatus")
      /\ AccountIsLeft /\ (run.old.account # run.spec.account => OldIsLeft)
  BY AccountingTidy
<1>2. /\ run'.pc \notin Ended \cup FromSaved /\ run'.pc \notin Unlistening \cup {"listen", "forgetRepos"}
      /\ run'.pc \notin FromSynced /\ run'.pc \notin HookSynced /\ run'.pc \in FromSpace
      /\ run'.pc \notin {"saveStatus", "removeFinalizer"}
      /\ run'.pc \in FromGranted => run'.pc = "revoke"
      /\ run'.pc \notin {"revokeOld", "dropUser", "deleteAccount"}
  BY DEF AccountPCs, Ended, Ending, FromSpace, FromAccount, FromUser, FromRole, FromGranted, FromSynced,
         FromSaved, ListeningPCs, Unlistening, HookSynced
<1>3. SameStage
  BY <1>1, <1>2 DEF SameStage
<1>4. /\ SameReconcile /\ (Deploying' <=> Deploying) /\ (Deleting' <=> Deleting)
      /\ run'.spec = run.spec /\ run'.rt = run.rt /\ run'.old = run.old /\ Record' = run'.usage
  BY <1>2 DEF Keeps, SameReconcile, Deploying, Deleting, Record
<1>5. AccountIsLeft' /\ (OldIsLeft => OldIsLeft')
  BY <1>1, <1>4, LeftStays
<1>6. AccountIsExact(Record)' /\ (PermsAreExact(run'.usage) => RecordIsExact')
  BY <1>4 DEF AccountIsExact, PermsAreExact, RecordIsExact
<1>7. NewIsTidy'
  <2>1. NewIsTidy /\ (RecordIsExact => PermsAreExact(run.usage))
    BY <1>1 DEF AccountsAreTidy, RecordIsExact
  <2> QED BY <1>1, <1>4, <1>5, <1>6, <2>1 DEF NewIsTidy
<1>8. DeploymentIsTidy'
  BY <1>1, <1>2, <1>4, <1>5, <1>6 DEF DeploymentIsTidy, At
<1>9. DeletionIsTidy'
  BY <1>1, <1>4 DEF DeletionIsTidy
<1>10. AccountsAreTidy'
  BY <1>1, <1>4, <1>7, <1>8, <1>9, AccountsFrame
<1> QED BY <1>2, <1>3, <1>10

\* A refused call would have disturbed hooks: with all of the rest in place there is none.
LEMMA NothingRefused ==
  ASSUME Inv, EventsInOrder, TidyInOrder, run.pc \in AccountPCs \ {"createSpace"}
  PROVE  /\ CanCreateAccount /\ Operable(run.spec.space)
         /\ run.pc = "createRole" => HasAccount(run.spec.account)
         /\ ns[Product] # "none"
<1>1. ~run.failed
  BY AccountingTidy
<1> QED BY <1>1, DeployingProgress DEF CanCreateAccount, HasAccount, Operable

LEMMA CreateProductAccountTidy ==
  ASSUME Inv, EventsInOrder, TidyInOrder, CreateProductAccount
  PROVE  TidyInOrder'
<1>1. run.pc = "createAccount" /\ run.pc \in AccountPCs \ {"createSpace"}
  BY DEF CreateProductAccount, At, AccountPCs
<1>2. /\ CreateAccount(run.spec.account) /\ Answer(GoTo("addUser"))
      /\ UNCHANGED <<ns, users, project, apps, roles, usage, listenerVars, hooks, objectVars, history>>
      /\ UNCHANGED <<runtimes, recorded, late>>
      /\ ns[Product] # "none"
  BY <1>1, NothingRefused DEF CreateProductAccount, objectVars, history
<1>3. /\ run.pc \in Calls \ Unlistening /\ run.pc # "idle" /\ Deploying /\ AccountsAreTidy
      /\ AccountIsExact(run.usage) /\ Claimed(run.usage)
  BY <1>1, AccountingTidy
<1>4. AccountsGrow
  BY <1>2, <1>3 DEF AccountsGrow, OwnAccount, CreateAccount, HasAccount, Operable
<1>5. SpacesGrow
  BY <1>2 DEF SpacesGrow, Operable
<1>6. ASSUME run' = GoTo("addUser")
      PROVE  /\ Keeps /\ SameStage /\ run'.pc \notin Unlistening \cup {"listen", "forgetRepos"}
             /\ run'.usage.runtimes = run.usage.runtimes /\ (Deploying => SameNew)
             /\ run'.new.space = run.new.space /\ run'.new.hook = run.new.hook
             /\ AccountsAreTidy'
  <2>1. Keeps /\ run'.pc = "addUser" /\ run'.new = run.new /\ run'.usage = run.usage
    BY <1>3, <1>6, RunKeeps
  <2>2. run'.pc \in AccountPCs \ {"createSpace"} /\ ~At("grant")' /\ ~At("revoke")'
    BY <2>1 DEF AccountPCs, At
  <2> QED BY <1>1, <1>2, <1>3, <1>4, <2>1, <2>2, AccountingStep DEF SameNew
<1> QED BY <1>2, <1>3, <1>4, <1>5, <1>6, AnswerTidy

LEMMA CreateAccountRoleTidy ==
  ASSUME Inv, EventsInOrder, TidyInOrder, CreateAccountRole
  PROVE  TidyInOrder'
<1>1. run.pc = "createRole" /\ run.pc \in AccountPCs \ {"createSpace"}
  BY DEF CreateAccountRole, At, AccountPCs
<1>2. /\ CreateRole(run.spec.account) /\ Answer(Do("grant", Perms(run.spec)))
      /\ UNCHANGED <<ns, users, accounts, project, apps, usage, listenerVars, hooks, objectVars, history>>
      /\ UNCHANGED <<runtimes, recorded, late>>
  BY <1>1, NothingRefused DEF CreateAccountRole, objectVars, history
<1>3. /\ run.pc \in Calls \ Unlistening /\ run.pc # "idle" /\ Deploying /\ AccountsAreTidy
      /\ AccountIsExact(run.usage) /\ Claimed(run.usage)
  BY <1>1, AccountingTidy
<1>4. roles \in [Accounts -> Role] /\ run.spec.account \in Accounts
  BY <1>1, DeployingFacts DEF Inv, RestTyped, ClusterTypeOK
<1>5. \A a \in Accounts : /\ roles'[a].perms = roles[a].perms
                          /\ a # run.spec.account => roles'[a] = roles[a]
  BY <1>2, <1>4 DEF CreateRole, Role
<1>6. AccountsGrow
  BY <1>2, <1>3, <1>5 DEF AccountsGrow, OwnAccount, HasAccount, Operable, AccountsAreTidy, AccountsAreClaimed
<1>7. SpacesGrow
  BY <1>2 DEF SpacesGrow, Operable
<1>8. ASSUME run' = Do("grant", Perms(run.spec))
      PROVE  /\ Keeps /\ SameStage /\ run'.pc \notin Unlistening \cup {"listen", "forgetRepos"}
             /\ run'.usage.runtimes = run.usage.runtimes /\ (Deploying => SameNew)
             /\ run'.new.space = run.new.space /\ run'.new.hook = run.new.hook
             /\ AccountsAreTidy'
  <2>1. /\ Keeps /\ run'.pc = "grant" /\ run'.new = run.new /\ run'.usage = run.usage
        /\ run'.todo = Perms(run.spec)
    BY <1>3, <1>8, RunKeeps
  <2>2. run'.pc \in AccountPCs \ {"createSpace"} /\ ~At("revoke")'
    BY <2>1 DEF AccountPCs, At
  <2> QED BY SMTT(30), <1>1, <1>2, <1>3, <1>6, <2>1, <2>2, AccountingStep DEF SameNew
<1> QED BY <1>2, <1>3, <1>6, <1>7, <1>8, AnswerTidy

LEMMA GrantTidy ==
  ASSUME Inv, EventsInOrder, TidyInOrder, NEW p, Grant(p)
  PROVE  TidyInOrder'
<1>1. run.pc = "grant" /\ run.pc \in AccountPCs \ {"createSpace"}
  BY DEF Grant, At, AccountPCs
<1>2. /\ GrantPermission(run.spec.account, p) /\ p \in run.todo /\ Answer(Do("grant", run.todo \ {p}))
      /\ UNCHANGED <<ns, users, accounts, project, apps, usage, listenerVars, hooks, objectVars, history>>
      /\ UNCHANGED <<runtimes, recorded, late>>
  BY DEF Grant, Rest, objectVars, history
<1>3. /\ run.pc \in Calls \ Unlistening /\ run.pc # "idle" /\ Deploying /\ AccountsAreTidy
      /\ AccountIsExact(run.usage) /\ Claimed(run.usage) /\ ~run.failed
  BY <1>1, AccountingTidy
<1>4. roles \in [Accounts -> Role] /\ run.spec.account \in Accounts
  BY <1>1, DeployingFacts DEF Inv, RestTyped, ClusterTypeOK
<1>5. \A a \in Accounts :
        /\ roles'[a].exists = roles[a].exists
        /\ roles'[a].perms = IF a = run.spec.account THEN roles[a].perms \cup {p} ELSE roles[a].perms
  BY <1>2, <1>4 DEF GrantPermission, Role
<1>6. run.todo \subseteq Perms(run.spec)
  BY <1>1, <1>3 DEF AccountsAreTidy, DeploymentIsTidy, At
<1>7. AccountsGrow
  BY ZenonT(60), <1>2, <1>3, <1>5, <1>6 DEF AccountsGrow, OwnAccount, HasAccount, Operable, AccountsAreTidy, AccountsAreClaimed
<1>8. SpacesGrow
  BY <1>2 DEF SpacesGrow, Operable
<1>9. ASSUME run' = Do("grant", run.todo \ {p})
      PROVE  /\ Keeps /\ SameStage /\ run'.pc \notin Unlistening \cup {"listen", "forgetRepos"}
             /\ run'.usage.runtimes = run.usage.runtimes /\ (Deploying => SameNew)
             /\ run'.new.space = run.new.space /\ run'.new.hook = run.new.hook
             /\ AccountsAreTidy'
  <2>1. /\ Keeps /\ run'.pc = "grant" /\ run'.new = run.new /\ run'.usage = run.usage
        /\ run'.todo = run.todo \ {p}
    BY <1>3, <1>9, RunKeeps
  <2>2. run'.pc \in AccountPCs \ {"createSpace"} /\ ~At("revoke")'
    BY <2>1 DEF AccountPCs, At
  <2> QED BY <1>1, <1>2, <1>3, <1>6, <1>7, <2>1, <2>2, AccountingStep DEF SameNew
<1> QED BY <1>2, <1>3, <1>7, <1>8, <1>9, AnswerTidy

LEMMA RevokeTidy ==
  ASSUME Inv, EventsInOrder, TidyInOrder, NEW p, Revoke(p)
  PROVE  TidyInOrder'
<1>1. run.pc = "revoke" /\ run.pc \in AccountPCs \ {"createSpace"}
  BY DEF Revoke, At, AccountPCs
<1>2. /\ RevokePermission(run.spec.account, p) /\ p \in run.todo /\ Answer(Do("revoke", run.todo \ {p}))
      /\ UNCHANGED <<ns, users, accounts, project, apps, usage, listenerVars, hooks, objectVars, history>>
      /\ UNCHANGED <<runtimes, recorded, late>>
  BY DEF Revoke, Rest, objectVars, history
<1>3. /\ run.pc \in Calls \ Unlistening /\ run.pc # "idle" /\ Deploying /\ AccountsAreTidy
      /\ AccountIsExact(run.usage) /\ Claimed(run.usage) /\ PermsAreExact(run.usage) /\ ~run.failed
  BY <1>1, AccountingTidy
<1>4. roles \in [Accounts -> Role] /\ run.spec.account \in Accounts
  BY <1>1, DeployingFacts DEF Inv, RestTyped, ClusterTypeOK
<1>5. \A a \in Accounts :
        /\ roles'[a].exists = roles[a].exists
        /\ roles'[a].perms = IF a = run.spec.account THEN roles[a].perms \ {p} ELSE roles[a].perms
  BY <1>2, <1>4 DEF RevokePermission, Role
<1>6. AccountsGrow
  BY <1>2, <1>3, <1>5 DEF AccountsGrow, HasAccount, Operable, AccountsAreTidy, AccountsAreClaimed
<1>7. SpacesGrow
  BY <1>2 DEF SpacesGrow, Operable
<1>8. ASSUME run' = Do("revoke", run.todo \ {p})
      PROVE  /\ Keeps /\ SameStage /\ run'.pc \notin Unlistening \cup {"listen", "forgetRepos"}
             /\ run'.usage.runtimes = run.usage.runtimes /\ (Deploying => SameNew)
             /\ run'.new.space = run.new.space /\ run'.new.hook = run.new.hook
             /\ AccountsAreTidy'
  <2>1. /\ Keeps /\ run'.pc = "revoke" /\ run'.new = run.new /\ run'.usage = run.usage
        /\ run'.todo = run.todo \ {p} /\ SameReconcile
    BY ZenonT(60), <1>3, <1>8, RunKeeps DEF Keeps
  <2>2. run'.pc \in AccountPCs \ {"createSpace"} /\ ~At("grant")' /\ run'.old = run.old
    BY <2>1 DEF AccountPCs, At, SameReconcile
  <2>3. ASSUME run.old.account = run.spec.account PROVE TodoIsLeft'
    <3>1. TodoIsLeft
      BY <1>1, <1>3, <2>3 DEF AccountsAreTidy, DeploymentIsTidy, At
    <3>2. \A x : PermIsLeft(x) => PermIsLeft(x)'
      BY <1>2, <1>3, <1>6, <2>1, LeftStays
    <3>3. PermIsLeft(p)'
      BY <1>4, <1>5, <2>2, <2>3 DEF PermIsLeft
    <3> QED BY <2>1, <2>2, <3>1, <3>2, <3>3 DEF TodoIsLeft
  <2> QED BY <1>1, <1>2, <1>3, <1>6, <2>1, <2>2, <2>3, AccountingStep DEF SameNew
<1> QED BY <1>2, <1>3, <1>6, <1>7, <1>8, AnswerTidy

\* A use of the account and the runtime is replaced.
LEMMA UpdatedUse ==
  ASSUME NEW u \in Usage, NEW a \in Accounts, NEW q \in Names, UsesAreUnique(u),
         NEW spaces, NEW perms
  PROVE  /\ \A z \in UpdateSpaces(u, a, q, spaces).account :
              \/ z \in u.account
              \/ /\ z.account = a /\ z.runtime = q
                 /\ z.perms = {} \/ \E w \in u.account : /\ w.account = a /\ w.runtime = q
                                                         /\ z.perms = w.perms
         /\ \A z \in UpdatePermissions(u, a, q, perms).account :
              \/ z \in u.account /\ ~(z.account = a /\ z.runtime = q)
              \/ z.account = a /\ z.runtime = q /\ z.perms = perms
         /\ UpdateSpaces(u, a, q, spaces).runtimes = u.runtimes
         /\ UpdatePermissions(u, a, q, perms).runtimes = u.runtimes
<1>1. PICK x : x = UseOf(u, a, q)
  OBVIOUS
<1>2. /\ x \in AccountUse /\ x.account = a /\ x.runtime = q
      /\ x.perms = {} \/ \E w \in u.account : w.account = a /\ w.runtime = q /\ x.perms = w.perms
  <2>1. CASE \E w \in u.account : w.account = a /\ w.runtime = q
    <3>1. x \in u.account /\ x.account = a /\ x.runtime = q
      BY <1>1, <2>1 DEF UseOf
    <3> QED BY <3>1 DEF Usage
  <2>2. CASE ~\E w \in u.account : w.account = a /\ w.runtime = q
    BY <1>1, <2>2 DEF UseOf, AccountUse
  <2> QED BY <2>1, <2>2
<1>3. PICK f : f = ForgetAccount(u, a, q)
  OBVIOUS
<1>4. /\ f.runtimes = u.runtimes /\ f.account = {z \in u.account : ~(z.account = a /\ z.runtime = q)}
      /\ \A y : /\ [f EXCEPT !.account = @ \cup {y}].runtimes = u.runtimes
                /\ [f EXCEPT !.account = @ \cup {y}].account = f.account \cup {y}
  BY <1>3 DEF ForgetAccount, Usage
<1>5. PICK y : y = [x EXCEPT !.spaces = spaces]
  OBVIOUS
<1>6. y.account = a /\ y.runtime = q /\ y.perms = x.perms
  BY <1>2, <1>5 DEF AccountUse
<1>7. PICK z : z = [x EXCEPT !.perms = perms]
  OBVIOUS
<1>8. z.account = a /\ z.runtime = q /\ z.perms = perms
  BY <1>2, <1>7 DEF AccountUse
<1>9. /\ UpdateSpaces(u, a, q, spaces) = [f EXCEPT !.account = @ \cup {y}]
      /\ UpdatePermissions(u, a, q, perms) = [f EXCEPT !.account = @ \cup {z}]
  BY <1>1, <1>3, <1>5, <1>7 DEF UpdateSpaces, UpdatePermissions
<1> QED BY <1>2, <1>4, <1>6, <1>8, <1>9

LEMMA AddUserTidy ==
  ASSUME Inv, EventsInOrder, TidyInOrder, AddUser
  PROVE  TidyInOrder'
<1>1. run.pc = "addUser" /\ run.pc \in AccountPCs \ {"createSpace"}
  BY DEF AddUser, At, AccountPCs
<1>2. PICK u : u = UpdateSpaces(run.usage, run.spec.account, run.rt, {run.spec.space})
  OBVIOUS
<1>3. /\ run.pc \in Calls \ Unlistening /\ run.pc # "idle" /\ Deploying /\ AccountsAreTidy /\ ObjectsAreTidy
      /\ AccountIsExact(run.usage) /\ Claimed(run.usage)
  BY <1>1, AccountingTidy
<1>4. run.rt \in Names /\ run.spec.account \in Accounts /\ run.usage \in Usage /\ UsesAreUnique(run.usage)
      /\ run \in RunType
  BY <1>1, DeployingFacts
<1>5. /\ Answer([run EXCEPT !.pc = "createRole", !.usage = u])
      /\ UNCHANGED <<ns, accounts, project, apps, roles, usage, listenerVars, hooks, objectVars, history>>
      /\ UNCHANGED <<runtimes, recorded, late>>
  <2>1. [run EXCEPT !.pc = "createRole",
                    !.usage = UpdateSpaces(@, run.spec.account, Me, {run.spec.space})]
        = [run EXCEPT !.pc = "createRole", !.usage = u]
    BY <1>2, <1>4 DEF Me, RunType
  <2> QED BY <1>1, <2>1, NothingRefused DEF AddUser, objectVars, history
<1>6. AccountsGrow
  BY <1>3, <1>5, SameAccountsGrow DEF AccountsAreTidy
<1>7. SpacesGrow
  BY <1>5 DEF SpacesGrow, Operable
<1>8. /\ u.runtimes = run.usage.runtimes
      /\ \A z \in u.account :
              \/ z \in run.usage.account
              \/ /\ z.account = run.spec.account /\ z.runtime = run.rt
                 /\ z.perms = {} \/ \E w \in run.usage.account : /\ w.account = run.spec.account
                                                                 /\ w.runtime = run.rt
                                                                 /\ z.perms = w.perms
  <2>1. PICK a \in Accounts, q \in Names, v \in Usage :
          a = run.spec.account /\ q = run.rt /\ v = run.usage /\ UsesAreUnique(v)
    BY <1>4
  <2>2. /\ \A z \in UpdateSpaces(v, a, q, {run.spec.space}).account :
              \/ z \in v.account
              \/ /\ z.account = a /\ z.runtime = q
                 /\ z.perms = {} \/ \E w \in v.account : /\ w.account = a /\ w.runtime = q
                                                         /\ z.perms = w.perms
        /\ UpdateSpaces(v, a, q, {run.spec.space}).runtimes = v.runtimes
    BY SMTT(30), <2>1, UpdatedUse
  <2> QED BY <1>2, <2>1, <2>2
<1>9. PICK q \in Names : q = run.rt
  BY <1>4
<1>10. ClaimsAccount(q, run.spec.account)
  BY <1>3, <1>9, OwnRun
<1>11. Claimed(u)
  BY <1>3, <1>8, <1>9, <1>10 DEF Claimed
<1>12. AccountIsExact(u) /\ (PermsAreExact(run.usage) => PermsAreExact(u))
  BY <1>3, <1>8 DEF AccountIsExact, PermsAreExact
<1>13. ASSUME run' = [run EXCEPT !.pc = "createRole", !.usage = u]
       PROVE  /\ Keeps /\ SameStage /\ run'.pc \notin Unlistening \cup {"listen", "forgetRepos"}
              /\ run'.usage.runtimes = run.usage.runtimes /\ (Deploying => SameNew)
              /\ run'.new.space = run.new.space /\ run'.new.hook = run.new.hook
              /\ AccountsAreTidy'
  <2>1. Keeps /\ run'.pc = "createRole" /\ run'.new = run.new /\ run'.usage = u
    BY <1>3, <1>13, RunKeeps
  <2>2. run'.pc \in AccountPCs \ {"createSpace"} /\ ~At("grant")' /\ ~At("revoke")'
    BY <2>1 DEF AccountPCs, At
  <2>3. SameStage /\ run'.pc \notin Unlistening \cup {"listen", "forgetRepos"} /\ AccountsAreTidy'
    BY <1>1, <1>5, <1>6, <1>11, <1>12, <2>1, <2>2, AccountingStep
  <2> QED BY <1>8, <2>1, <2>3 DEF SameNew
<1> QED BY <1>3, <1>5, <1>6, <1>7, <1>13, AnswerTidy

LEMMA GrantedTidy ==
  ASSUME Inv, EventsInOrder, TidyInOrder, Granted
  PROVE  TidyInOrder'
<1>1. run.pc = "grant" /\ run.pc \in AccountPCs \ {"createSpace"}
      /\ UNCHANGED <<clusterVars, listenerVars, hooks, faults, objectVars, history>>
      /\ UNCHANGED <<ns, accounts, roles, apps, usage, runtimes, recorded, late>>
  BY DEF Granted, Goes, At, AccountPCs, objectVars, history, clusterVars
<1>2. PICK u : u = UpdatePermissions(run.usage, run.spec.account, run.rt, Perms(run.spec))
  OBVIOUS
<1>3. PICK todo : todo = run.old.perms \ PermsUsed(u, run.spec.account, {})
  OBVIOUS
<1>4. run' = [run EXCEPT !.pc = "revoke", !.usage = u, !.todo = todo] /\ UNCHANGED faults
  BY <1>2, <1>3 DEF Granted, Goes, Me
<1>5. /\ run.pc \in Calls \ Unlistening /\ run.pc # "idle" /\ Deploying /\ AccountsAreTidy /\ ObjectsAreTidy
      /\ AccountIsExact(run.usage) /\ Claimed(run.usage)
  BY <1>1, AccountingTidy
<1>6. run.rt \in Names /\ run.spec.account \in Accounts /\ run.usage \in Usage /\ UsesAreUnique(run.usage)
  BY <1>1, DeployingFacts
<1>7. AccountsGrow
  BY <1>1, <1>5, SameAccountsGrow DEF AccountsAreTidy
<1>8. SpacesGrow
  BY <1>1 DEF SpacesGrow, Operable
<1>9. /\ u.runtimes = run.usage.runtimes
      /\ \A z \in u.account :
              \/ z \in run.usage.account /\ ~(z.account = run.spec.account /\ z.runtime = run.rt)
              \/ z.account = run.spec.account /\ z.runtime = run.rt /\ z.perms = Perms(run.spec)
  BY SMTT(30), <1>2, <1>6, UpdatedUse
<1>10. PICK q \in Names : q = run.rt
  BY <1>6
<1>11. /\ ClaimsAccount(q, run.spec.account)
       /\ \A p \in Perms(run.spec) : ClaimsPerm(q, run.spec.account, p)
  BY <1>5, <1>10, OwnRun
<1>12. Claimed(u)
  BY <1>5, <1>9, <1>10, <1>11 DEF Claimed
<1>13. AccountIsExact(u) /\ PermsAreExact(u)
  BY <1>5, <1>9 DEF AccountIsExact, PermsAreExact
<1>14. /\ Keeps /\ run'.pc = "revoke" /\ run'.new = run.new /\ run'.usage = u /\ run'.todo = todo
       /\ SameReconcile
  BY ZenonT(60), <1>4, <1>5, RunKeeps DEF Keeps
<1>15. ASSUME run.old.account = run.spec.account, NEW p \in run.old.perms \ todo
       PROVE  PermIsLeft(p)
  <2>1. PICK x \in u.account : x.account = run.spec.account /\ p \in x.perms
    BY <1>3, <1>15 DEF PermsUsed, UsesOf
  <2>2. CASE p \in Perms(run.spec)
    BY <1>5, <1>15, <2>2 DEF PermIsLeft
  <2>3. CASE p \notin Perms(run.spec)
    <3>1. x \in run.usage.account /\ x.runtime # run.rt
      BY <1>9, <2>1, <2>3
    <3>2. ~Complete(run.old, run.spec)
      BY <1>15, <2>3 DEF Complete
    <3>3. x.runtime \in Others /\ ClaimsPerm(x.runtime, x.account, p)
      BY <1>5, <2>1, <3>1, <3>2, OthersUse
    <3> QED BY <1>15, <2>1, <3>3 DEF PermIsLeft
  <2> QED BY <2>2, <2>3
<1>16. run.old.account = run.spec.account => TodoIsLeft'
  <2>1. \A x : PermIsLeft(x) => PermIsLeft(x)'
    BY <1>1, <1>5, <1>7, <1>14, LeftStays
  <2>2. run'.old = run.old
    BY <1>14 DEF SameReconcile
  <2> QED BY <1>14, <1>15, <2>1, <2>2 DEF TodoIsLeft
<1>17. run'.pc \in AccountPCs \ {"createSpace"} /\ ~At("grant")'
  BY <1>14 DEF AccountPCs, At
<1>18. SameStage /\ run'.pc \notin Unlistening \cup {"listen", "forgetRepos"} /\ AccountsAreTidy'
  BY <1>1, <1>7, <1>12, <1>13, <1>14, <1>16, <1>17, AccountingStep
<1> QED BY <1>1, <1>4, <1>5, <1>7, <1>8, <1>9, <1>14, <1>18, AnswerTidy DEF Answer, SameNew

-----------------------------------------------------------------------------
(* The product, and the account that is to be left.                         *)

LEMMA ProvidingTidy ==
  ASSUME Inv, EventsInOrder, TidyInOrder, run.pc \in {"createProduct", "createProject", "addProductUser"}
  PROVE  /\ ObjectsAreTidy /\ AccountsAreTidy /\ SpacesAreTidy
         /\ run.pc \in Calls \ Unlistening /\ run.pc # "idle" /\ ~run.failed /\ Copied
         /\ Deploying /\ ~Deleting /\ run.rt \in Names /\ Record = run.usage /\ ~At("saveStatus")
         /\ run.new.space = run.old.space
         /\ run.pc \notin FromSpace /\ run.pc \notin FromSynced /\ run.pc \notin HookSynced
<1>1. /\ run.pc \in Calls \ Unlistening /\ run.pc # "idle" /\ run.pc \notin DeletePCs
      /\ run.pc \notin FromSpace /\ run.pc \notin FromSynced /\ run.pc \notin HookSynced
  BY DEF Calls, PC, Unlistening, DeletePCs, Leaving, Ending, FromSpace, FromAccount, FromUser, FromRole,
         FromGranted, FromSynced, FromSaved, ListeningPCs, HookSynced
<1>2. Deploying /\ ~Deleting
  BY <1>1, RunFacts
<1> QED BY <1>1, <1>2, CallFacts DEF TidyInOrder, SpacesAreTidy

LEMMA ProvidingStage ==
  ASSUME Inv, EventsInOrder, TidyInOrder, run.pc \in {"createProduct", "createProject", "addProductUser"},
         run'.pc \in {"createProject", "addProductUser", "createSpace"} \cup Leaving
  PROVE  SameStage /\ run'.pc \notin Unlistening \cup {"listen", "forgetRepos", "saveStatus", "removeFinalizer"}
<1>1. /\ run'.pc \notin Ended \cup FromSaved /\ run'.pc \notin FromSynced /\ run'.pc \notin HookSynced
      /\ run'.pc \notin Unlistening \cup {"listen", "forgetRepos", "saveStatus", "removeFinalizer"}
  BY DEF Leaving, Unlistening, Ended, Ending, FromSynced, FromSaved, ListeningPCs, HookSynced
<1> QED BY <1>1, ProvidingTidy DEF SameStage

LEMMA CreateProductTidy ==
  ASSUME Inv, EventsInOrder, TidyInOrder, CreateProduct
  PROVE  TidyInOrder'
<1>1. run.pc = "createProduct"
      /\ UNCHANGED <<users, accounts, project, apps, roles, usage, listenerVars, hooks, objectVars, history>>
      /\ UNCHANGED <<runtimes, recorded, late>>
  BY DEF CreateProduct, Refuse, At, objectVars, history, clusterVars
<1>2. /\ ObjectsAreTidy /\ AccountsAreTidy /\ run.pc \in Calls \ Unlistening /\ run.pc # "idle" /\ ~run.failed
      /\ Deploying /\ ~Deleting /\ run.new.space = run.old.space
  BY <1>1, ProvidingTidy
<1>3. ns \in [Spaces \cup {Product} -> {"none", "active", "terminating"}]
  BY DEF Inv, RestTyped, ClusterTypeOK
<1>4. CASE CanCreateNamespace(Product)
  <2>1. CreateNamespace(Product) /\ Answer(GoTo("createProject"))
    BY <1>4 DEF CreateProduct
  <2>2. ns'[Product] = "active" /\ (ns[Product] = "active" \/ ns[Product] = "none")
        /\ \A s \in Spaces : ns'[s] = ns[s]
    BY <1>3, <1>4, <2>1, ClusterAssumption DEF CreateNamespace, CanCreateNamespace
  <2>3. AccountsGrow
    BY <1>1, <1>2, <2>2 DEF AccountsGrow, AccountsAreTidy, AccountsAreClaimed, HasAccount, Operable
  <2>4. SpacesGrow
    BY <2>2 DEF SpacesGrow, Operable
  <2>5. ASSUME run' = GoTo("createProject")
        PROVE  /\ Keeps /\ SameStage /\ run'.pc \notin Unlistening \cup {"listen", "forgetRepos"}
               /\ run'.usage.runtimes = run.usage.runtimes /\ (Deploying => SameNew)
               /\ run'.new.space = run.new.space /\ run'.new.hook = run.new.hook
               /\ AccountsAreTidy'
    <3>1. Keeps /\ run'.pc = "createProject" /\ run'.new = run.new /\ run'.usage = run.usage /\ SameReconcile
      BY <1>2, <2>5, RunKeeps DEF Keeps
    <3>2. SameStage /\ run'.pc \notin Unlistening \cup {"listen", "forgetRepos", "saveStatus", "removeFinalizer"}
      BY <1>1, <3>1, ProvidingStage
    <3>3. DeploymentIsTidy' /\ DeletionIsTidy'
      BY <1>1, <1>2, <2>3, <3>1, <3>2, ProgressStep
    <3>4. AccountsAreTidy'
      BY <1>1, <1>2, <2>3, <3>1, <3>2, <3>3, AccountsStep
    <3> QED BY <3>1, <3>2, <3>4 DEF SameNew
  <2> QED BY <1>1, <1>2, <2>1, <2>3, <2>4, <2>5, AnswerTidy
<1>5. CASE ~CanCreateNamespace(Product)
  <2>1. run' = Failed /\ UNCHANGED faults /\ UNCHANGED ns
    BY <1>5 DEF CreateProduct, Refuse, clusterVars
  <2>2. AccountsGrow
    BY <1>1, <1>2, <2>1, SameAccountsGrow DEF AccountsAreTidy
  <2>3. SourcesAreThere' /\ SpacesGrow
    BY <1>1, <1>2, <2>1, FellFacts, SameSources DEF SpacesGrow, Operable
  <2> QED BY <1>1, <1>2, <2>1, <2>2, <2>3, FellTidy
<1> QED BY <1>4, <1>5

LEMMA CreateProjectTidy ==
  ASSUME Inv, EventsInOrder, TidyInOrder, CreateProject
  PROVE  TidyInOrder'
<1>1. run.pc = "createProject" /\ Answer(GoTo("addProductUser"))
      /\ UNCHANGED <<ns, users, accounts, apps, roles, usage, listenerVars, hooks, objectVars, history>>
      /\ UNCHANGED <<runtimes, recorded, late>>
  BY DEF CreateProject, Rest, At, objectVars, history
<1>2. /\ ObjectsAreTidy /\ AccountsAreTidy /\ run.pc \in Calls \ Unlistening /\ run.pc # "idle" /\ ~run.failed
      /\ Deploying /\ ~Deleting /\ run.new.space = run.old.space
  BY <1>1, ProvidingTidy
<1>3. AccountsGrow
  BY <1>1, <1>2, SameAccountsGrow DEF AccountsAreTidy
<1>4. SpacesGrow
  BY <1>1 DEF SpacesGrow, Operable
<1>5. ASSUME run' = GoTo("addProductUser")
      PROVE  /\ Keeps /\ SameStage /\ run'.pc \notin Unlistening \cup {"listen", "forgetRepos"}
             /\ run'.usage.runtimes = run.usage.runtimes /\ (Deploying => SameNew)
             /\ run'.new.space = run.new.space /\ run'.new.hook = run.new.hook
             /\ AccountsAreTidy'
  <2>1. Keeps /\ run'.pc = "addProductUser" /\ run'.new = run.new /\ run'.usage = run.usage /\ SameReconcile
    BY <1>2, <1>5, RunKeeps DEF Keeps
  <2>2. SameStage /\ run'.pc \notin Unlistening \cup {"listen", "forgetRepos", "saveStatus", "removeFinalizer"}
    BY <1>1, <2>1, ProvidingStage
  <2>3. DeploymentIsTidy' /\ DeletionIsTidy'
    BY <1>1, <1>2, <1>3, <2>1, <2>2, ProgressStep
  <2>4. AccountsAreTidy'
    BY <1>1, <1>2, <1>3, <2>1, <2>2, <2>3, AccountsStep
  <2> QED BY <2>1, <2>2, <2>4 DEF SameNew
<1> QED BY <1>1, <1>2, <1>3, <1>4, <1>5, AnswerTidy

LEMMA AddProductUserTidy ==
  ASSUME Inv, EventsInOrder, TidyInOrder, AddProductUser
  PROVE  TidyInOrder'
<1> DEFINE next == CASE run.old.account \in {NoAccount, run.spec.account} -> GoTo("createSpace")
                     [] run.old.account \notin {NoAccount, run.spec.account} /\ Removable -> GoTo("deleteRole")
                     [] OTHER -> Do("revokeOld", OldPerms)
<1>1. run.pc = "addProductUser" /\ Answer(next)
      /\ UNCHANGED <<ns, users, accounts, apps, roles, usage, listenerVars, hooks, objectVars, history>>
      /\ UNCHANGED <<runtimes, recorded, late>>
  BY DEF AddProductUser, Rest, At, objectVars, history
<1>2. /\ ObjectsAreTidy /\ AccountsAreTidy /\ run.pc \in Calls \ Unlistening /\ run.pc # "idle" /\ ~run.failed
      /\ Deploying /\ ~Deleting /\ run.new.space = run.old.space
      /\ Copied /\ Record = run.usage /\ run.rt \in Names /\ ~At("saveStatus")
  BY <1>1, ProvidingTidy
<1>3. AccountsGrow
  BY <1>1, <1>2, SameAccountsGrow DEF AccountsAreTidy
<1>4. SpacesGrow
  BY <1>1 DEF SpacesGrow, Operable
<1>5. ASSUME run' = next
      PROVE  /\ Keeps /\ SameStage /\ run'.pc \notin Unlistening \cup {"listen", "forgetRepos"}
             /\ run'.usage.runtimes = run.usage.runtimes /\ (Deploying => SameNew)
             /\ run'.new.space = run.new.space /\ run'.new.hook = run.new.hook
             /\ AccountsAreTidy'
  <2>1. \/ run.old.account \in {NoAccount, run.spec.account} /\ run' = GoTo("createSpace")
        \/ /\ run.old.account \notin {NoAccount, run.spec.account}
           /\ Removable /\ run' = GoTo("deleteRole")
        \/ /\ run.old.account \notin {NoAccount, run.spec.account}
           /\ ~Removable /\ run' = Do("revokeOld", OldPerms)
    BY <1>5
  <2>2. /\ Keeps /\ run'.new = run.new /\ run'.usage = run.usage /\ SameReconcile
        /\ run.old.account \in {NoAccount, run.spec.account} => run'.pc = "createSpace"
        /\ run.old.account \notin {NoAccount, run.spec.account} =>
             \/ run'.pc = "deleteRole"
             \/ run'.pc = "revokeOld" /\ run'.todo = OldPerms /\ ~Removable
    <3>1. CASE run.old.account \in {NoAccount, run.spec.account} /\ run' = GoTo("createSpace")
      BY <1>2, <3>1, RunKeeps DEF Keeps
    <3>2. CASE run.old.account \notin {NoAccount, run.spec.account} /\ run' = GoTo("deleteRole")
      BY <1>2, <3>2, RunKeeps DEF Keeps
    <3>3. CASE /\ run.old.account \notin {NoAccount, run.spec.account}
               /\ ~Removable /\ run' = Do("revokeOld", OldPerms)
      <4>1. /\ Keeps /\ run'.pc = "revokeOld" /\ run'.new = run.new /\ run'.usage = run.usage
            /\ run'.todo = OldPerms
        <5>1. PICK todo : todo = OldPerms
          OBVIOUS
        <5>2. run.pc # "idle" /\ run' = Do("revokeOld", todo)
          BY <1>2, <3>3, <5>1
        <5>3. /\ Keeps /\ run'.pc = "revokeOld" /\ run'.new = run.new /\ run'.usage = run.usage
              /\ run'.todo = todo
          BY <5>2, RunKeeps
        <5> QED BY <5>1, <5>3
      <4> QED BY <3>3, <4>1 DEF Keeps
    <3> QED BY <2>1, <3>1, <3>2, <3>3
  <2>3. run'.pc \in {"createSpace"} \cup Leaving
    BY <2>2 DEF Leaving
  <2>4. SameStage /\ run'.pc \notin Unlistening \cup {"listen", "forgetRepos", "saveStatus", "removeFinalizer"}
    BY <1>1, <2>3, ProvidingStage
  <2>5. /\ run'.old = run.old /\ run'.spec = run.spec /\ run'.rt = run.rt /\ Record' = run.usage
        /\ (Deploying' <=> Deploying) /\ (Deleting' <=> Deleting)
    BY <2>2, <2>4 DEF SameReconcile, Record, Deploying, Deleting
  <2>6. /\ AccountIsLeft => AccountIsLeft'
        /\ OldIsLeft => OldIsLeft'
        /\ \A p : PermIsLeft(p) => PermIsLeft(p)'
    BY <1>1, <1>2, <1>3, <2>2, LeftStays
  <2>7. DeletionIsTidy'
    BY <1>2, <2>5 DEF DeletionIsTidy
  <2>8. DeploymentIsTidy'
    <3>1. CASE run.old.account \in {NoAccount, run.spec.account}
      <4>1. AccountIsLeft /\ (run.old.account # run.spec.account => OldIsLeft)
        <5>1. NoAccount \notin Accounts
          BY SpecsAssumption
        <5> QED BY <1>2, <3>1, <5>1 DEF AccountIsLeft, OldIsLeft, PermIsLeft
      <4>2. \A x \in run.usage.account : x.runtime = run.rt => x.account = run.spec.account
        <5>1. run.usage \in Usage /\ NoAccount \notin Accounts
          BY <1>2, RunFacts, SpecsAssumption
        <5>2. \A x \in run.usage.account : x.account \in Accounts
          BY <5>1 DEF Usage, AccountUse
        <5> QED BY <1>2, <3>1, <5>1, <5>2, OwnUse
      <4>3. AccountIsExact(Record)'
        BY <2>5, <4>2 DEF AccountIsExact
      <4>4. run'.pc = "createSpace" /\ run'.pc \notin FromGranted /\ run'.pc \notin FromSynced
        BY <2>2, <3>1 DEF FromGranted, FromSynced, FromSaved, ListeningPCs, Unlistening
      <4> QED BY <2>5, <2>6, <4>1, <4>3, <4>4 DEF DeploymentIsTidy, At
    <3>2. CASE run.old.account \notin {NoAccount, run.spec.account}
      <4>1. run'.pc \in {"deleteRole", "revokeOld"}
        BY <2>2, <3>2
      <4>2. run'.pc \notin FromLeft /\ run'.pc \notin FromGranted /\ run'.pc \notin FromSynced
        BY <4>1 DEF FromLeft, FromSpace, FromAccount, FromUser, FromRole, FromGranted, FromSynced,
                    FromSaved, ListeningPCs, Unlistening
      <4>3. CASE run'.pc = "deleteRole"
        BY <4>2, <4>3 DEF DeploymentIsTidy, At
      <4>4. CASE run'.pc = "revokeOld"
        <5>1. run'.todo = OldPerms /\ ~Removable
          BY <2>2, <3>2, <4>4
        <5>2. AccountIsLeft
          BY <1>2, <5>1, SharedIsClaimed
        <5>3. \A p \in run.old.perms \ OldPerms : PermIsLeft(p)
          BY <1>2, <3>2, OldPermsAreLeft
        <5>4. TodoIsLeft'
          BY <2>5, <2>6, <5>1, <5>3 DEF TodoIsLeft
        <5> QED BY <2>6, <4>2, <4>4, <5>2, <5>4 DEF DeploymentIsTidy, At
      <4> QED BY <4>1, <4>3, <4>4
    <3> QED BY <3>1, <3>2
  <2>9. AccountsAreTidy'
    BY <1>1, <1>2, <1>3, <2>2, <2>4, <2>7, <2>8, AccountsStep
  <2> QED BY <2>2, <2>4, <2>9 DEF SameNew
<1> QED BY <1>1, <1>2, <1>3, <1>4, <1>5, AnswerTidy

-----------------------------------------------------------------------------
(* The space.                                                               *)

\* The space of a deployment is one the object claims, or was moved out of.
LEMMA OwnSpace ==
  ASSUME Inv, EventsInOrder, ObjectsAreTidy, run.pc # "idle", Deploying
  PROVE  run.spec.space \in left \/ \E r \in Names : ClaimsSpace(r, run.spec.space)
<1>1. PICK q \in Names : q = run.rt
  BY RunFacts
<1>2. /\ runtimes[q].cache = run.old /\ Live(q)
      /\ ~run.stale => runtimes[q].spec = run.spec
      /\ run.stale => Complete(run.old, run.spec)
  BY <1>1, OwnRun
<1>3. CASE run.stale
  <2>1. runtimes[q].cache.space = run.spec.space /\ run.spec.space # NoSpace
    BY <1>2, <1>3, RunFacts, ConstantFacts DEF Complete
  <2> QED BY <1>1, <1>2, <2>1 DEF Inv, MovedIsLeft, ClaimsSpace
<1>4. CASE ~run.stale
  BY <1>1, <1>2, <1>4 DEF ClaimsSpace
<1> QED BY <1>3, <1>4

LEMMA CreateSpaceTidy ==
  ASSUME Inv, EventsInOrder, TidyInOrder, CreateSpace
  PROVE  TidyInOrder'
<1>1. run.pc = "createSpace" /\ run.pc \in AccountPCs
      /\ UNCHANGED <<users, accounts, project, apps, roles, usage, listenerVars, hooks, objectVars, history>>
      /\ UNCHANGED <<runtimes, recorded, late, left, abandoned>>
  BY DEF CreateSpace, Refuse, At, AccountPCs, objectVars, history, clusterVars
<1>2. /\ ObjectsAreTidy /\ AccountsAreTidy /\ run.pc \in Calls \ Unlistening /\ run.pc # "idle" /\ ~run.failed
      /\ SpacesAreTidy /\ Deploying /\ ~Deleting /\ AccountIsExact(run.usage) /\ Claimed(run.usage)
      /\ HooksAreTidy /\ AppsAreTidy /\ ProductIsTidy
      /\ run.pc \notin FromSynced /\ run.pc \notin HookSynced
  BY <1>1, AccountingTidy DEF TidyInOrder
<1>3. run.pc \notin FromSpace /\ run.new.space = run.old.space
  <2>1. run.pc \notin FromSpace
    BY <1>1 DEF FromSpace, FromAccount, FromUser, FromRole, FromGranted, FromSynced, FromSaved, ListeningPCs,
                Unlistening
  <2> QED BY <1>2, <2>1 DEF SpacesAreTidy
<1>4. /\ ns \in [Spaces \cup {Product} -> {"none", "active", "terminating"}] /\ run.spec.space \in Spaces
      /\ run \in RunType /\ run.new \in Cache
  BY <1>1, DeployingFacts DEF Inv, RestTyped, ClusterTypeOK
<1>5. CASE ~CanCreateNamespace(run.spec.space)
  <2>1. run' = Failed /\ UNCHANGED faults /\ UNCHANGED ns
    BY <1>5 DEF CreateSpace, Refuse, clusterVars
  <2>2. AccountsGrow
    BY <1>1, <1>2, <2>1, SameAccountsGrow DEF AccountsAreTidy
  <2>3. SourcesAreThere' /\ SpacesGrow
    BY <1>1, <1>2, <2>1, FellFacts, SameSources DEF SpacesGrow, Operable
  <2> QED BY <1>1, <1>2, <1>3, <2>1, <2>2, <2>3, FellTidy
<1>6. CASE CanCreateNamespace(run.spec.space)
  <2>1. PICK n : n = [run.new EXCEPT !.space = run.spec.space]
    OBVIOUS
  <2>2. [run EXCEPT !.pc = "createAccount", !.new.space = run.spec.space]
        = [run EXCEPT !.pc = "createAccount", !.new = n]
    BY <1>4, <2>1 DEF RunType
  <2>3. CreateNamespace(run.spec.space) /\ Answer([run EXCEPT !.pc = "createAccount", !.new = n])
    BY <1>6, <2>2 DEF CreateSpace
  <2>4. \A s \in Spaces \cup {Product} : ns'[s] = IF s = run.spec.space THEN "active" ELSE ns[s]
    BY <1>4, <2>3 DEF CreateNamespace
  <2>5. AccountsGrow
    BY <1>1, <1>2, <1>4, <2>4, SameAccountsGrow, ClusterAssumption DEF AccountsAreTidy
  <2>6. SpacesGrow
    BY <1>2, <2>4, OwnSpace DEF SpacesGrow, Operable
  <2>7. CASE run' = Failed /\ Fault
    <3>1. SourcesAreThere'
      BY <1>1, <1>2, <2>7, FellFacts, SameSources
    <3> QED BY <1>1, <1>2, <2>5, <2>6, <2>7, <3>1, FellTidy
  <2>8. CASE run' = [run EXCEPT !.pc = "createAccount", !.new = n] /\ UNCHANGED faults
    <3>1. /\ Keeps /\ run'.pc = "createAccount" /\ run'.new = n /\ run'.usage = run.usage /\ SameReconcile
          /\ run'.repos = run.repos /\ ~run'.failed
      BY ZenonT(60), <1>2, <2>8, RunKeeps DEF Keeps
    <3>2. SameNew
      BY <1>4, <2>1, <3>1 DEF SameNew, Cache
    <3>3. run'.pc \in AccountPCs \ {"createSpace"} /\ ~At("grant")' /\ ~At("revoke")'
      BY <3>1 DEF AccountPCs, At
    <3>4. SameStage /\ run'.pc \notin Unlistening \cup {"listen", "forgetRepos"} /\ AccountsAreTidy'
      BY <1>1, <1>2, <2>5, <3>1, <3>2, <3>3, AccountingStep DEF SameNew
    <3>5. SourcesAreThere'
      BY <1>1, <1>2, <2>8, <3>1, <3>4, SameSources
    <3>6. /\ run'.pc \notin FromSynced /\ run'.pc \notin HookSynced /\ run'.pc \in FromSpace
          /\ run'.pc \notin FromSaved /\ run'.pc \notin Ending \cup {"saveUsage"} /\ run'.pc # "removeFinalizer"
      BY <3>1 DEF FromSpace, FromSynced, FromSaved, ListeningPCs, Unlistening, HookSynced, Ending
    <3>7. NewIsMade'
      BY <1>2, <3>1, <3>2, <3>6, NewStep
    <3>8. ObjectsAreTidy'
      BY <1>1, <1>2, <3>1, <3>7, ObjectsStep
    <3>9. SpacesAreTidy'
      BY <1>1, <1>2, <2>6, <3>1, <3>6, SpacesStep
    <3>10. ProductIsTidy'
      BY <1>1, <1>2, <3>1, <3>6, ProductStep
    <3>11. (Deploying' <=> Deploying) /\ (Deleting' <=> Deleting)
      BY <3>1 DEF SameReconcile, Deploying, Deleting
    <3>12. AppsAreTidy'
      BY <1>1, <1>2, <3>1, <3>6, <3>11, AppsStep DEF AppSynced
    <3>13. HooksAreTidy'
      BY <1>1, <1>2, <2>8, <3>1, <3>2, <3>6, <3>11, HooksStep DEF HookRemoved, SameNew
    <3> QED BY <3>4, <3>5, <3>8, <3>9, <3>10, <3>12, <3>13 DEF TidyInOrder
  <2> QED BY <2>3, <2>7, <2>8 DEF Answer
<1> QED BY <1>5, <1>6

-----------------------------------------------------------------------------
(* What is listened to.                                                     *)

LEMMA ReposStep ==
  ASSUME Inv, EventsInOrder, TidyInOrder, run.pc \in Calls, UNCHANGED objectVars, SameReconcile,
         run'.repos = run.repos,
         \A r \in Names : gitlab'[r].repos \subseteq gitlab[r].repos \cup run.spec.tokens,
         run'.pc \in {"listen", "forgetRepos", "unlistenRepos"} => run'.todo \subseteq codeRepos
  PROVE  ReposAreThere'
<1>1. ReposAreThere /\ run.rt \in Names
  BY CallFacts DEF TidyInOrder, SourcesAreThere
<1>2. \A r \in Names : gitlab'[r].repos \cup runtimes'[r].spec.tokens \subseteq codeRepos
  BY <1>1 DEF ReposAreThere, objectVars
<1> QED BY <1>1, <1>2 DEF ReposAreThere, objectVars, SameReconcile

LEMMA PermissionsSyncedTidy ==
  ASSUME Inv, EventsInOrder, TidyInOrder, PermissionsSynced
  PROVE  TidyInOrder'
<1> DEFINE synced == [run EXCEPT !.new.perms = Perms(run.spec), !.new.account = run.spec.account]
           named == [synced EXCEPT !.new.id = TRUE]
           m == [run.new EXCEPT !.perms = Perms(run.spec), !.account = run.spec.account]
           n == [m EXCEPT !.id = TRUE]
<1>1. /\ run.pc = "revoke" /\ run.pc \in AccountPCs /\ run.todo = {}
      /\ UNCHANGED <<clusterVars, listenerVars, hooks, faults, objectVars, history>>
      /\ UNCHANGED <<ns, accounts, roles, apps, usage, gitlab, calendar, cached>>
      /\ UNCHANGED <<runtimes, recorded, late, left, abandoned, codeRepos>>
      /\ run' = CASE ~(run.spec.tokens \subseteq run.repos) -> [Failed EXCEPT !.new = synced.new]
                  [] run.spec.tokens = {} -> Onwards(named)
                  [] OTHER -> [named EXCEPT !.pc = "listen", !.todo = run.spec.tokens]
  BY DEF PermissionsSynced, At, AccountPCs, Goes, objectVars, history, clusterVars, listenerVars
<1>2. /\ ObjectsAreTidy /\ AccountsAreTidy /\ run.pc \in Calls \ Unlistening /\ run.pc # "idle" /\ ~run.failed
      /\ SpacesAreTidy /\ Deploying /\ ~Deleting /\ AccountIsExact(run.usage) /\ Claimed(run.usage)
      /\ HooksAreTidy /\ AppsAreTidy /\ ProductIsTidy /\ SourcesAreThere
      /\ run.pc \notin FromSynced /\ run.pc \notin HookSynced /\ PermsAreExact(run.usage)
      /\ AccountIsLeft /\ (run.old.account # run.spec.account => OldIsLeft) /\ run.rt \in Names
      /\ Record = run.usage /\ run.pc # "createSpace"
  BY <1>1, AccountingTidy DEF TidyInOrder
<1>3. run.pc \in FromSpace /\ run.spec.tokens \subseteq run.repos /\ run.spec.tokens \subseteq codeRepos
  BY <1>1, <1>2, AccountingTidy DEF SourcesAreThere, ReposAreThere
<1>4. run \in RunType /\ run.new \in Cache
  BY <1>1, DeployingFacts
<1>5. /\ synced = [run EXCEPT !.new = m] /\ named = [run EXCEPT !.new = n]
      /\ n.account = run.spec.account /\ n.perms = Perms(run.spec) /\ n.space = run.new.space
      /\ n.hook = run.new.hook /\ n.app = run.new.app
  BY <1>4 DEF RunType, Cache
<1> HIDE DEF synced, m, n
<1>6. \/ run' = Onwards(named)
      \/ run' = [named EXCEPT !.pc = "listen", !.todo = run.spec.tokens]
  BY <1>1, <1>3
<1> HIDE DEF named
<1>7. \/ run.spec.calendar /\ run' = [run EXCEPT !.new = n, !.pc = "createCalendar"]
      \/ ~run.spec.calendar /\ run' = [run EXCEPT !.new = n, !.pc = "unlisten", !.kinds = Missing]
      \/ run' = [run EXCEPT !.new = n, !.pc = "listen", !.todo = run.spec.tokens]
  BY <1>4, <1>5, <1>6 DEF Onwards, RunType
<1>8. /\ SameReconcile /\ run'.repos = run.repos /\ ~run'.failed /\ run'.usage = run.usage /\ run'.new = n
      /\ \/ run.spec.calendar /\ run'.pc = "createCalendar"
         \/ ~run.spec.calendar /\ run'.pc = "unlisten"
         \/ run'.pc = "listen" /\ run'.todo = run.spec.tokens
  BY <1>2, <1>4, <1>7 DEF RunType, SameReconcile
<1>9. /\ run'.pc \in FromSynced /\ run'.pc \in FromSpace /\ run'.pc \notin HookSynced
      /\ run'.pc \notin FromSaved /\ run'.pc \notin Ending \cup {"saveUsage", "removeFinalizer", "saveStatus"}
      /\ run'.pc \notin {"revokeOld", "dropUser", "deleteAccount", "grant", "revoke"}
  BY <1>8 DEF FromSynced, FromSpace, FromAccount, FromUser, FromRole, FromGranted, FromSaved, ListeningPCs,
              Unlistening, HookSynced, Ending
<1>10. /\ run'.spec = run.spec /\ run'.old = run.old /\ run'.rt = run.rt /\ Record' = run.usage
       /\ (Deploying' <=> Deploying) /\ (Deleting' <=> Deleting)
  BY <1>8, <1>9 DEF SameReconcile, Deploying, Deleting, Record
<1>11. AccountsGrow /\ SpacesGrow
  BY <1>1, <1>2, SameAccountsGrow DEF AccountsAreTidy, SpacesGrow, Operable
<1>12. OldIsLeft
  <2>1. run.old.account = run.spec.account => TodoIsLeft
    BY <1>1, <1>2 DEF AccountsAreTidy, DeploymentIsTidy, At
  <2> QED BY <1>1, <1>2, <2>1 DEF TodoIsLeft, OldIsLeft
<1>13. OldIsLeft' /\ AccountIsLeft'
  BY <1>1, <1>2, <1>8, <1>11, <1>12, LeftStays DEF OldIsLeft
<1>14. AccountIsExact(Record)' /\ RecordIsExact'
  BY <1>2, <1>10 DEF RecordIsExact, AccountIsExact, PermsAreExact
<1>15. AccountsAreTidy'
  <2>1. NewIsTidy'
    BY <1>2, <1>10, <1>13, <1>14 DEF NewIsTidy
  <2>2. DeploymentIsTidy'
    BY <1>9, <1>13, <1>14 DEF DeploymentIsTidy, At
  <2>3. DeletionIsTidy'
    BY <1>2, <1>10 DEF DeletionIsTidy
  <2> QED BY <1>1, <1>2, <1>8, <1>11, <2>1, <2>2, <2>3, AccountsFrame
<1>16. NewIsMade'
  <2>1. NewIsMade
    BY <1>2 DEF ObjectsAreTidy
  <2> QED BY <1>2, <1>5, <1>8, <1>9, <1>10, <2>1 DEF NewIsMade
<1>17. ObjectsAreTidy'
  BY <1>1, <1>2, <1>8, <1>16, ObjectsStep
<1>18. SpacesAreTidy'
  BY <1>1, <1>2, <1>8, <1>9, <1>11, SpacesStep
<1>19. ProductIsTidy'
  BY <1>1, <1>2, <1>8, <1>9, ProductStep
<1>20. AppsAreTidy'
  BY <1>1, <1>2, <1>8, <1>9, <1>10, AppsStep DEF AppSynced
<1>21. HooksAreTidy'
  BY <1>1, <1>2, <1>5, <1>8, <1>9, <1>10, HooksStep DEF HookRemoved
<1>22. SourcesAreThere'
  <2>1. ReposAreThere'
    BY <1>1, <1>2, <1>3, <1>8, ReposStep
  <2>2. CalendarsAreThere'
    BY <1>1, <1>2, <1>8, <1>10 DEF SourcesAreThere, CalendarsAreThere, Unlistening
  <2> QED BY <2>1, <2>2 DEF SourcesAreThere
<1> QED BY <1>15, <1>17, <1>18, <1>19, <1>20, <1>21, <1>22 DEF TidyInOrder

Sourced == Sourcing \cup {"createCalendar"} \cup Unlistening
Sensing == {"createSensors", "surplusSensors"}

LEMMA ListeningTidy ==
  ASSUME Inv, EventsInOrder, TidyInOrder, run.pc \in Sourced \cup Sensing \cup {"deleteSensors"},
         UNCHANGED <<clusterVars, hooks, objectVars, history>>,
         \/ /\ run' = Failed
            /\ \/ Fault
               \/ UNCHANGED faults /\ (Deleting \/ run.new.space = run.old.space \/ HookRemoved \/ faults < MaxFaults)
         \/ /\ Keeps /\ run'.new = run.new /\ run'.usage = run.usage /\ UNCHANGED faults
            /\ \/ run.pc \in Sourced /\ run'.pc \in Sourced
               \/ run.pc \in Sourced /\ Deploying /\ run'.pc = "createHook"
               \/ run.pc \in Sourced /\ Deleting /\ run'.pc = "deleteSensors"
               \/ run.pc \in Sensing /\ run'.pc \in {"surplusSensors", "app"}
               \/ run.pc = "deleteSensors" /\ run'.pc = "removeHook",
         SourcesAreThere'
  PROVE  TidyInOrder'
<1>1. UNCHANGED <<ns, accounts, roles, apps, usage, runtimes, recorded, late>>
  BY DEF clusterVars, objectVars, history
<1>2. run.pc \in Calls /\ run.pc # "idle" /\ run.pc \in ListeningPCs \cup {"deleteSensors"}
  BY DEF Calls, PC, Sourced, Sourcing, Sensing, Unlistening, ListeningPCs
<1>3. /\ ObjectsAreTidy /\ AccountsAreTidy /\ ~run.failed /\ (Deploying <=> ~Deleting)
      /\ run.pc \in Sensing => Deploying
      /\ run.pc = "deleteSensors" => Deleting
  BY <1>2, CallFacts, ListeningFacts DEF TidyInOrder, Sensing, Unlistening
<1>4. AccountsGrow /\ SpacesGrow
  BY <1>1, <1>3, SameAccountsGrow DEF AccountsAreTidy, SpacesGrow, Operable
<1>5. CASE run' = Failed
  <2>1. \/ Fault
        \/ UNCHANGED faults /\ (Deleting \/ run.new.space = run.old.space \/ HookRemoved \/ faults < MaxFaults)
    BY <1>2, <1>3, <1>5, FellFacts DEF Fails, Keeps
  <2> QED BY <1>1, <1>2, <1>4, <1>5, <2>1, FellTidy
<1>6. CASE /\ Keeps /\ run'.new = run.new /\ run'.usage = run.usage /\ UNCHANGED faults
           /\ \/ run.pc \in Sourced /\ run'.pc \in Sourced
              \/ run.pc \in Sourced /\ Deploying /\ run'.pc = "createHook"
              \/ run.pc \in Sourced /\ Deleting /\ run'.pc = "deleteSensors"
              \/ run.pc \in Sensing /\ run'.pc \in {"surplusSensors", "app"}
              \/ run.pc = "deleteSensors" /\ run'.pc = "removeHook"
  <2>1. SameReconcile /\ ~run'.failed /\ SameNew
    BY <1>3, <1>6 DEF Keeps, SameNew
  <2>2. /\ run.pc \in Sourced => run.pc \in FromSynced /\ run.pc \in FromSpace /\ run.pc \notin HookSynced
        /\ run.pc \in Sensing => run.pc \in FromSynced /\ run.pc \in FromSpace /\ run.pc \in HookSynced
    BY DEF Sourced, Sourcing, Sensing, Unlistening, FromSynced, FromSpace, FromAccount, FromUser, FromRole,
           FromGranted, ListeningPCs, HookSynced, FromSaved
  <2>3. /\ run'.pc \in Sourced \cup {"createHook"} =>
             run'.pc \in FromSynced /\ run'.pc \notin HookSynced
        /\ run'.pc \in {"surplusSensors", "app"} => run'.pc \in FromSynced /\ run'.pc \in HookSynced
        /\ run'.pc \in Sourced \cup {"createHook", "deleteSensors", "surplusSensors", "app", "removeHook"} =>
             /\ run'.pc \notin Ended \cup FromSaved
             /\ run'.pc \notin {"deleteSpace", "saveStatus", "removeFinalizer"} \cup Leaving
        /\ run'.pc \in Sourced => run'.pc # "app"
    BY DEF Sourced, Sourcing, Unlistening, FromSynced, ListeningPCs, HookSynced, FromSaved, Ended, Ending, Leaving
  <2>4. /\ run'.pc \notin Ended \cup FromSaved
        /\ run'.pc \notin {"deleteSpace", "saveStatus", "removeFinalizer"} \cup Leaving
        /\ Deploying => /\ run.pc \in FromSynced /\ run.pc \in FromSpace
                        /\ run'.pc \in FromSynced
                        /\ run'.pc \in HookSynced <=> run.pc \in HookSynced
        /\ Deleting => run'.pc # "app"
    BY <1>3, <1>6, <2>2, <2>3
  <2>5. SameStage
    <3>1. run'.pc \in FromSynced => run'.pc \in FromSpace
      BY DEF FromSpace, FromAccount, FromUser, FromRole, FromGranted
    <3> QED BY <2>4, <3>1 DEF SameStage
  <2>6. DeploymentIsTidy' /\ DeletionIsTidy'
    <3>1. run'.pc \notin {"revokeOld", "deleteAccount", "deleteSpace"} \cup Ended
      BY <2>4 DEF Leaving
    <3> QED BY <1>1, <1>2, <1>3, <1>4, <1>6, <2>1, <2>4, <3>1, ProgressStep
  <2>7. AccountsAreTidy'
    BY <1>1, <1>2, <1>3, <1>4, <1>6, <2>1, <2>4, <2>6, AccountsStep
  <2> QED BY <1>1, <1>2, <1>3, <1>4, <1>6, <2>1, <2>5, <2>7, TidyCall
<1> QED BY <1>5, <1>6

\* The calendar is as it was.
LEMMA CalendarsStep ==
  ASSUME Inv, EventsInOrder, TidyInOrder, run.pc \in Calls, UNCHANGED <<calendar, cached, runtimes>>,
         UNCHANGED faults \/ Fault, SameReconcile,
         UNCHANGED faults /\ run.pc \in Unlistening =>
           run'.pc \in Unlistening /\ ("calendar" \notin run.kinds => "calendar" \notin run'.kinds),
         Deploying /\ run.spec.calendar /\ run'.pc \in Unlistening => run.pc \in Unlistening
  PROVE  CalendarsAreThere'
<1>1. CalendarsAreThere /\ run.rt \in Names
  BY CallFacts DEF TidyInOrder, SourcesAreThere
<1>2. faults' = MaxFaults => faults = MaxFaults /\ UNCHANGED faults
  <2>1. faults \in 0..MaxFaults /\ MaxFaults \in Nat
    BY SpecsAssumption DEF Inv, RestTyped
  <2> QED BY <2>1 DEF Fault
<1>3. run'.rt = run.rt /\ run'.spec = run.spec /\ (Deploying' <=> Deploying)
  BY DEF SameReconcile, Deploying
<1> QED BY <1>1, <1>2, <1>3 DEF CalendarsAreThere

\* Once a fault happened.
LEMMA NoFaultsLeft == ASSUME Inv, Fault PROVE faults' # MaxFaults
<1>1. faults \in 0..MaxFaults /\ MaxFaults \in Nat
  BY SpecsAssumption DEF Inv, RestTyped
<1> QED BY <1>1 DEF Fault

LEMMA ListenToTidy ==
  ASSUME Inv, EventsInOrder, TidyInOrder, NEW p, ListenTo(p)
  PROVE  TidyInOrder'
<1>1. run.pc = "listen" /\ UNCHANGED <<gitlab, calendar, cached>>
      /\ UNCHANGED <<clusterVars, hooks, objectVars, history>>
  BY DEF ListenTo, At, ListenRest
<1>0. /\ run.pc \in Sourced /\ run.pc \notin Unlistening /\ run.pc \in Calls /\ run.pc # "idle"
      /\ UNCHANGED runtimes /\ UNCHANGED objectVars /\ UNCHANGED <<gitlab, calendar, cached, runtimes>>
  BY <1>1 DEF Sourced, Sourcing, Unlistening, Calls, PC, objectVars
<1>5. Answer(Do("listen", run.todo \ {p})) \/ (run' = Failed /\ Fault)
  BY DEF ListenTo
<1>6. \/ run' = Do("listen", run.todo \ {p}) /\ UNCHANGED faults
      \/ run' = Failed /\ Fault
  BY <1>5 DEF Answer
<1>2. /\ run.todo \subseteq codeRepos
  BY <1>0, <1>1, CallFacts DEF TidyInOrder, SourcesAreThere, ReposAreThere
<1>3. CASE run' = Do("listen", run.todo \ {p}) /\ UNCHANGED faults
  <2>1. /\ Keeps /\ run'.pc = "listen" /\ run'.new = run.new /\ run'.usage = run.usage
        /\ run'.todo = run.todo \ {p} /\ SameReconcile /\ run'.repos = run.repos
    BY <1>0, <1>1, <1>3, RunKeeps DEF Keeps
  <2>2. run'.pc \notin Unlistening
    BY <2>1 DEF Unlistening
  <2>3. SourcesAreThere'
    BY <1>0, <1>1, <1>2, <1>3, <2>1, <2>2, ReposStep, CalendarsStep DEF SourcesAreThere
  <2> QED BY <1>0, <1>1, <1>3, <2>1, <2>3, ListeningTidy
<1>4. CASE run' = Failed /\ Fault
  <2>1. SourcesAreThere'
    BY <1>0, <1>1, <1>4, FellFacts, ReposStep, CalendarsStep DEF SourcesAreThere
  <2> QED BY <1>0, <1>1, <1>4, <2>1, ListeningTidy
<1> QED BY <1>3, <1>4, <1>6

LEMMA ListensToAllTidy ==
  ASSUME Inv, EventsInOrder, TidyInOrder, ListensToAll
  PROVE  TidyInOrder'
<1>1. PICK todo : todo = gitlab[Me].repos \ run.spec.tokens
  OBVIOUS
<1>2. /\ run.pc = "listen" /\ run.pc \in Sourced /\ run.pc \notin Unlistening /\ run.pc \in Calls /\ run.pc # "idle"
      /\ run' = Do("forgetRepos", todo) /\ UNCHANGED faults
      /\ UNCHANGED <<gitlab, calendar, cached, runtimes>>
      /\ UNCHANGED <<clusterVars, hooks, objectVars, history>> /\ UNCHANGED objectVars
  BY <1>1 DEF ListensToAll, Goes, At, Sourced, Sourcing, Unlistening, Calls, PC, listenerVars, objectVars
<1>3. todo \subseteq codeRepos
  BY <1>1, <1>2, CallFacts DEF TidyInOrder, SourcesAreThere, ReposAreThere, Me
<1>4. /\ Keeps /\ run'.pc = "forgetRepos" /\ run'.new = run.new /\ run'.usage = run.usage
      /\ run'.todo = todo /\ SameReconcile /\ run'.repos = run.repos
  BY <1>2, RunKeeps DEF Keeps
<1>5. run'.pc \notin Unlistening /\ run'.pc \in Sourced
  BY <1>4 DEF Unlistening, Sourced, Sourcing
<1>6. SourcesAreThere'
  BY <1>2, <1>3, <1>4, <1>5, ReposStep, CalendarsStep DEF SourcesAreThere
<1> QED BY <1>2, <1>4, <1>5, <1>6, ListeningTidy

LEMMA ForgetRepoTidy ==
  ASSUME Inv, EventsInOrder, TidyInOrder, NEW p, ForgetRepo(p)
  PROVE  TidyInOrder'
<1>1. /\ run.pc \in {"forgetRepos", "unlistenRepos"} /\ run.pc \in Sourced /\ run.pc \in Calls /\ run.pc # "idle"
      /\ p \in run.todo
      /\ UNCHANGED <<gitlab, calendar, cached, runtimes>>
      /\ UNCHANGED <<clusterVars, hooks, objectVars, history>> /\ UNCHANGED objectVars
  BY DEF ForgetRepo, Refuse, Sourced, Sourcing, Unlistening, Calls, PC, listenerVars, objectVars
<1>2. /\ run.todo \subseteq codeRepos /\ run.repos = codeRepos
  BY <1>1, CallFacts DEF TidyInOrder, SourcesAreThere, ReposAreThere
<1>3. \/ run' = Do(run.pc, run.todo \ {p}) /\ UNCHANGED faults
      \/ run' = Failed /\ Fault
  BY <1>1, <1>2 DEF ForgetRepo, Answer
<1>4. CASE run' = Do(run.pc, run.todo \ {p}) /\ UNCHANGED faults
  <2>1. PICK pc : pc = run.pc
    OBVIOUS
  <2>2. run' = Do(pc, run.todo \ {p})
    BY <1>4, <2>1
  <2>3. /\ Keeps /\ run'.pc = pc /\ run'.new = run.new /\ run'.usage = run.usage
        /\ run'.todo = run.todo \ {p} /\ run'.kinds = run.kinds /\ SameReconcile /\ run'.repos = run.repos
    BY <1>1, <2>2, RunKeeps DEF Keeps
  <2>4. SourcesAreThere'
    BY <1>1, <1>2, <1>4, <2>1, <2>3, ReposStep, CalendarsStep DEF SourcesAreThere
  <2> QED BY <1>1, <1>4, <2>1, <2>3, <2>4, ListeningTidy
<1>5. CASE run' = Failed /\ Fault
  <2>1. faults' # faults
    BY <1>5 DEF Fault, Inv, RestTyped
  <2>2. SourcesAreThere'
    BY <1>1, <1>5, <2>1, FellFacts, ReposStep, CalendarsStep DEF SourcesAreThere
  <2> QED BY <1>1, <1>5, <2>2, ListeningTidy
<1> QED BY <1>3, <1>4, <1>5

LEMMA ReposForgottenTidy ==
  ASSUME Inv, EventsInOrder, TidyInOrder, ReposForgotten
  PROVE  TidyInOrder'
<1>1. /\ UNCHANGED faults
      /\ UNCHANGED <<gitlab, calendar, cached, runtimes>>
      /\ UNCHANGED <<clusterVars, hooks, objectVars, history>> /\ UNCHANGED objectVars
  BY DEF ReposForgotten, Goes, listenerVars, objectVars
<1>2. \/ run.pc = "forgetRepos" /\ run' = GoTo("createEntry")
      \/ run.pc = "unlistenRepos" /\ run' = GoTo("deleteEntry")
  BY DEF ReposForgotten, Goes, At
<1>3. run.pc \in Sourced /\ run.pc \in Calls /\ run.pc # "idle"
  BY <1>2 DEF Sourced, Sourcing, Unlistening, Calls, PC
<1>4. /\ Keeps /\ run'.new = run.new /\ run'.usage = run.usage /\ run'.kinds = run.kinds
      /\ SameReconcile /\ run'.repos = run.repos
      /\ \/ run.pc = "forgetRepos" /\ run'.pc = "createEntry"
         \/ run.pc = "unlistenRepos" /\ run'.pc = "deleteEntry"
  BY <1>2, <1>3, RunKeeps DEF Keeps
<1>5. /\ run'.pc \in Sourced /\ (run.pc \in Unlistening <=> run'.pc \in Unlistening)
      /\ run'.pc \notin {"listen", "forgetRepos", "unlistenRepos"}
  BY <1>4 DEF Sourced, Sourcing, Unlistening
<1>6. SourcesAreThere'
  BY <1>1, <1>3, <1>4, <1>5, ReposStep, CalendarsStep DEF SourcesAreThere
<1> QED BY <1>1, <1>3, <1>4, <1>5, <1>6, ListeningTidy

LEMMA CreateEntryPointTidy ==
  ASSUME Inv, EventsInOrder, TidyInOrder, CreateEntryPoint
  PROVE  TidyInOrder'
<1>1. /\ run.pc = "createEntry" /\ run.pc \in Sourced /\ run.pc \notin Unlistening /\ run.pc \in Calls /\ run.pc # "idle"
      /\ Answer(GoTo("createSource"))
      /\ UNCHANGED <<gitlab, calendar, cached, runtimes>>
      /\ UNCHANGED <<clusterVars, hooks, objectVars, history>> /\ UNCHANGED objectVars
  BY DEF CreateEntryPoint, At, Sourced, Sourcing, Unlistening, Calls, PC, ListenRest, objectVars
<1>2. CASE run' = GoTo("createSource") /\ UNCHANGED faults
  <2>1. /\ Keeps /\ run'.pc = "createSource" /\ run'.new = run.new /\ run'.usage = run.usage
        /\ SameReconcile /\ run'.repos = run.repos
    BY <1>1, <1>2, RunKeeps DEF Keeps
  <2>2. run'.pc \notin Unlistening /\ run'.pc \in Sourced
    BY <2>1 DEF Unlistening, Sourced, Sourcing
  <2>3. SourcesAreThere'
    BY <1>1, <1>2, <2>1, <2>2, ReposStep, CalendarsStep DEF SourcesAreThere
  <2> QED BY <1>1, <1>2, <2>1, <2>2, <2>3, ListeningTidy
<1>3. CASE run' = Failed /\ Fault
  <2>1. SourcesAreThere'
    BY <1>1, <1>3, FellFacts, ReposStep, CalendarsStep DEF SourcesAreThere
  <2> QED BY <1>1, <1>3, <2>1, ListeningTidy
<1> QED BY <1>1, <1>2, <1>3 DEF Answer

LEMMA CreateGitlabTidy ==
  ASSUME Inv, EventsInOrder, TidyInOrder, CreateGitlab
  PROVE  TidyInOrder'
<1>1. /\ run.pc = "createSource" /\ run.pc \in Sourced /\ run.pc \notin Unlistening /\ run.pc \in Calls /\ run.pc # "idle"
      /\ Answer(Onwards(run)) /\ CreateGitlabSource(run.rt, run.spec.tokens)
      /\ UNCHANGED <<calendar, cached, runtimes>>
      /\ UNCHANGED <<clusterVars, hooks, objectVars, history>> /\ UNCHANGED objectVars
  BY DEF CreateGitlab, At, Sourced, Sourcing, Unlistening, Calls, PC, ListenRest, objectVars, Me
<1>2. \A r \in Names : gitlab'[r].repos \subseteq gitlab[r].repos \cup run.spec.tokens
  BY <1>1 DEF CreateGitlabSource, Inv, RestTyped, ListenerTypeOK
<1>3. CASE run' = Onwards(run) /\ UNCHANGED faults
  <2>1. run \in RunType
    BY <1>1, RunFacts
  <2>2. \/ run' = [run EXCEPT !.pc = "createCalendar"]
        \/ ~run.spec.calendar /\ run' = [run EXCEPT !.pc = "unlisten", !.kinds = Missing]
    BY <1>3 DEF Onwards
  <2>3. /\ Keeps /\ run'.new = run.new /\ run'.usage = run.usage
        /\ SameReconcile /\ run'.repos = run.repos
        /\ run'.pc = "createCalendar" \/ (run'.pc = "unlisten" /\ ~run.spec.calendar)
    BY <2>1, <2>2 DEF Keeps, SameReconcile, RunType
  <2>4. run'.pc \in Sourced /\ (run'.pc \in Unlistening => ~run.spec.calendar)
        /\ run'.pc \notin {"listen", "forgetRepos", "unlistenRepos"}
    BY <2>3 DEF Unlistening, Sourced
  <2>5. SourcesAreThere'
    BY <1>1, <1>2, <1>3, <2>3, <2>4, ReposStep, CalendarsStep DEF SourcesAreThere
  <2> QED BY <1>1, <1>3, <2>3, <2>4, <2>5, ListeningTidy
<1>4. CASE run' = Failed /\ Fault
  <2>1. SourcesAreThere'
    BY <1>1, <1>2, <1>4, FellFacts, ReposStep, CalendarsStep DEF SourcesAreThere
  <2> QED BY <1>1, <1>4, <2>1, ListeningTidy
<1> QED BY <1>1, <1>3, <1>4 DEF Answer

LEMMA CreateCalendarTidy ==
  ASSUME Inv, EventsInOrder, TidyInOrder, CreateCalendar
  PROVE  TidyInOrder'
<1>1. /\ run.pc = "createCalendar" /\ calendar' = calendar \cup {run.rt}
      /\ UNCHANGED <<gitlab, cached>> /\ UNCHANGED <<clusterVars, hooks, objectVars, history>>
      /\ Answer([run EXCEPT !.pc = "unlisten", !.kinds = Missing])
  BY DEF CreateCalendar, At, ListenRest, Me
<1>2. /\ run.pc \in Sourced /\ run.pc \notin Unlistening /\ run.pc \in Calls /\ run.pc # "idle"
      /\ UNCHANGED runtimes /\ UNCHANGED objectVars
  BY <1>1 DEF Sourced, Sourcing, Unlistening, Calls, PC, objectVars
<1>3. ReposAreThere /\ CalendarsAreThere /\ run \in RunType
  BY <1>2, RunFacts DEF TidyInOrder, SourcesAreThere
<1>4. CASE run' = [run EXCEPT !.pc = "unlisten", !.kinds = Missing] /\ UNCHANGED faults
  <2>1. /\ Keeps /\ run'.pc = "unlisten" /\ run'.new = run.new /\ run'.usage = run.usage
        /\ SameReconcile /\ run'.repos = run.repos
    BY <1>3, <1>4 DEF Keeps, SameReconcile, RunType
  <2>2. run'.pc \in Sourced /\ run'.pc \notin {"listen", "forgetRepos", "unlistenRepos"}
    BY <2>1 DEF Sourced, Unlistening
  <2>3. ReposAreThere'
    BY <1>1, <1>2, <2>1, <2>2, ReposStep
  <2>4. CalendarsAreThere'
    BY <1>1, <1>2, <1>3, <1>4, <2>1 DEF CalendarsAreThere, SameReconcile
  <2> QED BY <1>1, <1>2, <1>4, <2>1, <2>2, <2>3, <2>4, ListeningTidy DEF SourcesAreThere
<1>5. CASE run' = Failed /\ Fault
  <2>1. ReposAreThere'
    BY <1>1, <1>2, <1>5, FellFacts, ReposStep
  <2>2. faults' # MaxFaults /\ run'.pc \notin Unlistening
    BY <1>2, <1>5, FellFacts, NoFaultsLeft
  <2> QED BY <1>1, <1>2, <1>5, <2>1, <2>2, ListeningTidy DEF SourcesAreThere, CalendarsAreThere
<1> QED BY <1>1, <1>4, <1>5 DEF Answer

LEMMA UnlistenGitlabTidy ==
  ASSUME Inv, EventsInOrder, TidyInOrder, UnlistenGitlab
  PROVE  TidyInOrder'
<1>1. PICK todo : todo = gitlab[Me].repos
  OBVIOUS
<1>2. /\ run.pc = "unlisten" /\ UNCHANGED faults
      /\ UNCHANGED <<clusterVars, listenerVars, hooks, objectVars, history>>
      /\ run' = Do("unlistenRepos", todo) \/ run' = [run EXCEPT !.kinds = @ \ {"gitlab"}]
  BY <1>1 DEF UnlistenGitlab, Goes, At
<1>3. /\ run.pc \in Sourced /\ run.pc \in Unlistening /\ run.pc \in Calls /\ run.pc # "idle"
      /\ UNCHANGED <<gitlab, calendar, cached, runtimes>> /\ UNCHANGED objectVars
  BY <1>2 DEF Sourced, Unlistening, Calls, PC, objectVars, listenerVars
<1>4. todo \subseteq codeRepos
  BY <1>1, <1>3, CallFacts DEF TidyInOrder, SourcesAreThere, ReposAreThere, Me
<1>5. run \in RunType
  BY <1>3, RunFacts
<1>6. /\ Keeps /\ run'.new = run.new /\ run'.usage = run.usage
      /\ SameReconcile /\ run'.repos = run.repos
      /\ run'.kinds \subseteq run.kinds
      /\ (run'.pc = "unlistenRepos" /\ run'.todo = todo) \/ run'.pc = "unlisten"
  BY <1>2, <1>5 DEF Do, Keeps, SameReconcile, RunType
<1>7. /\ run'.pc \in Sourced /\ run'.pc \in Unlistening
      /\ run'.pc \in {"listen", "forgetRepos", "unlistenRepos"} => run'.todo \subseteq codeRepos
  BY <1>4, <1>6 DEF Sourced, Unlistening
<1>8. ReposAreThere'
  BY <1>3, <1>6, <1>7, ReposStep
<1>9. CalendarsAreThere'
  BY <1>2, <1>3, <1>6, <1>7, CalendarsStep
<1> QED BY <1>2, <1>3, <1>6, <1>7, <1>8, <1>9, ListeningTidy DEF SourcesAreThere

LEMMA DeleteEntryPointTidy ==
  ASSUME Inv, EventsInOrder, TidyInOrder, DeleteEntryPoint
  PROVE  TidyInOrder'
<1>1. /\ run.pc = "deleteEntry" /\ Answer(GoTo("deleteSource"))
      /\ UNCHANGED <<gitlab, calendar, cached>> /\ UNCHANGED <<clusterVars, hooks, objectVars, history>>
  BY DEF DeleteEntryPoint, At, ListenRest
<1>2. /\ run.pc \in Sourced /\ run.pc \in Unlistening /\ run.pc \in Calls /\ run.pc # "idle"
      /\ UNCHANGED <<gitlab, calendar, cached, runtimes>> /\ UNCHANGED objectVars
  BY <1>1 DEF Sourced, Unlistening, Calls, PC, objectVars
<1>3. CASE run' = GoTo("deleteSource") /\ UNCHANGED faults
  <2>1. /\ Keeps /\ run'.pc = "deleteSource" /\ run'.new = run.new /\ run'.usage = run.usage
        /\ run'.kinds = run.kinds /\ SameReconcile /\ run'.repos = run.repos
    BY <1>2, <1>3, RunKeeps DEF Keeps
  <2>2. run'.pc \in Unlistening /\ run'.pc \in Sourced /\ run'.pc \notin {"listen", "forgetRepos", "unlistenRepos"}
    BY <2>1 DEF Unlistening, Sourced
  <2>3. ReposAreThere'
    BY <1>2, <2>1, <2>2, ReposStep
  <2>4. CalendarsAreThere'
    BY <1>2, <1>3, <2>1, <2>2, CalendarsStep
  <2> QED BY <1>1, <1>2, <1>3, <2>1, <2>2, <2>3, <2>4, ListeningTidy DEF SourcesAreThere
<1>4. CASE run' = Failed /\ Fault
  <2>1. ReposAreThere'
    BY <1>2, <1>4, FellFacts, ReposStep
  <2>2. faults' # MaxFaults /\ run'.pc \notin Unlistening
    BY <1>2, <1>4, FellFacts, NoFaultsLeft
  <2> QED BY <1>1, <1>2, <1>4, <2>1, <2>2, ListeningTidy DEF SourcesAreThere, CalendarsAreThere
<1> QED BY <1>1, <1>3, <1>4 DEF Answer

LEMMA DeleteGitlabTidy ==
  ASSUME Inv, EventsInOrder, TidyInOrder, DeleteGitlab
  PROVE  TidyInOrder'
<1>1. /\ run.pc = "deleteSource" /\ DeleteGitlabSource(run.rt)
      /\ Answer([run EXCEPT !.pc = "unlisten", !.kinds = @ \ {"gitlab"}])
      /\ UNCHANGED <<calendar, cached>> /\ UNCHANGED <<clusterVars, hooks, objectVars, history>>
  BY DEF DeleteGitlab, At, ListenRest, Me
<1>2. /\ run.pc \in Sourced /\ run.pc \in Unlistening /\ run.pc \in Calls /\ run.pc # "idle"
      /\ UNCHANGED <<calendar, cached, runtimes>> /\ UNCHANGED objectVars
  BY <1>1 DEF Sourced, Unlistening, Calls, PC, objectVars
<1>3. run \in RunType
  BY <1>2, RunFacts
<1>4. \A r \in Names : gitlab'[r].repos \subseteq gitlab[r].repos \cup run.spec.tokens
  BY <1>1 DEF DeleteGitlabSource, Inv, RestTyped, ListenerTypeOK, NoSource
<1>5. CASE run' = [run EXCEPT !.pc = "unlisten", !.kinds = @ \ {"gitlab"}] /\ UNCHANGED faults
  <2>1. /\ Keeps /\ run'.pc = "unlisten" /\ run'.new = run.new /\ run'.usage = run.usage
        /\ run'.kinds \subseteq run.kinds /\ SameReconcile /\ run'.repos = run.repos
    BY <1>3, <1>5 DEF Keeps, SameReconcile, RunType
  <2>2. run'.pc \in Unlistening /\ run'.pc \in Sourced /\ run'.pc \notin {"listen", "forgetRepos", "unlistenRepos"}
    BY <2>1 DEF Unlistening, Sourced
  <2>3. ReposAreThere'
    BY <1>2, <1>4, <2>1, <2>2, ReposStep
  <2>4. CalendarsAreThere'
    BY <1>2, <1>5, <2>1, <2>2, CalendarsStep
  <2> QED BY <1>1, <1>2, <1>5, <2>1, <2>2, <2>3, <2>4, ListeningTidy DEF SourcesAreThere
<1>6. CASE run' = Failed /\ Fault
  <2>1. ReposAreThere'
    BY <1>2, <1>4, <1>6, FellFacts, ReposStep
  <2>2. faults' # MaxFaults /\ run'.pc \notin Unlistening
    BY <1>2, <1>6, FellFacts, NoFaultsLeft
  <2> QED BY <1>1, <1>2, <1>6, <2>1, <2>2, ListeningTidy DEF SourcesAreThere, CalendarsAreThere
<1> QED BY <1>1, <1>5, <1>6 DEF Answer

\* A calendar that is to be deleted is there unless something failed before.
LEMMA DeleteCalendarTidy ==
  ASSUME Inv, EventsInOrder, TidyInOrder, DeleteCalendar
  PROVE  TidyInOrder'
<1>1. /\ run.pc = "unlisten" /\ "calendar" \in run.kinds
      /\ UNCHANGED <<clusterVars, gitlab, cached, hooks, objectVars, history>>
      /\ \/ calendar' = calendar \ {run.rt} /\ Answer([run EXCEPT !.kinds = @ \ {"calendar"}])
         \/ run.rt \notin calendar /\ UNCHANGED calendar /\ run' = Failed /\ UNCHANGED faults
  BY DEF DeleteCalendar, CanDeleteCalendar, At, Me, Refuse, listenerVars
<1>2. /\ run.pc \in Sourced /\ run.pc \in Unlistening /\ run.pc \in Calls /\ run.pc # "idle"
      /\ UNCHANGED <<gitlab, cached, runtimes>> /\ UNCHANGED objectVars
      /\ UNCHANGED <<clusterVars, hooks, objectVars, history>>
  BY <1>1 DEF Sourced, Unlistening, Calls, PC, objectVars
<1>3. /\ run \in RunType /\ run.rt \in Names
  BY <1>2, RunFacts
<1>4. /\ "calendar" \in cached[run.rt] /\ ~(Deploying /\ run.spec.calendar)
  <2>1. PICK r, target : r = run.rt /\ target = Target
    OBVIOUS
  <2>2. r \in Names
    BY <1>3, <2>1
  <2>3. /\ run.kinds \subseteq cached[r] \ KindsOf(target)
        /\ "calendar" \in run.kinds => target.calendar = FALSE
    BY <1>2, <2>1, <2>2, UnlisteningFacts
  <2> QED BY <1>1, <2>1, <2>3 DEF Target
<1>5. ReposAreThere /\ CalendarsAreThere
  BY DEF TidyInOrder, SourcesAreThere
<1>6. CASE /\ calendar' = calendar \ {run.rt} /\ UNCHANGED faults
           /\ run' = [run EXCEPT !.kinds = @ \ {"calendar"}]
  <2>1. /\ Keeps /\ run'.pc = "unlisten" /\ run'.new = run.new /\ run'.usage = run.usage
        /\ run'.kinds = run.kinds \ {"calendar"} /\ SameReconcile /\ run'.repos = run.repos
    BY <1>1, <1>3, <1>6 DEF Keeps, SameReconcile, RunType
  <2>2. run'.pc \in Unlistening /\ run'.pc \in Sourced /\ run'.pc \notin {"listen", "forgetRepos", "unlistenRepos"}
    BY <2>1 DEF Unlistening, Sourced
  <2>3. ReposAreThere'
    BY <1>2, <2>1, <2>2, ReposStep
  <2>4. /\ run'.rt = run.rt /\ run'.spec = run.spec /\ (Deploying' <=> Deploying)
    BY <2>1 DEF SameReconcile, Deploying
  <2>5. CalendarsAreThere'
    BY <1>2, <1>4, <1>5, <1>6, <2>1, <2>2, <2>4 DEF CalendarsAreThere
  <2> QED BY <1>1, <1>2, <1>6, <2>1, <2>2, <2>3, <2>5, ListeningTidy DEF SourcesAreThere
<1>7. CASE run' = Failed /\ Fault
  <2>1. ReposAreThere'
    BY <1>2, <1>7, FellFacts, ReposStep
  <2>2. faults' # MaxFaults /\ run'.pc \notin Unlistening
    BY <1>2, <1>7, FellFacts, NoFaultsLeft
  <2> QED BY <1>1, <1>2, <1>7, <2>1, <2>2, ListeningTidy DEF SourcesAreThere, CalendarsAreThere
<1>8. CASE run.rt \notin calendar /\ UNCHANGED calendar /\ run' = Failed /\ UNCHANGED faults
  <2>1. faults < MaxFaults /\ faults # MaxFaults
    <3>1. faults # MaxFaults
      BY <1>1, <1>3, <1>4, <1>5, <1>8 DEF CalendarsAreThere
    <3>2. faults \in 0..MaxFaults /\ MaxFaults \in Nat
      BY SpecsAssumption DEF Inv, RestTyped
    <3> QED BY <3>1, <3>2
  <2>2. ReposAreThere'
    BY <1>2, <1>8, FellFacts, ReposStep
  <2>3. run'.pc \notin Unlistening
    BY <1>2, <1>8, FellFacts
  <2>4. CalendarsAreThere'
    BY <1>8, <2>1, <2>3 DEF CalendarsAreThere
  <2> QED BY <1>2, <1>8, <2>1, <2>2, <2>4, ListeningTidy DEF SourcesAreThere
<1> QED BY <1>1, <1>6, <1>7, <1>8 DEF Answer

LEMMA RecordKindsTidy ==
  ASSUME Inv, EventsInOrder, TidyInOrder, RecordKinds
  PROVE  TidyInOrder'
<1>1. PICK pc : pc = IF Deploying THEN "createHook" ELSE "deleteSensors"
  OBVIOUS
<1>2. /\ run.pc = "unlisten" /\ run.kinds = {}
      /\ cached' = [cached EXCEPT ![run.rt] = IF Deploying THEN KindsOf(run.spec)
                                              ELSE IF run.old.id THEN {} ELSE @]
      /\ UNCHANGED <<gitlab, calendar>> /\ UNCHANGED <<clusterVars, hooks, objectVars, history>>
      /\ Answer(GoTo(pc))
  BY <1>1 DEF RecordKinds, At, Me, ListenRest
<1>3. /\ run.pc \in Sourced /\ run.pc \in Unlistening /\ run.pc \in Calls /\ run.pc # "idle"
      /\ UNCHANGED <<gitlab, runtimes>> /\ UNCHANGED objectVars
  BY <1>2 DEF Sourced, Unlistening, Calls, PC, objectVars
<1>4. /\ run \in RunType /\ run.rt \in Names /\ (Deploying <=> ~Deleting)
      /\ run.old = runtimes[run.rt].cache /\ (Deleting => runtimes[run.rt].phase = "deleting")
  BY <1>3, RunFacts
<1>5. Deleting => run.old.id
  BY <1>4 DEF EventsInOrder, ObjectsListen
<1>6. ReposAreThere /\ CalendarsAreThere
  BY DEF TidyInOrder, SourcesAreThere
<1>7. CASE run' = GoTo(pc) /\ UNCHANGED faults
  <2>1. /\ Keeps /\ run'.pc = pc /\ run'.new = run.new /\ run'.usage = run.usage
        /\ SameReconcile /\ run'.repos = run.repos
    BY <1>3, <1>7, RunKeeps DEF Keeps
  <2>2. run'.pc \notin Unlistening /\ run'.pc \notin {"listen", "forgetRepos", "unlistenRepos"}
    BY <1>1, <2>1 DEF Unlistening
  <2>3. ReposAreThere'
    BY <1>3, <1>2, <2>1, <2>2, ReposStep
  <2>4. ASSUME NEW r \in Names, faults = MaxFaults, "calendar" \in cached'[r] PROVE r \in calendar
    <3>1. CASE r # run.rt
      <4>1. cached'[r] = cached[r]
        BY <1>2, <3>1 DEF Inv, RestTyped, ListenerTypeOK
      <4> QED BY <1>6, <2>4, <3>1, <4>1 DEF CalendarsAreThere
    <3>2. CASE r = run.rt
      <4>1. cached'[r] = IF Deploying THEN KindsOf(run.spec) ELSE {}
        BY <1>2, <1>4, <1>5, <3>2 DEF Inv, RestTyped, ListenerTypeOK
      <4>2. Deploying /\ run.spec.calendar
        BY <2>4, <4>1 DEF KindsOf
      <4> QED BY <1>3, <1>6, <3>2, <4>2 DEF CalendarsAreThere
    <3> QED BY <3>1, <3>2
  <2>5. CalendarsAreThere'
    BY <1>2, <1>7, <2>2, <2>4 DEF CalendarsAreThere
  <2> QED BY <1>1, <1>2, <1>3, <1>4, <1>7, <2>1, <2>3, <2>5, ListeningTidy DEF SourcesAreThere
<1>8. CASE run' = Failed /\ Fault
  <2>1. ReposAreThere'
    BY <1>2, <1>3, <1>8, FellFacts, ReposStep
  <2>2. faults' # MaxFaults /\ run'.pc \notin Unlistening
    BY <1>3, <1>8, FellFacts, NoFaultsLeft
  <2> QED BY <1>2, <1>3, <1>8, <2>1, <2>2, ListeningTidy DEF SourcesAreThere, CalendarsAreThere
<1> QED BY <1>2, <1>7, <1>8 DEF Answer

LEMMA SensingTidy ==
  ASSUME Inv, EventsInOrder, TidyInOrder, run.pc \in Sensing \cup {"deleteSensors"},
         UNCHANGED <<gitlab, calendar, cached, clusterVars, hooks, objectVars, history>>,
         \/ run' = Failed /\ (Fault \/ (UNCHANGED faults /\ run.pc \in Sensing))
         \/ /\ Keeps /\ run'.new = run.new /\ run'.usage = run.usage /\ UNCHANGED faults
            /\ \/ run.pc \in Sensing /\ run'.pc \in {"surplusSensors", "app"}
               \/ run.pc = "deleteSensors" /\ run'.pc = "removeHook"
  PROVE  TidyInOrder'
<1>1. /\ run.pc \notin Unlistening /\ run.pc \in Calls /\ run.pc # "idle"
      /\ UNCHANGED <<gitlab, calendar, cached, runtimes>> /\ UNCHANGED objectVars
      /\ UNCHANGED <<clusterVars, hooks, objectVars, history>> /\ (UNCHANGED faults \/ Fault)
  BY DEF Sensing, Unlistening, Calls, PC, objectVars
<1>2. SameReconcile /\ run'.repos = run.repos
  BY <1>1, FellFacts DEF Keeps
<1>3. run'.pc \notin Unlistening /\ run'.pc \notin {"listen", "forgetRepos", "unlistenRepos"}
  <2>1. CASE run' = Failed
    BY <1>1, <2>1, FellFacts
  <2>2. CASE run'.pc \in {"surplusSensors", "app", "removeHook"}
    BY <2>2 DEF Unlistening
  <2> QED BY <2>1, <2>2
<1>4. ReposAreThere'
  BY <1>1, <1>2, <1>3, ReposStep
<1>5. CalendarsAreThere'
  BY <1>1, <1>2, <1>3, CalendarsStep
<1>6. run.pc \in Sensing => HookRemoved
  <2>1. run.pc \in Sensing => run.pc \in ListeningPCs \cup {"deleteSensors"}
        /\ run.pc \notin Unlistening \cup {"removeHook", "deleteSensors"}
    BY DEF Sensing, ListeningPCs, Unlistening
  <2>2. run.pc \in Sensing => Deploying
    BY <2>1, ListeningFacts
  <2> QED BY <2>2 DEF HookRemoved, Sensing, HookSynced
<1> QED BY <1>1, <1>4, <1>5, <1>6, ListeningTidy DEF SourcesAreThere

LEMMA CreateSensorsTidy ==
  ASSUME Inv, EventsInOrder, TidyInOrder, CreateSensorsOf
  PROVE  TidyInOrder'
<1>1. PICK surplus : surplus = SurplusSensors(Me, run.spec.triggers)
  OBVIOUS
<1>2. /\ run.pc = "createSensors"
      /\ UNCHANGED <<gitlab, calendar, cached, clusterVars, hooks, objectVars, history>>
      /\ \/ Answer([run EXCEPT !.pc = "surplusSensors", !.surplus = surplus])
         \/ run' = Failed /\ Fault
  BY <1>1 DEF CreateSensorsOf, At, SensorRest, ListenRest
<1>3. run \in RunType
  BY <1>2, RunFacts
<1>4. CASE run' = [run EXCEPT !.pc = "surplusSensors", !.surplus = surplus] /\ UNCHANGED faults
  <2>1. /\ Keeps /\ run'.new = run.new /\ run'.usage = run.usage /\ run'.pc = "surplusSensors"
    BY <1>3, <1>4 DEF Keeps, SameReconcile, RunType
  <2> QED BY <1>2, <1>4, <2>1, SensingTidy DEF Sensing
<1>5. CASE run' = Failed /\ Fault
  BY <1>2, <1>5, SensingTidy DEF Sensing
<1> QED BY <1>2, <1>4, <1>5 DEF Answer

LEMMA DeleteSurplusTidy ==
  ASSUME Inv, EventsInOrder, TidyInOrder, NEW i, DeleteSurplus(i)
  PROVE  TidyInOrder'
<1>1. /\ run.pc = "surplusSensors"
      /\ UNCHANGED <<gitlab, calendar, cached, clusterVars, hooks, objectVars, history>>
      /\ \/ Answer([run EXCEPT !.surplus = @ \ {i}])
         \/ run' = Failed /\ UNCHANGED faults
  BY DEF DeleteSurplus, At, Refuse, listenerVars
<1>2. run \in RunType
  BY <1>1, RunFacts
<1>3. CASE run' = [run EXCEPT !.surplus = @ \ {i}] /\ UNCHANGED faults
  <2>1. /\ Keeps /\ run'.new = run.new /\ run'.usage = run.usage /\ run'.pc = "surplusSensors"
    BY <1>1, <1>2, <1>3 DEF Keeps, SameReconcile, RunType
  <2> QED BY <1>1, <1>3, <2>1, SensingTidy DEF Sensing
<1>4. CASE run' = Failed /\ (Fault \/ UNCHANGED faults)
  BY <1>1, <1>4, SensingTidy DEF Sensing
<1> QED BY <1>1, <1>3, <1>4 DEF Answer

LEMMA SensorsSyncedTidy ==
  ASSUME Inv, EventsInOrder, TidyInOrder, SensorsSynced
  PROVE  TidyInOrder'
<1>1. /\ run.pc = "surplusSensors" /\ run' = GoTo("app") /\ UNCHANGED faults
      /\ UNCHANGED <<gitlab, calendar, cached, clusterVars, hooks, objectVars, history>>
  BY DEF SensorsSynced, At, Goes, listenerVars
<1>2. /\ Keeps /\ run'.new = run.new /\ run'.usage = run.usage /\ run'.pc = "app"
  BY <1>1, RunKeeps
<1> QED BY <1>1, <1>2, SensingTidy DEF Sensing

LEMMA DeleteSensorsTidy ==
  ASSUME Inv, EventsInOrder, TidyInOrder, DeleteAllSensors
  PROVE  TidyInOrder'
<1>1. /\ run.pc = "deleteSensors" /\ Answer(GoTo("removeHook"))
      /\ UNCHANGED <<gitlab, calendar, cached, clusterVars, hooks, objectVars, history>>
  BY DEF DeleteAllSensors, At, SensorRest, ListenRest
<1>2. CASE run' = GoTo("removeHook") /\ UNCHANGED faults
  <2>1. /\ Keeps /\ run'.new = run.new /\ run'.usage = run.usage /\ run'.pc = "removeHook"
    BY <1>1, <1>2, RunKeeps
  <2> QED BY <1>1, <1>2, <2>1, SensingTidy
<1>3. CASE run' = Failed /\ Fault
  BY <1>1, <1>3, SensingTidy
<1> QED BY <1>1, <1>2, <1>3 DEF Answer

-----------------------------------------------------------------------------
(* Hook secrets.                                                            *)

LEMMA HookingTidy ==
  ASSUME Inv, EventsInOrder, TidyInOrder, run.pc \in {"createHook", "removeHook"},
         UNCHANGED <<clusterVars, listenerVars, objectVars, history>>, UNCHANGED faults \/ Fault,
         SameReconcile, run'.repos = run.repos, run'.usage = run.usage,
         run'.new.account = run.new.account, run'.new.perms = run.new.perms,
         run'.new.space = run.new.space, run'.new.app = run.new.app,
         \/ Fails /\ run'.new.hook = run.new.hook
         \/ /\ ~run'.failed
            /\ \/ run.pc = "createHook" /\ run'.pc = "removeHook" /\ run'.new.hook = run.new.hook
               \/ /\ run.pc = "removeHook" /\ Deploying
                  /\ run'.pc = "createSensors" /\ run'.new.hook = HookOf(run.spec)
               \/ run.pc = "removeHook" /\ Deleting /\ run'.pc = "app",
         HooksAreTidy'
  PROVE  TidyInOrder'
<1>1. /\ run.pc \in Calls /\ run.pc # "idle" /\ run.pc \notin Unlistening
      /\ UNCHANGED <<ns, accounts, roles, apps, usage, runtimes, recorded, late, left, abandoned>>
      /\ UNCHANGED <<listenerVars, objectVars>>
  BY DEF Calls, PC, Unlistening, clusterVars, objectVars, history
<1>2. /\ ObjectsAreTidy /\ AccountsAreTidy /\ SpacesAreTidy /\ ProductIsTidy /\ AppsAreTidy
      /\ ~run.failed /\ (Deploying <=> ~Deleting)
      /\ run.pc = "createHook" => Deploying
  <2>1. run.pc = "createHook" =>
          run.pc \in ListeningPCs /\ run.pc \notin Unlistening \cup {"removeHook", "deleteSensors"}
    BY DEF ListeningPCs, Unlistening
  <2> QED BY <1>1, <2>1, CallFacts, ListeningFacts DEF TidyInOrder
<1>3. AccountsGrow /\ SpacesGrow
  BY <1>1, <1>2, SameAccountsGrow DEF AccountsAreTidy, SpacesGrow, Operable
<1>4. run.pc \in FromSynced /\ run.pc \in FromSpace /\ run.pc \notin HookSynced /\ run.pc \notin FromSaved
  BY DEF FromSynced, FromSpace, FromAccount, FromUser, FromRole, FromGranted, ListeningPCs, HookSynced, FromSaved
<1>5. /\ run'.pc \in {"saveUsage", "removeHook", "createSensors", "app"}
      /\ run'.pc = "saveUsage" <=> run'.failed
      /\ Deploying => run'.pc # "app"
  BY <1>2 DEF Fails
<1>6. /\ run'.pc \in FromSpace /\ run'.pc \in FromSynced
      /\ run'.pc \notin {"saveStatus", "removeFinalizer"}
      /\ run'.pc \notin Unlistening \cup {"listen", "forgetRepos"}
      /\ ~run'.failed => run'.pc \notin Ended \cup FromSaved /\ run'.pc \notin {"deleteSpace"} \cup Leaving
  BY <1>5 DEF FromSpace, FromAccount, FromUser, FromRole, FromGranted, FromSynced, ListeningPCs, FromSaved,
             Unlistening, Ended, Ending, Leaving
<1>7. /\ (Deploying' <=> Deploying) /\ (Deleting' <=> Deleting)
      /\ run'.spec = run.spec /\ run'.old = run.old /\ run'.rt = run.rt
  BY DEF SameReconcile, Deploying, Deleting
<1>8. NewIsMade'
  <2>1. NewIsMade /\ run.rt \in Names
    BY <1>1, <1>2, CallFacts DEF ObjectsAreTidy
  <2>2. Deploying => run.new.hook = run.old.hook
    BY <1>2, <1>4, <2>1 DEF NewIsMade
  <2>3. Deploying /\ ~run'.failed =>
          IF run'.pc \in HookSynced THEN run'.new.hook = HookOf(run.spec) ELSE run'.new.hook = run.old.hook
    <3>1. "createSensors" \in HookSynced /\ "removeHook" \notin HookSynced
      BY DEF HookSynced, FromSaved
    <3> QED BY <1>2, <2>2, <3>1 DEF Fails
  <2>4. Deploying => run'.new.hook = run.old.hook \/ run'.new.hook = HookOf(run.spec)
    BY <1>2, <2>2 DEF Fails
  <2> QED BY <1>2, <1>4, <1>6, <1>7, <2>1, <2>3, <2>4 DEF NewIsMade
<1>9. ObjectsAreTidy'
  BY <1>1, <1>2, <1>8, ObjectsStep
<1>10. SpacesAreTidy'
  BY <1>1, <1>2, <1>3, <1>6, SpacesStep
<1>11. ProductIsTidy'
  BY <1>1, <1>2, <1>6, ProductStep DEF Ended
<1>12. AppsAreTidy'
  BY <1>1, <1>2, <1>6, <1>7, AppsStep DEF AppSynced
<1>13. SourcesAreThere'
  BY <1>1, <1>6, SameSources
<1>14. AccountsAreTidy'
  <2>1. ~run'.failed => DeploymentIsTidy' /\ DeletionIsTidy'
    <3>1. ASSUME ~run'.failed PROVE run'.pc \notin {"revokeOld", "deleteAccount"}
                                    /\ run'.pc \notin {"deleteSpace"} \cup Ended
      BY <1>6, <3>1 DEF Leaving
    <3> QED BY <1>1, <1>2, <1>3, <1>4, <1>6, <3>1, ProgressStep
  <2> QED BY <1>1, <1>2, <1>3, <1>6, <2>1, AccountsStep
<1> QED BY <1>9, <1>10, <1>11, <1>12, <1>13, <1>14 DEF TidyInOrder

LEMMA CreateHookTidy ==
  ASSUME Inv, EventsInOrder, TidyInOrder, CreateHook
  PROVE  TidyInOrder'
<1>1. run.pc = "createHook" /\ UNCHANGED <<objectVars, history>>
  BY DEF CreateHook, At
<1>2. /\ run.pc \in ListeningPCs /\ run.pc \notin Unlistening \cup {"removeHook", "deleteSensors"}
      /\ run.pc \in Calls /\ run.pc # "idle" /\ run.pc \in FromSpace /\ run.pc \notin HookSynced
  BY <1>1 DEF ListeningPCs, Unlistening, Calls, PC, FromSpace, FromAccount, FromUser, FromRole, FromGranted,
              FromSynced, HookSynced, FromSaved
<1>3. /\ Deploying /\ ~Deleting /\ ~run.failed /\ run.rt \in Names /\ run.spec \in Specs
      /\ hooks \in [Spaces -> Repos \cup {NoRepo}] /\ run.spec.space \in Spaces
      /\ ObjectsAreTidy /\ HooksAreTidy /\ run.spec.source \in Repos
  BY <1>2, CallFacts, ListeningFacts DEF TidyInOrder
<1>4. Operable(run.spec.space)
  BY <1>2, <1>3 DEF Inv, DeploymentProgress
<1>5. /\ hooks' = IF run.spec.triggers > 0
                  THEN [hooks EXCEPT ![run.spec.space] = HookOf(run.spec)] ELSE hooks
      /\ Answer(GoTo("removeHook")) /\ UNCHANGED <<clusterVars, listenerVars>>
  BY <1>4 DEF CreateHook
<1>6. /\ SameReconcile /\ run'.repos = run.repos /\ run'.usage = run.usage /\ run'.new = run.new
      /\ \/ Fails /\ Fault
         \/ ~run'.failed /\ run'.pc = "removeHook" /\ UNCHANGED faults
  <2>1. CASE run' = GoTo("removeHook") /\ UNCHANGED faults
    BY <1>2, <1>3, <2>1, RunKeeps DEF Keeps
  <2>2. CASE run' = Failed /\ Fault
    BY <1>2, <2>2, FellFacts
  <2> QED BY <1>5, <2>1, <2>2 DEF Answer
<1>7. ASSUME NEW s \in Spaces, hooks'[s] # NoRepo
      PROVE  (s \in left' /\ faults' < MaxFaults) \/ \E r \in Names : ClaimsHook(r, s)'
  <2>1. CASE hooks'[s] = hooks[s]
    <3>1. \A r : ClaimsHook(r, s)' <=> ClaimsHook(r, s)
      BY <1>1, <2>1 DEF ClaimsHook, Live, Exists, objectVars
    <3>2. (s \in left /\ faults < MaxFaults) \/ \E r \in Names : ClaimsHook(r, s)
      BY <1>3, <1>7, <2>1 DEF HooksAreTidy
    <3>3. UNCHANGED left /\ (faults < MaxFaults => faults' < MaxFaults)
      BY <1>1, <1>6, FaultsGrow DEF objectVars
    <3> QED BY <3>1, <3>2, <3>3
  <2>2. CASE hooks'[s] # hooks[s]
    <3>1. s = run.spec.space /\ hooks'[s] = HookOf(run.spec) /\ HookOf(run.spec) # NoRepo
      BY <1>3, <1>5, <1>7, <2>2
    <3>2. PICK q \in Names : q = run.rt
      BY <1>3
    <3>3. /\ Live(q) /\ Exists(q) /\ runtimes[q].cache = run.old
          /\ ~run.stale => runtimes[q].spec = run.spec
          /\ run.stale => Complete(run.old, run.spec)
      BY <1>2, <1>3, <3>2, OwnRun
    <3>4. \/ runtimes[q].spec.space = s /\ hooks'[s] = HookOf(runtimes[q].spec)
          \/ /\ runtimes[q].cache.space = s /\ runtimes[q].cache.hook # NoRepo
             /\ runtimes[q].spec.space # s \/ runtimes[q].cache.hook # HookOf(runtimes[q].spec)
      BY <3>1, <3>3 DEF Complete
    <3>5. ClaimsHook(q, s)'
      BY <1>1, <3>3, <3>4 DEF ClaimsHook, Live, Exists, objectVars
    <3> QED BY <3>5
  <2> QED BY <2>1, <2>2
<1>8. HooksAreTidy'
  <2>1. run.new.hook = run.old.hook
    BY <1>2, <1>3 DEF ObjectsAreTidy, NewIsMade
  <2>2. ~HookRemoved' \/ run'.failed
    <3>1. "removeHook" \notin HookSynced
      BY DEF HookSynced, FromSaved
    <3> QED BY <1>3, <1>6, <3>1 DEF HookRemoved, SameReconcile, Deploying, Fails
  <2>3. run'.failed => faults' < MaxFaults
    BY <1>6, FaultsGrow
  <2>4. run'.old = run.old /\ Deploying' /\ ~Deleting'
    BY <1>3, <1>6 DEF SameReconcile, Deploying, Deleting
  <2> QED BY <1>6, <1>7, <2>1, <2>2, <2>3, <2>4 DEF HooksAreTidy
<1> QED BY <1>1, <1>5, <1>6, <1>8, HookingTidy

LEMMA RemoveHookTidy ==
  ASSUME Inv, EventsInOrder, TidyInOrder, RemoveHook
  PROVE  TidyInOrder'
<1> DEFINE unused == CASE Deleting -> run.old.hook # NoRepo /\ run.old.space # NoSpace
                       [] run.old.hook = NoRepo -> FALSE
                       [] OTHER -> \/ run.old.space # run.spec.space
                                   \/ run.old.hook # HookOf(run.spec)
           pc == IF Deploying THEN "createSensors" ELSE "app"
           hook == IF Deploying THEN HookOf(run.spec) ELSE NoRepo
           n == [run.new EXCEPT !.hook = hook]
<1>1. /\ run.pc = "removeHook" /\ UNCHANGED <<clusterVars, listenerVars, objectVars, history>>
      /\ hooks' = IF unused THEN [hooks EXCEPT ![run.old.space] = NoRepo] ELSE hooks
      /\ Answer([run EXCEPT !.pc = pc, !.new.hook = hook])
  BY DEF RemoveHook, At, HookRest
<1>2. /\ run.pc \in Calls /\ run.pc # "idle" /\ run.pc \notin HookSynced
      /\ run.pc \notin {"app", "deleteSpace"} \cup Leaving \cup Ended
  BY <1>1 DEF Calls, PC, HookSynced, FromSaved, Leaving, Ended, Ending
<1>3. /\ ~run.failed /\ run.rt \in Names /\ (Deploying <=> ~Deleting)
      /\ hooks \in [Spaces -> Repos \cup {NoRepo}] /\ ObjectsAreTidy /\ HooksAreTidy
      /\ run \in RunType /\ run.new \in Cache /\ run.old \in Cache
  BY <1>2, CallFacts, RunFacts DEF TidyInOrder, Inv, RestTyped
<1>4. HookIsGone => HookIsGone'
  <2>1. \A s \in Spaces : hooks[s] = NoRepo => hooks'[s] = NoRepo
    BY <1>1, <1>3
  <2>2. run.old.space # NoSpace => run.old.space \in Spaces
    BY <1>3 DEF Cache
  <2>3. ASSUME SameReconcile PROVE HookIsGone => HookIsGone'
    BY <2>1, <2>2, <2>3 DEF HookIsGone, SameReconcile, Deploying
  <2>4. SameReconcile
    <3>1. CASE run' = Failed
      BY <1>2, <3>1, FellFacts
    <3>2. CASE run' = [run EXCEPT !.pc = pc, !.new.hook = hook]
      BY <1>3, <3>2 DEF SameReconcile, RunType
    <3> QED BY <1>1, <3>1, <3>2 DEF Answer
  <2> QED BY <2>3, <2>4
<1>5. /\ run.new.hook # run.old.hook => HookIsGone
      /\ Deleting /\ run.new.space # run.old.space => HookIsGone
  BY <1>3 DEF HooksAreTidy
<1>6. ASSUME NEW s \in Spaces, hooks'[s] # NoRepo, UNCHANGED faults \/ Fault
      PROVE  (s \in left' /\ faults' < MaxFaults) \/ \E r \in Names : ClaimsHook(r, s)'
  <2>1. hooks'[s] = hooks[s]
    BY <1>1, <1>3, <1>6
  <2>2. \A r : ClaimsHook(r, s)' <=> ClaimsHook(r, s)
    BY <1>1, <2>1 DEF ClaimsHook, Live, Exists, objectVars
  <2>3. (s \in left /\ faults < MaxFaults) \/ \E r \in Names : ClaimsHook(r, s)
    BY <1>3, <1>6, <2>1 DEF HooksAreTidy
  <2>4. UNCHANGED left /\ (faults < MaxFaults => faults' < MaxFaults)
    BY <1>1, <1>6, FaultsGrow DEF objectVars
  <2> QED BY <2>2, <2>3, <2>4
<1>7. CASE run' = Failed /\ Fault
  <2>1. /\ Fails /\ SameReconcile /\ run'.new = run.new /\ run'.usage = run.usage /\ run'.repos = run.repos
    BY <1>2, <1>7, FellFacts
  <2>2. faults' < MaxFaults
    BY <1>7, FaultsGrow
  <2>3. /\ run'.old = run.old /\ (Deploying' <=> Deploying) /\ (Deleting' <=> Deleting) /\ run'.failed
    BY <2>1 DEF SameReconcile, Deploying, Deleting, Fails
  <2>4. HooksAreTidy'
    BY <1>3, <1>4, <1>5, <1>6, <1>7, <2>1, <2>2, <2>3 DEF HooksAreTidy
  <2> QED BY <1>1, <1>7, <2>1, <2>4, HookingTidy
<1>8. CASE run' = [run EXCEPT !.pc = pc, !.new.hook = hook] /\ UNCHANGED faults
  <2>1. run' = [run EXCEPT !.pc = pc, !.new = n]
    BY <1>3, <1>8 DEF RunType, Cache
  <2>2. /\ n.hook = hook /\ n.account = run.new.account /\ n.perms = run.new.perms
        /\ n.space = run.new.space /\ n.app = run.new.app
    BY <1>3 DEF Cache
  <2> HIDE DEF n
  <2>3. /\ Keeps /\ run'.pc = pc /\ run'.new = n /\ run'.usage = run.usage /\ SameReconcile /\ run'.repos = run.repos
        /\ ~run'.failed
    <3>1. PICK next, m : next = pc /\ m = n
      OBVIOUS
    <3>2. run' = [run EXCEPT !.pc = next, !.new = m]
      BY <2>1, <3>1
    <3>3. Keeps /\ run'.pc = next /\ run'.new = m /\ run'.usage = run.usage
      BY ZenonT(60), <1>2, <3>2, RunKeeps
    <3> HIDE DEF pc
    <3> QED BY <1>3, <3>1, <3>3 DEF Keeps
  <2>4. HookIsGone'
    <3>1. run'.old = run.old /\ run'.spec = run.spec /\ (Deploying' <=> Deploying)
      BY <2>3 DEF SameReconcile, Deploying
    <3>2. run.old.space # NoSpace => run.old.space \in Spaces
      BY <1>3 DEF Cache
    <3>3. ASSUME run.old.hook # NoRepo, run.old.space # NoSpace,
                 Deploying => run.old.space # run.spec.space \/ run.old.hook # HookOf(run.spec)
          PROVE  hooks'[run.old.space] = NoRepo
      BY <1>1, <1>3, <3>2, <3>3
    <3> QED BY <3>1, <3>3 DEF HookIsGone
  <2>5. HooksAreTidy'
    BY <1>6, <1>8, <2>3, <2>4 DEF HooksAreTidy
  <2> QED BY <1>1, <1>3, <1>8, <2>2, <2>3, <2>5, HookingTidy
<1> QED BY <1>1, <1>7, <1>8 DEF Answer

-----------------------------------------------------------------------------
(* The application, and what only a deletion does.                          *)

LEMMA SyncAppTidy ==
  ASSUME Inv, EventsInOrder, TidyInOrder, SyncApp
  PROVE  TidyInOrder'
<1> DEFINE n == [run.new EXCEPT !.app = @ \/ run.spec.app]
<1>0. PICK todo : todo = OldPerms
  OBVIOUS
<1>1. /\ run.pc = "app"
      /\ apps' = CASE run.spec.app -> [apps EXCEPT ![run.rt] = {run.spec.space}]
                   [] ~run.spec.app /\ run.old.app -> [apps EXCEPT ![run.rt] = {}]
                   [] OTHER -> apps
      /\ abandoned' = IF Deploying /\ (run.spec.app \/ run.old.app) THEN abandoned \ {run.rt}
                      ELSE abandoned
      /\ Answer(AfterApp([run EXCEPT !.new.app = @ \/ run.spec.app]))
      /\ UNCHANGED <<ns, users, accounts, project, roles, usage, listenerVars, hooks, objectVars, recorded>>
  BY DEF SyncApp, At, Me
<1>2. /\ run.pc \in Calls /\ run.pc # "idle" /\ run.pc \notin Unlistening
      /\ UNCHANGED <<runtimes, recorded, late, left>>
      /\ run.pc \in FromSynced /\ run.pc \in FromSpace /\ run.pc \in HookSynced /\ run.pc \notin FromSaved
      /\ run.pc \in ListeningPCs \cup {"app"}
  BY <1>1 DEF Calls, PC, Unlistening, objectVars, FromSynced, FromSpace, FromAccount, FromUser, FromRole,
              FromGranted, HookSynced, FromSaved, ListeningPCs
<1>3. /\ ObjectsAreTidy /\ AccountsAreTidy /\ SpacesAreTidy /\ ProductIsTidy /\ AppsAreTidy /\ HooksAreTidy
      /\ ~run.failed /\ (Deploying <=> ~Deleting) /\ run.rt \in Names
      /\ run \in RunType /\ run.new \in Cache /\ run.old \in Cache /\ run.spec \in Specs
      /\ apps \in [Names -> SUBSET Spaces] /\ HookRemoved
  BY <1>1, <1>2, CallFacts, RunFacts DEF TidyInOrder, HookRemoved, Inv, RestTyped, ClusterTypeOK
<1>4. AccountsGrow /\ SpacesGrow
  BY <1>1, <1>3, SameAccountsGrow DEF AccountsAreTidy, SpacesGrow, Operable
<1>5. PICK q \in Names : q = run.rt
  BY <1>3
<1>6. /\ Exists(q) /\ runtimes[q].cache = run.old
      /\ ~run.stale => runtimes[q].spec = run.spec
      /\ run.stale => Deploying /\ Complete(run.old, run.spec)
      /\ Settled(q) => runtimes[q].spec = run.spec
  <2>1. Settled(q) => Applied(q) /\ SpecOf(q) = runtimes[q].spec
    BY ConstantFacts DEF Settled, Applied, SpecOf, Live, Inv, UnheldIsNew
  <2>2. Applied(q) => SpecOf(q) = run.spec
    BY <1>2, <1>5, RunFacts
  <2> QED BY <1>2, <1>3, <1>5, <2>1, <2>2, OwnRun
<1>7. /\ SameReconcile /\ run'.repos = run.repos /\ run'.usage = run.usage
      /\ run'.new.account = run.new.account /\ run'.new.perms = run.new.perms
      /\ run'.new.space = run.new.space /\ run'.new.hook = run.new.hook
      /\ \/ run'.failed /\ run'.pc = "saveUsage" /\ run'.new = run.new /\ Fault
         \/ /\ ~run'.failed /\ UNCHANGED faults /\ run'.new.app = (run.new.app \/ run.spec.app)
            /\ \/ Deploying /\ run'.pc = "saveUsage"
               \/ Deleting /\ run.old.account = NoAccount /\ run'.pc = "deleteSpace"
               \/ Deleting /\ run.old.account # NoAccount /\ run'.pc = "revokeOld" /\ run'.todo = todo
  <2>1. CASE run' = Failed /\ Fault
    BY <1>2, <2>1, FellFacts DEF Fails
  <2>2. CASE run' = AfterApp([run EXCEPT !.new.app = @ \/ run.spec.app]) /\ UNCHANGED faults
    <3>1. [run EXCEPT !.new.app = @ \/ run.spec.app] = [run EXCEPT !.new = n]
      BY <1>3 DEF RunType, Cache
    <3>2. /\ n.hook = run.new.hook /\ n.account = run.new.account /\ n.perms = run.new.perms
          /\ n.space = run.new.space /\ n.app = (run.new.app \/ run.spec.app)
      BY <1>3 DEF Cache
    <3>3. PICK m : m = n
      OBVIOUS
    <3> HIDE DEF n
    <3>4. \/ Deploying /\ run' = [run EXCEPT !.new = m, !.pc = "saveUsage"]
          \/ Deleting /\ run.old.account = NoAccount /\ run' = [run EXCEPT !.new = m, !.pc = "deleteSpace"]
          \/ /\ Deleting /\ run.old.account # NoAccount
             /\ run' = [run EXCEPT !.new = m, !.pc = "revokeOld", !.todo = todo]
      BY <1>0, <1>3, <2>2, <3>1, <3>3 DEF AfterApp
    <3>5. /\ SameReconcile /\ run'.repos = run.repos /\ run'.usage = run.usage /\ run'.new = m /\ ~run'.failed
          /\ \/ Deploying /\ run'.pc = "saveUsage"
             \/ Deleting /\ run.old.account = NoAccount /\ run'.pc = "deleteSpace"
             \/ Deleting /\ run.old.account # NoAccount /\ run'.pc = "revokeOld" /\ run'.todo = todo
      BY <1>3, <3>4 DEF SameReconcile, RunType
    <3> QED BY <2>2, <3>2, <3>3, <3>5
  <2> QED BY <1>1, <2>1, <2>2 DEF Answer
<1>8. /\ run'.pc \in {"saveUsage", "deleteSpace", "revokeOld"}
      /\ Deploying => run'.pc = "saveUsage"
      /\ Deleting /\ ~run'.failed => run'.pc # "saveUsage"
      /\ UNCHANGED faults \/ Fault
  BY <1>3, <1>7
<1>9. /\ run'.pc = "saveUsage" => run'.pc \in FromSynced /\ run'.pc \in FromSpace /\ run'.pc \in HookSynced
      /\ run'.pc \notin {"saveStatus", "removeFinalizer"} /\ run'.pc \notin Unlistening \cup {"listen", "forgetRepos"}
      /\ run'.pc \notin Ending
      /\ run'.pc \in Ended => run'.pc = "saveUsage"
  BY <1>8 DEF FromSynced, FromSpace, FromAccount, FromUser, FromRole, FromGranted, HookSynced, FromSaved,
              Unlistening, Ended, Ending
<1>10. /\ (Deploying' <=> Deploying) /\ (Deleting' <=> Deleting)
       /\ run'.spec = run.spec /\ run'.old = run.old /\ run'.rt = run.rt /\ run'.stale = run.stale
  BY <1>7 DEF SameReconcile, Deploying, Deleting
<1>11. ObjectsAreTidy'
  <2>1. NewIsMade
    BY <1>3 DEF ObjectsAreTidy
  <2>2. run'.new.app = run.new.app \/ run'.new.app = (run.new.app \/ run.spec.app)
    BY <1>7
  <2>3. NewIsMade'
    <3>1. run'.rt \in Names /\ run.rt \in Names
      BY <1>3, <1>10
    <3>2. Deploying => /\ run.old.app => run.new.app
                       /\ run.new.account = run.spec.account /\ run.new.perms = Perms(run.spec)
                       /\ run.new.hook = HookOf(run.spec)
      BY <1>2, <1>3, <2>1, <3>1 DEF NewIsMade
    <3> QED BY <1>7, <1>8, <1>9, <1>10, <2>1, <2>2, <3>1, <3>2 DEF NewIsMade
  <2> QED BY <1>2, <1>3, <1>7, <2>3, ObjectsStep
<1>12. SpacesAreTidy'
  BY <1>2, <1>3, <1>4, <1>7, <1>8, <1>9, SpacesStep
<1>13. ProductIsTidy'
  BY <1>1, <1>2, <1>3, <1>7, <1>8, <1>9, ProductStep
<1>14. HooksAreTidy'
  <2>1. (faults < MaxFaults => faults' < MaxFaults) /\ (Fault => faults' < MaxFaults)
    BY <1>8, FaultsGrow
  <2> QED BY <1>1, <1>2, <1>3, <1>7, <2>1, HooksStep
<1>15. SourcesAreThere'
  BY <1>1, <1>2, <1>7, <1>8, <1>9, SameSources
<1>16. AccountsAreTidy'
  <2>1. CASE Deploying
    <3>1. DeploymentIsTidy' /\ DeletionIsTidy'
      BY <1>1, <1>2, <1>3, <1>4, <1>7, <1>8, <1>9, <2>1, ProgressStep
    <3> QED BY <1>1, <1>2, <1>3, <1>4, <1>7, <1>9, <3>1, AccountsStep
  <2>2. CASE Deleting
    <3>1. DeploymentIsTidy'
      BY <1>3, <1>10, <2>2 DEF DeploymentIsTidy
    <3>2. ASSUME ~run'.failed PROVE DeletionIsTidy'
      <4>1. CASE run'.pc = "deleteSpace"
        <5>1. run.old.account = NoAccount
          BY <1>3, <1>7, <2>2, <3>2, <4>1
        <5>2. run.new.account = NoAccount
          BY <1>3, <2>2, <5>1 DEF AccountsAreTidy, NewIsTidy
        <5> QED BY <1>7, <4>1, <5>2 DEF DeletionIsTidy, At
      <4>2. CASE run'.pc = "revokeOld"
        <5>1. run'.todo = todo
          BY <1>7, <3>2, <4>2
        <5>2. \A p \in run.old.perms \ todo : PermIsLeft(p)
          BY <1>0, <1>2, <1>3, <2>2, OldPermsAreLeft
        <5>3. \A p : PermIsLeft(p) => PermIsLeft(p)'
          BY <1>2, <1>4, <1>7, LeftStays
        <5>4. TodoIsLeft'
          BY <1>10, <5>1, <5>2, <5>3 DEF TodoIsLeft
        <5> QED BY <1>9, <4>2, <5>4 DEF DeletionIsTidy, At
      <4> QED BY <1>3, <1>8, <2>2, <3>2, <4>1, <4>2
    <3> QED BY <1>1, <1>2, <1>3, <1>4, <1>7, <1>9, <3>1, <3>2, AccountsStep
  <2> QED BY <1>3, <2>1, <2>2
<1>17. AppsAreTidy'
  <2>1. ASSUME NEW r \in Names, apps'[r] # {}
        PROVE  r \in abandoned' \/ runtimes'[r].spec.app
                 \/ (Exists(r)' /\ runtimes'[r].cache.app /\ ~Settled(r)')
    <3>1. (Exists(r)' <=> Exists(r)) /\ (Settled(r)' <=> Settled(r)) /\ runtimes'[r] = runtimes[r]
      BY <1>2 DEF Exists, Settled, Live
    <3>2. apps[r] # {} => r \in abandoned \/ runtimes[r].spec.app \/ (Exists(r) /\ runtimes[r].cache.app /\ ~Settled(r))
      BY <1>3 DEF AppsAreTidy
    <3>3. CASE r # q
      <4>1. apps'[r] = apps[r] /\ (r \in abandoned => r \in abandoned')
        BY <1>1, <1>3, <1>5, <3>3
      <4> QED BY <2>1, <3>1, <3>2, <4>1
    <3>4. CASE r = q /\ run.spec.app
      <4>1. CASE ~run.stale \/ Settled(q)
        BY <1>6, <3>1, <3>4, <4>1
      <4>2. CASE run.stale /\ ~Settled(q)
        BY <1>6, <3>1, <3>4, <4>2 DEF Complete
      <4> QED BY <4>1, <4>2
    <3>5. CASE r = q /\ ~run.spec.app
      <4>1. ~run.old.app /\ apps' = apps /\ abandoned' = abandoned
        BY <1>1, <1>3, <1>5, <2>1, <3>5
      <4> QED BY <2>1, <3>1, <3>2, <4>1
    <3> QED BY <3>3, <3>4, <3>5
  <2>2. ASSUME ~run.stale, ~run.spec.app PROVE apps'[q] = {} \/ q \in abandoned'
    <3>1. CASE run.old.app
      BY <1>1, <1>3, <1>5, <2>2, <3>1
    <3>2. CASE ~run.old.app
      <4>1. apps' = apps /\ abandoned' = abandoned
        BY <1>1, <2>2, <3>2
      <4> QED BY <1>3, <1>6, <2>2, <3>2, <4>1 DEF AppsAreTidy
    <3> QED BY <3>1, <3>2
  <2> QED BY <1>5, <1>10, <2>1, <2>2 DEF AppsAreTidy
<1> QED BY <1>11, <1>12, <1>13, <1>14, <1>15, <1>16, <1>17 DEF TidyInOrder

LEMMA DeleteSpaceTidy ==
  ASSUME Inv, EventsInOrder, TidyInOrder, DeleteSpace
  PROVE  TidyInOrder'
<1> DEFINE pc == IF run.usage.runtimes = {} THEN "deleteProductUser" ELSE "saveUsage"
           n == [run.new EXCEPT !.space = NoSpace]
<1>1. /\ run.pc = "deleteSpace"
      /\ IF run.old.space = NoSpace THEN UNCHANGED ns
         ELSE ns' = [ns EXCEPT ![run.old.space] = IF @ = "active" THEN "terminating" ELSE @]
      /\ Answer([run EXCEPT !.pc = pc, !.new.space = NoSpace])
      /\ UNCHANGED <<users, accounts, project, apps, roles, usage, listenerVars, hooks, objectVars, history>>
  BY DEF DeleteSpace, At, Rest, DeleteNamespace
<1>2. /\ run.pc \in Calls /\ run.pc # "idle" /\ run.pc \notin Unlistening
      /\ UNCHANGED <<runtimes, recorded, late, left, abandoned>>
      /\ run.pc \in DeletePCs \ DeployPCs
      /\ run.pc \notin Ending \cup {"saveUsage"}
  BY <1>1 DEF Calls, PC, Unlistening, objectVars, history, DeletePCs, DeployPCs, FromValidated, FromUsage,
     FromProduct, FromProject, FromSpace, FromAccount, FromUser, FromRole, FromGranted, FromSynced, ListeningPCs,
     FromSaved, Leaving, Ending
<1>3. /\ ObjectsAreTidy /\ AccountsAreTidy /\ SpacesAreTidy /\ ProductIsTidy /\ AppsAreTidy /\ HooksAreTidy
      /\ ~run.failed /\ Deleting /\ ~Deploying /\ run.rt \in Names
      /\ run \in RunType /\ run.new \in Cache /\ run.old \in Cache
      /\ ns \in [Spaces \cup {Product} -> {"none", "active", "terminating"}]
  BY <1>2, CallFacts, RunFacts DEF TidyInOrder, Inv, RestTyped, ClusterTypeOK
<1>4. /\ run.old.space # NoSpace => run.old.space \in Spaces /\ ns'[run.old.space] # "active"
      /\ \A s \in Spaces : Operable(s)' => Operable(s)
      /\ ns'[Product] = ns[Product]
  <2>1. run.old.space # NoSpace => run.old.space \in Spaces
    BY <1>3 DEF Cache
  <2>2. CASE run.old.space = NoSpace
    BY <1>1, <2>2 DEF Operable
  <2>3. CASE run.old.space # NoSpace
    <3>1. ns' = [ns EXCEPT ![run.old.space] = IF @ = "active" THEN "terminating" ELSE @]
      BY <1>1, <2>3
    <3> QED BY <1>3, <2>1, <2>3, <3>1, ClusterAssumption DEF Operable
  <2> QED BY <2>2, <2>3
<1>5. AccountsGrow /\ SpacesGrow
  BY <1>1, <1>3, <1>4, SameAccountsGrow DEF AccountsAreTidy, SpacesGrow
<1>6. /\ SameReconcile /\ run'.repos = run.repos /\ run'.usage = run.usage
      /\ run'.new.account = run.new.account /\ run'.new.perms = run.new.perms
      /\ run'.new.hook = run.new.hook
      /\ \/ run'.failed /\ run'.pc = "saveUsage" /\ run'.new.space = run.new.space /\ Fault
         \/ /\ ~run'.failed /\ UNCHANGED faults /\ run'.new.space = NoSpace
            /\ \/ run'.pc = "deleteProductUser" /\ run.usage.runtimes = {}
               \/ run'.pc = "saveUsage" /\ run.usage.runtimes # {}
  <2>1. CASE run' = Failed /\ Fault
    BY <1>2, <2>1, FellFacts DEF Fails
  <2>2. CASE run' = [run EXCEPT !.pc = pc, !.new.space = NoSpace] /\ UNCHANGED faults
    <3>1. run' = [run EXCEPT !.pc = pc, !.new = n]
      BY <1>3, <2>2 DEF RunType, Cache
    <3>2. /\ n.hook = run.new.hook /\ n.account = run.new.account /\ n.perms = run.new.perms
          /\ n.space = NoSpace
      BY <1>3 DEF Cache
    <3>3. PICK next, m : next = pc /\ m = n
      OBVIOUS
    <3>4. run' = [run EXCEPT !.pc = next, !.new = m]
      BY <3>1, <3>3
    <3> HIDE DEF n
    <3>5. /\ SameReconcile /\ run'.repos = run.repos /\ run'.usage = run.usage /\ run'.new = m /\ ~run'.failed
          /\ run'.pc = next
      BY <1>3, <3>4 DEF SameReconcile, RunType
    <3> QED BY <2>2, <3>2, <3>3, <3>5
  <2> QED BY <1>1, <2>1, <2>2 DEF Answer
<1>7. /\ run'.pc \notin {"saveStatus", "removeFinalizer"} /\ run'.pc \notin Unlistening \cup {"listen", "forgetRepos"}
      /\ run'.pc \notin {"revokeOld", "deleteAccount", "deleteProject", "createSpace"}
      /\ run'.pc \in Ending => run'.pc = "deleteProductUser"
      /\ UNCHANGED faults \/ Fault
  BY <1>6 DEF Unlistening, Ending
<1>8. /\ Deleting' /\ ~Deploying'
      /\ run'.spec = run.spec /\ run'.old = run.old /\ run'.rt = run.rt /\ run'.stale = run.stale
  BY <1>3, <1>6 DEF SameReconcile, Deploying, Deleting
<1>9. ObjectsAreTidy'
  <2>1. NewIsMade'
    BY <1>8 DEF NewIsMade
  <2> QED BY <1>2, <1>3, <1>6, <2>1, ObjectsStep
<1>10. SpacesAreTidy'
  <2>1. \A s \in Spaces : Operable(s)' => s \in left' \/ \E r \in Names : ClaimsSpace(r, s)'
    BY <1>2, <1>3, <1>4 DEF SpacesAreTidy, ClaimsSpace, Live
  <2>2. run'.new.space = NoSpace /\ run.old.space # NoSpace => ns'[run.old.space] # "active"
    BY <1>4
  <2> QED BY <1>6, <1>8, <2>1, <2>2 DEF SpacesAreTidy, Operable
<1>11. ProductIsTidy'
  <2>1. \E r \in Names : Exists(r)'
    <3>1. PICK q \in Names : q = run.rt
      BY <1>3
    <3>2. Exists(q)
      BY <1>2, <1>3, <3>1, OwnRun
    <3> QED BY <1>2, <3>2 DEF Exists
  <2>2. /\ \A r \in usage'.runtimes : Exists(r)'
        /\ \A r \in run'.usage.runtimes : Exists(r)' /\ r # run'.rt
    BY <1>1, <1>2, <1>3, <1>6, <1>8, CallFacts DEF ProductIsTidy, Exists
  <2> QED BY <1>6, <1>7, <2>1, <2>2 DEF ProductIsTidy, At
<1>12. AppsAreTidy'
  BY <1>1, <1>2, <1>3, <1>6, AppsStep DEF AppSynced
<1>13. SourcesAreThere'
  BY <1>1, <1>2, <1>6, <1>7, SameSources
<1>14. HooksAreTidy'
  <2>1. \A r, s : ClaimsHook(r, s)' <=> ClaimsHook(r, s)
    BY <1>1, <1>2 DEF ClaimsHook, Live, Exists
  <2>2. HookIsGone
    BY <1>1, <1>3 DEF HooksAreTidy, HookRemoved
  <2>3. HookIsGone'
    BY <1>1, <1>3, <1>8, <2>2 DEF HookIsGone
  <2>4. faults < MaxFaults => faults' < MaxFaults
    BY <1>7, FaultsGrow
  <2>5. \A s \in Spaces : hooks'[s] # NoRepo =>
          (s \in left' /\ faults' < MaxFaults) \/ \E r \in Names : ClaimsHook(r, s)'
    BY <1>1, <1>2, <1>3, <2>1, <2>4 DEF HooksAreTidy
  <2> QED BY <1>8, <2>3, <2>5 DEF HooksAreTidy
<1>15. AccountsAreTidy'
  <2>1. DeploymentIsTidy' /\ DeletionIsTidy'
    BY <1>1, <1>2, <1>3, <1>5, <1>6, <1>7, ProgressStep
  <2> QED BY <1>1, <1>2, <1>3, <1>5, <1>6, <1>7, <2>1, AccountsStep
<1> QED BY <1>9, <1>10, <1>11, <1>12, <1>13, <1>14, <1>15 DEF TidyInOrder

LEMMA EndingTidy ==
  ASSUME Inv, EventsInOrder, TidyInOrder, run.pc \in Ending,
         UNCHANGED <<users, accounts, apps, roles, usage, listenerVars, hooks, objectVars, history>>,
         \A s \in Spaces \cup {Product} : Operable(s)' => Operable(s),
         ns'[Product] = "none" => ns[Product] = "none",
         \/ run' = Failed /\ (Fault \/ UNCHANGED faults)
         \/ /\ Keeps /\ run'.new = run.new /\ run'.usage = run.usage /\ UNCHANGED faults
            /\ \/ run'.pc = "deleteProduct"
               \/ run'.pc = "deleteProject" /\ ~Operable(Product)'
               \/ run'.pc = "saveUsage" /\ ~Operable(Product)' /\ project' = "none"
  PROVE  TidyInOrder'
<1>1. /\ run.pc \in Calls /\ run.pc # "idle" /\ run.pc \notin Unlistening
      /\ UNCHANGED <<runtimes, recorded, late, left, abandoned>>
      /\ run.pc \in DeletePCs \ DeployPCs /\ run.pc \in Ended
  BY DEF Calls, PC, Unlistening, objectVars, history, DeletePCs, DeployPCs, FromValidated, FromUsage,
     FromProduct, FromProject, FromSpace, FromAccount, FromUser, FromRole, FromGranted, FromSynced, ListeningPCs,
     FromSaved, Leaving, Ending, Ended
<1>2. /\ ObjectsAreTidy /\ AccountsAreTidy /\ SpacesAreTidy /\ ProductIsTidy /\ AppsAreTidy /\ HooksAreTidy
      /\ ~run.failed /\ Deleting /\ ~Deploying /\ run.rt \in Names /\ Copied
  BY <1>1, CallFacts, RunFacts DEF TidyInOrder
<1>3. AccountsGrow
  BY <1>2 DEF AccountsGrow, AccountsAreTidy, AccountsAreClaimed, HasAccount, Operable
<1>4. SpacesGrow
  BY DEF SpacesGrow
<1>5. CASE run' = Failed
  <2>1. UNCHANGED faults \/ Fault
    BY <1>5, FellFacts, <1>1, <1>2 DEF Keeps, Fails
  <2>2. SourcesAreThere'
    BY <1>1, <1>5, <2>1, FellFacts, SameSources
  <2> QED BY <1>1, <1>2, <1>3, <1>4, <1>5, <2>1, <2>2, FellTidy
<1>6. CASE /\ Keeps /\ run'.new = run.new /\ run'.usage = run.usage /\ UNCHANGED faults
           /\ \/ run'.pc = "deleteProduct"
              \/ run'.pc = "deleteProject" /\ ~Operable(Product)'
              \/ run'.pc = "saveUsage" /\ ~Operable(Product)' /\ project' = "none"
  <2>1. /\ SameReconcile /\ run'.repos = run.repos /\ ~run'.failed
        /\ Deleting' /\ ~Deploying' /\ run'.old = run.old /\ run'.rt = run.rt
    BY <1>2, <1>6 DEF Keeps, SameReconcile, Deploying, Deleting
  <2>2. /\ run'.pc \notin {"saveStatus", "removeFinalizer"} /\ run'.pc \notin Unlistening \cup {"listen", "forgetRepos"}
        /\ run'.pc \notin {"revokeOld", "deleteAccount", "createSpace"}
    BY <1>6 DEF Unlistening
  <2>3. ObjectsAreTidy'
    <3>1. NewIsMade'
      BY <2>1 DEF NewIsMade
    <3> QED BY <1>1, <1>2, <2>1, <3>1, ObjectsStep
  <2>4. SpacesAreTidy'
    BY <1>1, <1>2, <1>4, <1>6, <2>1, SpacesStep
  <2>5. ProductIsTidy'
    <3>1. \E r \in Names : Exists(r)'
      <4>1. PICK q \in Names : q = run.rt
        BY <1>2
      <4>2. Exists(q)
        BY <1>1, <1>2, <4>1, OwnRun
      <4> QED BY <1>1, <4>2 DEF Exists
    <3>2. /\ \A r \in usage'.runtimes : Exists(r)'
          /\ \A r \in run'.usage.runtimes : Exists(r)' /\ r # run'.rt
      BY <1>1, <1>2, <1>6, <2>1 DEF ProductIsTidy, Exists
    <3>3. run.usage.runtimes = {}
      BY <1>2 DEF ProductIsTidy
    <3> QED BY <1>6, <2>2, <3>1, <3>2, <3>3 DEF ProductIsTidy, At
  <2>6. AppsAreTidy'
    BY <1>1, <1>2, <2>1, AppsStep DEF AppSynced
  <2>7. SourcesAreThere'
    BY <1>1, <1>6, <2>1, <2>2, SameSources
  <2>8. HooksAreTidy'
    <3>1. HookRemoved
      BY <1>1, <1>2 DEF HookRemoved
    <3> QED BY <1>1, <1>2, <1>6, <2>1, <3>1, HooksStep
  <2>9. AccountsAreTidy'
    <3>1. DeploymentIsTidy' /\ DeletionIsTidy'
      BY <1>1, <1>2, <1>3, <1>6, <2>1, <2>2, ProgressStep
    <3> QED BY <1>1, <1>2, <1>3, <1>6, <2>1, <2>2, <3>1, AccountsStep
  <2> QED BY <2>3, <2>4, <2>5, <2>6, <2>7, <2>8, <2>9 DEF TidyInOrder
<1> QED BY <1>5, <1>6

LEMMA DeleteProductUserTidy ==
  ASSUME Inv, EventsInOrder, TidyInOrder, DeleteProductUser
  PROVE  TidyInOrder'
<1>1. /\ run.pc \in Ending /\ run.pc # "idle" /\ Answer(GoTo("deleteProduct"))
      /\ UNCHANGED <<ns, users, accounts, apps, roles, usage, listenerVars, hooks, objectVars, history>>
  BY DEF DeleteProductUser, At, Rest, Ending
<1>2. \A s \in Spaces \cup {Product} : Operable(s)' => Operable(s)
  BY <1>1 DEF Operable
<1>3. \/ run' = Failed /\ Fault
      \/ /\ Keeps /\ run'.new = run.new /\ run'.usage = run.usage /\ UNCHANGED faults
         /\ run'.pc = "deleteProduct"
  BY <1>1, RunKeeps DEF Answer
<1> QED BY <1>1, <1>2, <1>3, EndingTidy

LEMMA DeleteProductTidy ==
  ASSUME Inv, EventsInOrder, TidyInOrder, DeleteProduct
  PROVE  TidyInOrder'
<1>1. /\ run.pc \in Ending /\ run.pc # "idle"
      /\ \/ /\ ns' = [ns EXCEPT ![Product] = IF @ = "active" THEN "terminating" ELSE @]
            /\ Answer(GoTo("deleteProject"))
         \/ UNCHANGED ns /\ run' = Failed /\ UNCHANGED faults
      /\ UNCHANGED <<users, accounts, apps, roles, usage, listenerVars, hooks, objectVars, history>>
  BY DEF DeleteProduct, DeleteNamespace, At, Refuse, Ending, clusterVars
<1>2. ns \in [Spaces \cup {Product} -> {"none", "active", "terminating"}]
  BY DEF Inv, RestTyped, ClusterTypeOK
<1>3. /\ \A s \in Spaces \cup {Product} : Operable(s)' => Operable(s)
      /\ ns'[Product] = "none" => ns[Product] = "none"
  BY <1>1, <1>2 DEF Operable
<1>4. \/ run' = Failed /\ (Fault \/ UNCHANGED faults)
      \/ /\ Keeps /\ run'.new = run.new /\ run'.usage = run.usage /\ UNCHANGED faults
         /\ run'.pc = "deleteProject" /\ ~Operable(Product)'
  <2>1. CASE run' = GoTo("deleteProject") /\ UNCHANGED faults
    <3>1. /\ Keeps /\ run'.new = run.new /\ run'.usage = run.usage /\ run'.pc = "deleteProject" /\ ~run'.failed
      BY <1>1, <2>1, RunKeeps, CallFacts DEF Keeps, Ending, Calls, PC
    <3>2. run' # Failed
      <4>1. run \in RunType
        BY <1>1, RunFacts
      <4> QED BY <3>1, <4>1 DEF Failed, RunType
    <3> QED BY <1>1, <1>2, <2>1, <3>1, <3>2 DEF Operable
  <2> QED BY <1>1, <2>1 DEF Answer
<1> QED BY <1>1, <1>3, <1>4, EndingTidy

LEMMA DeleteProjectTidy ==
  ASSUME Inv, EventsInOrder, TidyInOrder, DeleteProject
  PROVE  TidyInOrder'
<1>1. /\ run.pc = "deleteProject" /\ run.pc \in Ending /\ run.pc # "idle" /\ project' = "none"
      /\ Answer(GoTo("saveUsage"))
      /\ UNCHANGED <<ns, users, accounts, apps, roles, usage, listenerVars, hooks, objectVars, history>>
  BY DEF DeleteProject, At, Rest, Ending
<1>2. \A s \in Spaces \cup {Product} : Operable(s)' => Operable(s)
  BY <1>1 DEF Operable
<1>3. ~Operable(Product)'
  <2>1. run.pc \in Calls
    BY <1>1 DEF Calls, PC
  <2>3. run.pc \notin DeployPCs
    BY <1>1 DEF DeployPCs, FromValidated, FromUsage, Unlistening, Ending,
     FromProduct, FromProject, FromSpace, FromAccount, FromUser, FromRole, FromGranted, FromSynced, ListeningPCs,
     FromSaved, Leaving
  <2>2. Deleting /\ ~run.failed
    BY <1>1, <2>1, <2>3, CallFacts, RunFacts
  <2> QED BY <1>1, <2>2 DEF TidyInOrder, ProductIsTidy, At, Operable
<1>4. \/ run' = Failed /\ Fault
      \/ /\ Keeps /\ run'.new = run.new /\ run'.usage = run.usage /\ UNCHANGED faults
         /\ run'.pc = "saveUsage"
  BY <1>1, RunKeeps DEF Answer
<1> QED BY <1>1, <1>2, <1>3, <1>4, EndingTidy

-----------------------------------------------------------------------------
(* What a reconcile has to save is what it read, until it calls components; *)
(* an application that was there is not forgotten.                          *)

Reading == {"idle", "addFinalizer", "validate", "getUsage"}
NewIsSound == /\ run.pc \in Reading => run.new = run.old
              /\ run.old.app => run.new.app
              /\ run.pc = "idle" => run.op = "none"

MovesOn == /\ run'.pc \notin Reading /\ run'.old = run.old
           /\ run.new.app => run'.new.app

LEMMA RunMovesOn ==
  ASSUME Inv, run.pc # "idle", NEW pc, pc \notin Reading
  PROVE  /\ run' = Failed => MovesOn
         /\ run' = GoTo(pc) => MovesOn
         /\ \A todo : run' = Do(pc, todo) => MovesOn
         /\ \A u : run' = [run EXCEPT !.pc = pc, !.usage = u] => MovesOn
         /\ \A u, todo : run' = [run EXCEPT !.pc = pc, !.usage = u, !.todo = todo] => MovesOn
         /\ \A kinds : run' = [run EXCEPT !.pc = pc, !.kinds = kinds] => MovesOn
         /\ \A surplus : run' = [run EXCEPT !.pc = pc, !.surplus = surplus] => MovesOn
         /\ \A n : run' = [run EXCEPT !.pc = pc, !.new = n] /\ (run.new.app => n.app) => MovesOn
<1>1. run \in RunType
  BY RunFacts
<1> QED BY ZenonT(60), <1>1 DEF Failed, GoTo, Do, RunType, MovesOn, Reading

LEMMA CallMovesOn ==
  ASSUME Inv, run.pc \in Calls \cup {"saveUsage"}, Proceed
  PROVE  MovesOn
<1>1. /\ run.pc # "idle" /\ run.pc \notin Reading
      /\ run.pc \notin {"saveStatus", "removeFinalizer"}
  BY DEF Calls, Reading, PC
<1>2. run \in RunType /\ run.new \in Cache
  BY <1>1, RunFacts
<1>3. CASE AddFinalizer \/ Validate \/ GetUsage
  BY <1>1, <1>2, <1>3 DEF AddFinalizer, Validate, GetUsage, At, Reading
<1>4. CASE CreateProduct
  BY <1>1, <1>2, <1>4, RunMovesOn DEF CreateProduct, Answer, Refuse, Reading
<1>5. CASE CreateProject
  BY <1>1, <1>2, <1>5, RunMovesOn DEF CreateProject, Answer, Reading
<1>6. CASE AddProductUser
  BY <1>1, <1>2, <1>6, RunMovesOn DEF AddProductUser, Answer, Reading
<1>7. run' = Left => MovesOn
  BY <1>1, <1>2 DEF Left, RunType, Cache, MovesOn, Reading
<1>8. CASE OldRevoked
  <2>1. \/ run' = GoTo("dropUser")
        \/ run' = GoTo("deleteRole")
        \/ run' = Left
    BY <1>8 DEF OldRevoked, Goes
  <2> QED BY <1>1, <1>7, <2>1, RunMovesOn DEF Reading
<1>9. CASE DropUser
  BY <1>1, <1>2, <1>7, <1>9, RunMovesOn DEF DropUser, Answer, Refuse
<1>10. CASE DeleteProductRole
  BY <1>1, <1>2, <1>10, RunMovesOn DEF DeleteProductRole, Answer, Reading
<1>11. CASE DeleteProductAccount
  BY <1>1, <1>2, <1>7, <1>11, RunMovesOn DEF DeleteProductAccount, Answer
<1>12. CASE CreateSpace
  <2>1. run' = [run EXCEPT !.pc = "createAccount", !.new.space = run.spec.space] => MovesOn
    BY <1>1, <1>2 DEF RunType, Cache, MovesOn, Reading
  <2> QED BY <1>1, <1>2, <1>12, <2>1, RunMovesOn DEF CreateSpace, Answer, Refuse
<1>13. CASE CreateProductAccount
  BY <1>1, <1>2, <1>13, RunMovesOn DEF CreateProductAccount, Answer, Refuse, Reading
<1>14. CASE AddUser
  <2>1. PICK u : u = UpdateSpaces(run.usage, run.spec.account, Me, {run.spec.space})
    OBVIOUS
  <2>2. run' = [run EXCEPT !.pc = "createRole", !.usage = u] \/ run' = Failed
    BY <1>1, <1>2, <1>14, <2>1 DEF AddUser, Answer, Refuse
  <2> QED BY <1>1, <1>2, <2>2, RunMovesOn DEF Reading
<1>15. CASE CreateAccountRole
  BY <1>1, <1>2, <1>15, RunMovesOn DEF CreateAccountRole, Answer, Refuse, Reading
<1>16. CASE Granted
  <2>1. PICK u, todo : run' = [run EXCEPT !.pc = "revoke", !.usage = u, !.todo = todo]
    BY <1>1, <1>2, <1>16 DEF Granted, Goes
  <2> QED BY <1>1, <1>2, <2>1, RunMovesOn DEF Reading
<1>17. CASE PermissionsSynced
  <2> DEFINE synced == [run EXCEPT !.new.perms = Perms(run.spec), !.new.account = run.spec.account]
             named == [synced EXCEPT !.new.id = TRUE]
  <2>1. /\ synced \in [pc : {run.pc}, op : {run.op}, rt : {run.rt}, spec : {run.spec}, old : {run.old},
                       new : {synced.new}, usage : {run.usage}, repos : {run.repos}, todo : {run.todo},
                       kinds : {run.kinds}, surplus : {run.surplus}, failed : {run.failed}, stale : {run.stale}]
        /\ synced.new.app = run.new.app /\ synced.old = run.old
    BY <1>1, <1>2 DEF RunType, Cache
  <2>2. named.new.app = run.new.app /\ named.old = run.old
    BY <1>1, <1>2 DEF RunType, Cache
  <2>3. \/ run' = [Failed EXCEPT !.new = synced.new]
        \/ run' = Onwards(named)
        \/ run' = [named EXCEPT !.pc = "listen", !.todo = run.spec.tokens]
    BY <1>1, <1>2, <1>17 DEF PermissionsSynced, Goes
  <2>4. run' = [Failed EXCEPT !.new = synced.new] => MovesOn
    <3>1. PICK n : n = synced.new
      OBVIOUS
    <3> HIDE DEF synced
    <3> QED BY <1>1, <1>2, <2>1, <3>1 DEF Failed, RunType, MovesOn, Reading
  <2>5. run' = Onwards(named) => MovesOn
    <3>1. \/ Onwards(named) = [named EXCEPT !.pc = "createCalendar"]
          \/ Onwards(named) = [named EXCEPT !.pc = "unlisten", !.kinds = Missing]
      BY <1>1, <1>2 DEF Onwards
    <3>2. named.pc = run.pc /\ DOMAIN named = DOMAIN run
      BY <1>1, <1>2 DEF RunType
    <3>3. DOMAIN run = {"pc", "op", "rt", "spec", "old", "new", "usage", "repos", "todo", "kinds", "surplus", "failed", "stale"}
      BY <1>1, <1>2 DEF RunType
    <3> HIDE DEF named
    <3>4. ASSUME run' = [named EXCEPT !.pc = "createCalendar"] PROVE MovesOn
      BY <1>1, <1>2, <2>2, <3>2, <3>3, <3>4 DEF MovesOn, Reading
    <3>5. ASSUME run' = [named EXCEPT !.pc = "unlisten", !.kinds = Missing] PROVE MovesOn
      <4>1. PICK kinds : kinds = Missing
        OBVIOUS
      <4>2. run' = [named EXCEPT !.pc = "unlisten", !.kinds = kinds]
        BY <3>5, <4>1
      <4> QED BY <1>1, <1>2, <2>2, <3>2, <3>3, <4>2 DEF MovesOn, Reading
    <3> QED BY <3>1, <3>4, <3>5
  <2>6. run' = [named EXCEPT !.pc = "listen", !.todo = run.spec.tokens] => MovesOn
    <3>2. DOMAIN named = DOMAIN run
      BY <1>1, <1>2 DEF RunType
    <3>3. DOMAIN run = {"pc", "op", "rt", "spec", "old", "new", "usage", "repos", "todo", "kinds", "surplus", "failed", "stale"}
      BY <1>1, <1>2 DEF RunType
    <3> HIDE DEF named
    <3> QED BY <1>1, <1>2, <2>2, <3>2, <3>3 DEF MovesOn, Reading
  <2> QED BY <1>1, <1>2, <2>3, <2>4, <2>5, <2>6
<1>18. CASE \E p \in Repos : RevokeOld(p) \/ Grant(p) \/ Revoke(p)
  BY <1>1, <1>2, <1>18, RunMovesOn DEF RevokeOld, Grant, Revoke, Answer, Reading
<1>19. CASE \E p \in Repos : ListenTo(p)
  <2>1. PICK p \in Repos : Answer(Do("listen", run.todo \ {p})) \/ (run' = Failed /\ Fault)
    BY <1>1, <1>2, <1>19 DEF ListenTo
  <2> QED BY <1>1, <1>2, <2>1, RunMovesOn DEF Answer, Reading
<1>20. CASE \E p \in Repos : ForgetRepo(p)
  <2>1. PICK p \in Repos : ForgetRepo(p)
    BY <1>1, <1>2, <1>20
  <2>2. run' = Do(run.pc, run.todo \ {p}) \/ run' = Failed
    BY <1>1, <1>2, <2>1 DEF ForgetRepo, Answer, Refuse
  <2> QED BY <1>1, <1>2, <2>2, RunMovesOn
<1>21. CASE ListensToAll \/ ReposForgotten
  BY <1>1, <1>2, <1>21, RunMovesOn DEF ListensToAll, ReposForgotten, Goes, Reading
<1>22. CASE CreateEntryPoint \/ DeleteEntryPoint
  BY <1>1, <1>2, <1>22, RunMovesOn DEF CreateEntryPoint, DeleteEntryPoint, Answer, Reading
<1>23. CASE CreateGitlab
  BY ZenonT(60), <1>1, <1>2, <1>23, RunMovesOn DEF CreateGitlab, Answer, Onwards, MovesOn, RunType, Reading
<1>24. CASE CreateCalendar
  BY <1>1, <1>2, <1>24, RunMovesOn DEF CreateCalendar, Answer, Reading
<1>25. CASE UnlistenGitlab
  BY <1>1, <1>2, <1>25, RunMovesOn DEF UnlistenGitlab, Goes, At, Reading, RunType, MovesOn, Do
<1>26. CASE DeleteGitlab
  BY <1>1, <1>2, <1>26, RunMovesOn DEF DeleteGitlab, Answer, Reading
<1>27. CASE DeleteCalendar
  BY <1>1, <1>2, <1>27, RunMovesOn DEF DeleteCalendar, Answer, Refuse, At, RunType, MovesOn, Reading
<1>28. CASE RecordKinds
  BY <1>1, <1>2, <1>28, RunMovesOn DEF RecordKinds, Answer, Reading
<1>29. CASE CreateHook
  BY <1>1, <1>2, <1>29, RunMovesOn DEF CreateHook, Answer, Refuse, Reading
<1>30. CASE RemoveHook
  <2>1. PICK hook, pc : /\ pc = (IF Deploying THEN "createSensors" ELSE "app")
                        /\ hook = (IF Deploying THEN HookOf(run.spec) ELSE NoRepo)
    OBVIOUS
  <2>2. run' = [run EXCEPT !.pc = pc, !.new.hook = hook] \/ run' = Failed
    BY <1>30, <2>1 DEF RemoveHook, Answer
  <2>3. PICK n : n = [run.new EXCEPT !.hook = hook]
    OBVIOUS
  <2>4. [run EXCEPT !.pc = pc, !.new.hook = hook] = [run EXCEPT !.pc = pc, !.new = n] /\ n.app = run.new.app
    BY <1>2, <2>3 DEF RunType, Cache
  <2>5. (run.new.app => n.app) /\ pc \notin Reading
    BY <2>1, <2>4 DEF Reading
  <2>6. run' = [run EXCEPT !.pc = pc, !.new = n] \/ run' = Failed
    BY <2>2, <2>4
  <2> QED BY <1>1, <2>5, <2>6, RunMovesOn
<1>31. CASE CreateSensorsOf
  BY <1>1, <1>2, <1>31, RunMovesOn DEF CreateSensorsOf, Answer, Reading
<1>32. CASE SensorsSynced \/ DeleteAllSensors
  BY <1>1, <1>2, <1>32, RunMovesOn DEF SensorsSynced, DeleteAllSensors, Goes, Answer, Reading
<1>33. CASE \E i \in 0..MaxTriggers - 1 : DeleteSurplus(i)
  BY <1>1, <1>2, <1>33, RunMovesOn DEF DeleteSurplus, Answer, Refuse, At, RunType, MovesOn, Reading
<1>34. CASE SyncApp
  <2> DEFINE n == [run.new EXCEPT !.app = @ \/ run.spec.app]
  <2>1. [run EXCEPT !.new.app = @ \/ run.spec.app] = [run EXCEPT !.new = n]
    BY <1>1, <1>2 DEF RunType, Cache
  <2>2. run.new.app => n.app
    BY <1>1, <1>2 DEF Cache
  <2> HIDE DEF n
  <2>3. \/ run' = Failed
        \/ run' = [run EXCEPT !.new = n, !.pc = "saveUsage"]
        \/ run' = [run EXCEPT !.new = n, !.pc = "deleteSpace"]
        \/ run' = [run EXCEPT !.new = n, !.pc = "revokeOld", !.todo = OldPerms]
    BY <1>1, <1>2, <1>34, <2>1 DEF SyncApp, AfterApp, Answer
  <2> QED BY <1>1, <1>2, <2>2, <2>3, RunMovesOn DEF RunType, MovesOn, Reading
<1>35. CASE DeleteSpace
  <2>1. PICK pc : pc = IF run.usage.runtimes = {} THEN "deleteProductUser" ELSE "saveUsage"
    OBVIOUS
  <2>2. run' = [run EXCEPT !.pc = pc, !.new.space = NoSpace] \/ run' = Failed
    BY <1>35, <2>1 DEF DeleteSpace, Answer
  <2>3. PICK n : n = [run.new EXCEPT !.space = NoSpace]
    OBVIOUS
  <2>4. [run EXCEPT !.pc = pc, !.new.space = NoSpace] = [run EXCEPT !.pc = pc, !.new = n] /\ n.app = run.new.app
    BY <1>2, <2>3 DEF RunType, Cache
  <2>5. (run.new.app => n.app) /\ pc \notin Reading
    BY <2>1, <2>4 DEF Reading
  <2>6. run' = [run EXCEPT !.pc = pc, !.new = n] \/ run' = Failed
    BY <2>2, <2>4
  <2> QED BY <1>1, <2>5, <2>6, RunMovesOn
<1>36. CASE DeleteProductUser \/ DeleteProduct \/ DeleteProject
  BY <1>1, <1>2, <1>36, RunMovesOn DEF DeleteProductUser, DeleteProduct, DeleteProject, Answer, Refuse, Reading
<1>37. CASE SaveUsage
  BY <1>1, <1>2, <1>37, RunMovesOn DEF SaveUsage, Reading
<1>38. CASE SaveStatus \/ RemoveFinalizer
  BY <1>1, <1>2, <1>38 DEF SaveStatus, RemoveFinalizer, At
<1> QED BY <1>3, <1>4, <1>5, <1>6, <1>8, <1>9, <1>10, <1>11, <1>12, <1>13, <1>14, <1>15, <1>16, <1>17, <1>18,
           <1>19, <1>20, <1>21, <1>22, <1>23, <1>24, <1>25, <1>26, <1>27, <1>28, <1>29, <1>30, <1>31, <1>32,
           <1>33, <1>34, <1>35, <1>36, <1>37, <1>38 DEF Proceed

LEMMA NewStaysSound == Inv /\ NewIsSound /\ [Next]_vars => NewIsSound'
<1> SUFFICES ASSUME Inv, NewIsSound, [Next]_vars PROVE NewIsSound'
  OBVIOUS
<1>1. run' = Idle => NewIsSound'
  BY DEF Idle, NewIsSound, Reading, NoCache
<1>2. /\ run'.pc = run.pc /\ run'.new = run.new /\ run'.old = run.old /\ run'.op = run.op => NewIsSound'
  BY DEF NewIsSound
<1>3. run \in RunType
  BY DEF Inv, RunIsSound
<1>4. run.pc # "idle" /\ MovesOn => NewIsSound'
  <2> SUFFICES ASSUME run.pc # "idle", MovesOn PROVE NewIsSound'
    OBVIOUS
  <2>1. run'.old = run.old /\ run'.pc \notin Reading
    BY DEF MovesOn
  <2>2. PICK c, n, o : c = run.old /\ n = run.new /\ o = run'.new
    OBVIOUS
  <2>3. (c.app => n.app) /\ (n.app => o.app)
    BY <2>2 DEF NewIsSound, MovesOn
  <2>4. c.app => o.app
    BY <2>3
  <2>5. run'.old = c /\ run'.new = o
    BY <2>1, <2>2
  <2>6. run'.old.app => run'.new.app
    BY <2>4, <2>5, Zenon
  <2> QED BY <2>1, <2>6 DEF NewIsSound, Reading
<1>5. CASE UNCHANGED vars
  BY <1>2, <1>5 DEF vars
<1>6. ASSUME NEW r, Touch(r) PROVE NewIsSound'
  BY <1>2, <1>3, <1>6 DEF Touch, RunType
<1>7. CASE User
  <2>1. UNCHANGED run \/ \E r : Touch(r)
    BY <1>7 DEF User, Apply, Admit, WriteLate, Write, DeleteRuntime, DeleteCodeRepo
  <2> QED BY <1>2, <1>6, <2>1
<1>8. CASE \E r \in Names : Reconcile(r)
  <2>1. PICK r \in Names : Reconcile(r)
    BY <1>8
  <2>2. run'.new = run'.old /\ run'.pc # "idle"
    BY <2>1 DEF Reconcile, Idle
  <2> QED BY <2>2 DEF NewIsSound
<1>9. CASE Proceed
  <2>1. run.pc # "idle"
    <3>1. CASE run.pc = "idle"
      BY <1>9, <3>1 DEF Proceed, AddFinalizer, Validate, GetUsage, CreateProduct, CreateProject, AddProductUser,
        OldRevoked, DropUser, DeleteProductRole, DeleteProductAccount, CreateSpace, CreateProductAccount, AddUser,
        CreateAccountRole, Granted, PermissionsSynced, RevokeOld, Grant, Revoke, ListenTo, ForgetRepo, ListensToAll,
        ReposForgotten, CreateEntryPoint, CreateGitlab, CreateCalendar, UnlistenGitlab, DeleteEntryPoint, DeleteGitlab,
        DeleteCalendar, RecordKinds, CreateHook, RemoveHook, CreateSensorsOf, SensorsSynced, DeleteAllSensors,
        DeleteSurplus, SyncApp, DeleteSpace, DeleteProductUser, DeleteProduct, DeleteProject, SaveUsage, SaveStatus,
        RemoveFinalizer, At
    <3> QED BY <3>1
  <2>2. CASE run.pc \in Calls \cup {"saveUsage"}
    <3>1. MovesOn
      BY <1>9, <2>2, CallMovesOn
    <3> QED BY <1>4, <2>1, <3>1
  <2>3. CASE run.pc \in Reading \cup {"saveStatus", "removeFinalizer"}
    <3>1. AddFinalizer \/ Validate \/ GetUsage \/ SaveStatus \/ RemoveFinalizer
      BY <1>9, <2>3 DEF Proceed, Reading, CreateProduct, CreateProject, AddProductUser,
        OldRevoked, DropUser, DeleteProductRole, DeleteProductAccount, CreateSpace, CreateProductAccount, AddUser,
        CreateAccountRole, Granted, PermissionsSynced, RevokeOld, Grant, Revoke, ListenTo, ForgetRepo, ListensToAll,
        ReposForgotten, CreateEntryPoint, CreateGitlab, CreateCalendar, UnlistenGitlab, DeleteEntryPoint, DeleteGitlab,
        DeleteCalendar, RecordKinds, CreateHook, RemoveHook, CreateSensorsOf, SensorsSynced, DeleteAllSensors,
        DeleteSurplus, SyncApp, DeleteSpace, DeleteProductUser, DeleteProduct, DeleteProject, SaveUsage, At
    <3>2. CASE SaveStatus \/ RemoveFinalizer
      BY <1>1, <3>2 DEF SaveStatus, RemoveFinalizer
    <3>3. CASE AddFinalizer \/ Validate
      <4>1. run.pc \in Reading
        BY <3>3 DEF AddFinalizer, Validate, At, Reading
      <4>2. \/ run' = Idle
            \/ run'.new = run.new /\ run'.old = run.old /\ run'.pc # "idle"
        BY <1>3, <3>3 DEF AddFinalizer, Validate, GoTo, RunType
      <4> QED BY <1>1, <4>1, <4>2 DEF NewIsSound
    <3>4. CASE GetUsage
      <4>1. run'.new = run.new /\ run'.old = run.old /\ run.pc \in Reading /\ run'.pc # "idle"
        BY <1>3, <3>4 DEF GetUsage, GoTo, RunType, At, Reading
      <4> QED BY <4>1 DEF NewIsSound
    <3> QED BY <3>1, <3>2, <3>3, <3>4
  <2>4. run.pc \in PC
    BY <1>3 DEF RunType
  <2> QED BY <2>1, <2>2, <2>3, <2>4 DEF Calls, Reading
<1>10. CASE CallFails
  BY <1>4, <1>10, RunMovesOn DEF CallFails, Calls, Reading
<1>11. CASE Crash
  BY <1>1, <1>11 DEF Crash
<1>12. CASE \E s \in Spaces \cup {Product} : Gone(s)
  BY <1>2, <1>12 DEF Gone
<1> QED BY <1>5, <1>7, <1>8, <1>9, <1>10, <1>11, <1>12 DEF Next

-----------------------------------------------------------------------------
(* What the invariant says of the cluster and the objects.                  *)

SpacesAreClaimed == \A s \in Spaces : Operable(s) => s \in left \/ \E r \in Names : ClaimsSpace(r, s)
ProductIsClaimed == /\ Operable(Product) \/ project # "none" => \E r \in Names : Exists(r)
                    /\ \A r \in usage.runtimes : Exists(r)
AppsAreClaimed ==
  \A r \in Names : apps[r] # {} =>
    r \in abandoned \/ runtimes[r].spec.app \/ (Exists(r) /\ runtimes[r].cache.app /\ ~Settled(r))
ReposExist ==
  /\ \A r \in Names : gitlab[r].repos \cup runtimes[r].spec.tokens \subseteq codeRepos
  /\ late # NoRequest => late.spec.tokens \subseteq codeRepos
HooksAreClaimed ==
  \A s \in Spaces : hooks[s] # NoRepo =>
    (s \in left /\ faults < MaxFaults) \/ \E r \in Names : ClaimsHook(r, s)

WorldIsTidy ==
  /\ SettledIsComplete /\ ChangesAreAlone /\ SpacesAreClaimed /\ ProductIsClaimed /\ AppsAreClaimed
  /\ ReposExist /\ HooksAreClaimed /\ AccountsAreClaimed /\ Claimed(usage)

LEMMA WorldParts == TidyInOrder => WorldIsTidy
  BY DEF TidyInOrder, WorldIsTidy, ObjectsAreTidy, SpacesAreTidy, SpacesAreClaimed, ProductIsTidy,
     ProductIsClaimed, AppsAreTidy, AppsAreClaimed, SourcesAreThere, ReposAreThere, ReposExist, HooksAreTidy,
     HooksAreClaimed, AccountsAreTidy, UsageIsClaimed

\* Between two reconciles there is nothing else.
LEMMA IdleIsTidy ==
  ASSUME run'.rt \notin Names, run'.pc = "idle", run'.op = "none", WorldIsTidy', CalendarsAreThere'
  PROVE  TidyInOrder'
<1>1. ~Deploying' /\ ~Deleting' /\ ~Copied' /\ ~At("removeFinalizer")'
  BY DEF Deploying, Deleting, Copied, At
<1>2. ObjectsAreTidy'
  BY <1>1 DEF WorldIsTidy, ObjectsAreTidy, StaleIsComplete, NewIsMade
<1>3. SpacesAreTidy'
  BY <1>1 DEF WorldIsTidy, SpacesAreTidy, SpacesAreClaimed
<1>4. ProductIsTidy'
  BY <1>1 DEF WorldIsTidy, ProductIsTidy, ProductIsClaimed
<1>5. AppsAreTidy'
  BY DEF WorldIsTidy, AppsAreTidy, AppsAreClaimed
<1>6. SourcesAreThere'
  BY DEF WorldIsTidy, SourcesAreThere, ReposAreThere, ReposExist
<1>7. HooksAreTidy'
  BY DEF WorldIsTidy, HooksAreTidy, HooksAreClaimed
<1>8. NewIsTidy' /\ StaleIsExact' /\ DeploymentIsTidy' /\ DeletionIsTidy'
  BY <1>1 DEF NewIsTidy, StaleIsExact, DeploymentIsTidy, DeletionIsTidy
<1>9. UsageIsClaimed'
  BY <1>1 DEF WorldIsTidy, UsageIsClaimed
<1> QED BY <1>2, <1>3, <1>4, <1>5, <1>6, <1>7, <1>8, <1>9 DEF WorldIsTidy, AccountsAreTidy, TidyInOrder

\* Objects claim what they claimed.
SameClaims ==
  \A r \in Names :
    /\ runtimes'[r].phase = runtimes[r].phase /\ runtimes'[r].spec = runtimes[r].spec
    /\ runtimes'[r].cache = runtimes[r].cache /\ (Settled(r)' <=> Settled(r))

LEMMA SameClaimsFacts ==
  ASSUME SameClaims, NEW r \in Names
  PROVE  /\ Live(r)' <=> Live(r)
         /\ Exists(r)' <=> Exists(r)
         /\ AtRest(r)' <=> AtRest(r)
         /\ \A s : ClaimsSpace(r, s)' <=> ClaimsSpace(r, s)
         /\ \A s : hooks'[s] = hooks[s] => (ClaimsHook(r, s)' <=> ClaimsHook(r, s))
         /\ \A a : ClaimsAccount(r, a)' <=> ClaimsAccount(r, a)
         /\ \A a, p : ClaimsPerm(r, a, p)' <=> ClaimsPerm(r, a, p)
  BY DEF SameClaims, Live, Exists, AtRest, ClaimsSpace, ClaimsHook, ClaimsAccount, ClaimsPerm

LEMMA WorldStep ==
  ASSUME Inv, WorldIsTidy, SameClaims, UNCHANGED <<clusterVars, listenerVars, hooks, late, left, codeRepos, history>>,
         faults < MaxFaults => faults' < MaxFaults
  PROVE  WorldIsTidy'
<1> USE DEF history
<1>1. /\ ns' = ns /\ accounts' = accounts /\ project' = project /\ apps' = apps /\ roles' = roles
      /\ usage' = usage /\ gitlab' = gitlab /\ recorded' = recorded /\ abandoned' = abandoned
  BY DEF clusterVars, listenerVars
<1>2. SettledIsComplete' /\ ChangesAreAlone'
  BY SameClaimsFacts DEF WorldIsTidy, SettledIsComplete, ChangesAreAlone, SameClaims
<1>3. SpacesAreClaimed'
  BY <1>1, SameClaimsFacts DEF WorldIsTidy, SpacesAreClaimed, Operable
<1>4. ProductIsClaimed'
  <2>1. \A r \in usage.runtimes : r \in Names
    BY DEF Inv, RestTyped, ClusterTypeOK, Usage
  <2> QED BY <1>1, <2>1, SameClaimsFacts DEF WorldIsTidy, ProductIsClaimed, Operable
<1>5. AppsAreClaimed'
  BY <1>1, SameClaimsFacts DEF WorldIsTidy, AppsAreClaimed, SameClaims
<1>6. ReposExist'
  BY <1>1 DEF WorldIsTidy, ReposExist, SameClaims
<1>7. HooksAreClaimed'
  BY SameClaimsFacts DEF WorldIsTidy, HooksAreClaimed
<1>8. AccountsAreClaimed'
  BY <1>1, SameClaimsFacts DEF WorldIsTidy, AccountsAreClaimed, HasAccount, Operable
<1>9. Claimed(usage)'
  <2>1. \A x \in usage.account : x.runtime \in Names
    BY DEF Inv, RestTyped, ClusterTypeOK, Usage, AccountUse
  <2>2. ASSUME NEW r \in Names, Lost(r) PROVE Lost(r)'
    BY <1>1, <2>2, SameClaimsFacts DEF Lost
  <2> QED BY <1>1, <2>1, <2>2, SameClaimsFacts DEF WorldIsTidy, Claimed
<1> QED BY <1>2, <1>3, <1>4, <1>5, <1>6, <1>7, <1>8, <1>9 DEF WorldIsTidy

\* A reconcile ends early, or the operator crashes.
LEMMA IdleTidy ==
  ASSUME Inv, TidyInOrder, run' = Idle,
         UNCHANGED <<clusterVars, listenerVars, hooks, objectVars, history>>,
         Fault \/ (UNCHANGED faults /\ run.pc \notin Unlistening)
  PROVE  TidyInOrder'
<1>1. run'.rt \notin Names /\ run'.pc = "idle" /\ run'.op = "none"
  BY IdleFacts
<1>2. SameClaims
  BY DEF SameClaims, objectVars, Settled, Live
<1>3. WorldIsTidy'
  BY <1>2, WorldParts, WorldStep, FaultsGrow DEF objectVars
<1>4. CalendarsAreThere'
  <2>1. CASE Fault
    <3>1. faults' # MaxFaults
      BY <2>1, NoFaultsLeft
    <3> QED BY <1>1, <3>1 DEF CalendarsAreThere, Deploying
  <2>2. CASE UNCHANGED faults /\ run.pc \notin Unlistening
    BY <1>1, <2>2 DEF TidyInOrder, SourcesAreThere, CalendarsAreThere, Deploying, listenerVars
  <2> QED BY <2>1, <2>2
<1> QED BY <1>1, <1>3, <1>4, IdleIsTidy

-----------------------------------------------------------------------------
(* Until it calls components, a reconcile only reads.                       *)

LEMMA CalendarsKeep ==
  ASSUME Inv, SourcesAreThere, run.pc \notin Unlistening, UNCHANGED <<calendar, cached>>,
         UNCHANGED faults \/ Fault, ~(Deploying' /\ run'.pc \in Unlistening)
  PROVE  CalendarsAreThere'
  BY FaultsGrow DEF SourcesAreThere, CalendarsAreThere

LEMMA ReadingTidy ==
  ASSUME Inv', run'.pc # "idle", WorldIsTidy', SourcesAreThere', StaleIsComplete', StaleIsExact',
         run'.new = run'.old,
         \/ run'.pc \in {"addFinalizer", "validate", "getUsage"}
         \/ Deploying' /\ run'.pc = "createProduct"
         \/ Deleting' /\ run'.pc = "unlisten"
         \/ run'.failed /\ run'.pc = "saveStatus",
         Copied' => /\ run'.usage.account = usage'.account
                    /\ \A r \in run'.usage.runtimes : Exists(r)' /\ (Deleting' => r # run'.rt),
         Deleting' /\ run'.old.account = NoAccount => NoUse(Record)'
  PROVE  TidyInOrder'
<1>1. Deploying' <=> ~Deleting'
  BY DEF Inv, RunIsSound, Deploying, Deleting
<1>2. /\ run'.pc \notin {"removeFinalizer", "revokeOld", "dropUser", "deleteAccount", "createSpace", "grant",
                         "revoke", "deleteSpace", "deleteProject"}
      /\ run'.pc \notin Leaving /\ run'.pc \notin Ending /\ run'.pc \notin Ended
      /\ run'.failed \/ run'.pc \notin FromSaved
      /\ run'.failed \/ ~Deploying' \/ run'.pc \notin FromSpace
      /\ Deploying' => run'.pc \notin Unlistening
  BY <1>1 DEF Leaving, Ending, Ended, FromSpace, FromAccount, FromUser, FromRole, FromGranted, FromSynced,
     FromSaved, ListeningPCs, Unlistening
<1>3. run'.failed \/ ~Deploying' \/ (run'.pc \notin FromSynced /\ run'.pc \notin HookSynced)
  BY <1>2 DEF FromSpace, FromAccount, FromUser, FromRole, FromGranted, FromSynced,
     FromSaved, ListeningPCs, HookSynced
<1>4. NewIsMade'
  BY <1>2, <1>3 DEF NewIsMade
<1>5. ObjectsAreTidy'
  BY <1>4 DEF WorldIsTidy, ObjectsAreTidy
<1>6. SpacesAreTidy'
  <2>1. Deploying' /\ run'.pc \notin FromSpace => run'.new.space = run'.old.space
    OBVIOUS
  <2>2. ~(Deleting' /\ ~run'.failed /\ run'.pc \in Ended)
    BY <1>2
  <2>3. ~(run'.new.space = NoSpace /\ run'.old.space # NoSpace)
    OBVIOUS
  <2> QED BY <2>1, <2>2, <2>3 DEF WorldIsTidy, SpacesAreTidy, SpacesAreClaimed
<1>7. ProductIsTidy'
  <2>1. ~At("removeFinalizer")' /\ ~At("deleteProject")' /\ run'.pc \notin Ending
    BY <1>2 DEF At
  <2>2. run'.failed \/ run'.pc \notin {"saveUsage", "removeFinalizer"}
    BY <1>2 DEF FromSaved
  <2> QED BY <2>1, <2>2 DEF WorldIsTidy, ProductIsTidy, ProductIsClaimed
<1>8. AppsAreTidy'
  BY <1>2 DEF WorldIsTidy, AppsAreTidy, AppsAreClaimed, AppSynced
<1>9. HooksAreTidy'
  <2>1. run'.failed \/ ~HookRemoved'
    <3>1. CASE Deploying'
      BY <1>3, <3>1 DEF HookRemoved
    <3>2. CASE ~Deploying'
      BY <1>1, <1>2, <3>2 DEF HookRemoved
    <3> QED BY <3>1, <3>2
  <2> QED BY <2>1 DEF WorldIsTidy, HooksAreTidy, HooksAreClaimed
<1>10. UsageIsClaimed'
  BY DEF UsageIsClaimed, Claimed, WorldIsTidy
<1>11. NewIsTidy'
  <2>1. run'.old.account = NoAccount => OldIsLeft'
    BY SpecsAssumption DEF OldIsLeft, AccountIsLeft, PermIsLeft
  <2> QED BY <2>1 DEF NewIsTidy
<1>12. DeploymentIsTidy'
  BY <1>2, <1>3 DEF DeploymentIsTidy, At, FromLeft, FromGranted, FromSynced, FromSpace, FromAccount, FromUser, FromRole
<1>13. DeletionIsTidy'
  BY <1>2 DEF DeletionIsTidy, At
<1> QED BY <1>5, <1>6, <1>7, <1>8, <1>9, <1>10, <1>11, <1>12, <1>13 DEF TidyInOrder, AccountsAreTidy, WorldIsTidy

\* A step of a reconcile that has only read.
LEMMA ReadOnTidy ==
  ASSUME Inv, EventsInOrder, TidyInOrder, NewIsSound, run.pc \in Reading, run.pc # "idle", Inv', SameReconcile,
         run'.new = run.new, run'.repos = run.repos, SameClaims,
         UNCHANGED <<clusterVars, listenerVars, hooks, late, left, codeRepos, history>>,
         UNCHANGED faults \/ Fault,
         \/ Deploying /\ run'.pc \in {"validate", "getUsage"}
         \/ Deploying /\ run'.pc = "createProduct" /\ run'.usage = [usage EXCEPT !.runtimes = @ \cup {run.rt}]
         \/ Deleting /\ run'.pc = "unlisten" /\ run'.usage = [usage EXCEPT !.runtimes = @ \ {run.rt}]
         \/ run'.failed /\ run'.pc = "saveStatus"
  PROVE  TidyInOrder'
<1>1. run.pc # "idle" /\ run.pc \notin Unlistening /\ ~Copied
  BY DEF Reading, Unlistening, Copied
<1>2. /\ run.rt \in Names /\ (Deploying <=> ~Deleting) /\ (Deploying' <=> Deploying) /\ (Deleting' <=> Deleting)
      /\ usage' = usage /\ usage \in Usage
  BY <1>1, RunFacts, WorldIsTyped DEF SameReconcile, Deploying, Deleting, clusterVars, ClusterTypeOK, Inv, RestTyped
<1>3. WorldIsTidy'
  BY WorldParts, WorldStep, FaultsGrow
<1>4. SourcesAreThere'
  <2>1. CalendarsAreThere'
    BY <1>1, <1>2, CalendarsKeep DEF TidyInOrder, listenerVars, Unlistening
  <2>2. ReposAreThere'
    <3>1. ReposAreThere /\ codeRepos' = codeRepos
      BY DEF TidyInOrder, SourcesAreThere
    <3>2. run'.repos = codeRepos' /\ run'.spec.tokens \subseteq codeRepos'
      BY <1>2, <3>1 DEF ReposAreThere, SameReconcile
    <3>3. run'.pc \notin {"listen", "forgetRepos", "unlistenRepos"}
      OBVIOUS
    <3> QED BY <1>3, <3>2, <3>3 DEF ReposAreThere, WorldIsTidy, ReposExist
  <2> QED BY <2>1, <2>2 DEF SourcesAreThere
<1>5. StaleIsComplete'
  BY DEF TidyInOrder, ObjectsAreTidy, StaleIsComplete, SameReconcile, Complete
<1>6. run'.usage.account = usage'.account \/ ~Copied'
  <2>1. run'.pc \in {"createProduct", "unlisten"} \/ ~Copied'
    BY DEF Copied
  <2> QED BY <1>2, <2>1 DEF Usage
<1>7. StaleIsExact'
  <2>1. StaleIsExact
    BY DEF TidyInOrder, AccountsAreTidy
  <2>2. run.stale => AccountIsExact(usage)'
    BY <1>2, <2>1 DEF StaleIsExact, AccountIsExact, SameReconcile
  <2> QED BY <1>2, <1>6, <2>2 DEF StaleIsExact, AccountIsExact, SameReconcile
<1>8. Copied' => \A r \in run'.usage.runtimes : Exists(r)' /\ (Deleting' => r # run'.rt)
  <2>1. Exists(run.rt)
    BY <1>1, <1>2, OwnRun DEF TidyInOrder
  <2>2. \A r \in usage.runtimes : Exists(r) /\ r \in Names
    BY <1>2 DEF TidyInOrder, ProductIsTidy, Usage
  <2>3. \A r \in Names : Exists(r) => Exists(r)'
    BY SameClaimsFacts
  <2>4. Copied' => \/ run'.usage.runtimes = usage.runtimes \cup {run.rt} /\ Deploying
                   \/ run'.usage.runtimes = usage.runtimes \ {run.rt}
    <3>1. run'.pc \in {"createProduct", "unlisten"} \/ ~Copied'
      BY DEF Copied
    <3> QED BY <1>2, <3>1 DEF Usage
  <2> QED BY <1>2, <2>1, <2>2, <2>3, <2>4 DEF SameReconcile
<1>9. Deleting' /\ run'.old.account = NoAccount => NoUse(Record)'
  <2> SUFFICES ASSUME Deleting, run.old.account = NoAccount PROVE NoUse(Record)'
    BY <1>2 DEF SameReconcile
  <2>1. Record'.account = usage.account
    <3>1. \/ run'.pc = "unlisten" /\ run'.usage = [usage EXCEPT !.runtimes = @ \ {run.rt}]
          \/ run'.pc = "saveStatus"
      BY <1>2
    <3>2. CASE run'.pc = "saveStatus"
      BY <1>2, <3>2 DEF Record
    <3>3. CASE run'.pc = "unlisten" /\ run'.usage = [usage EXCEPT !.runtimes = @ \ {run.rt}]
      <4>1. run'.usage.account = usage.account
        BY <1>2, <3>3 DEF Usage
      <4> QED BY <3>3, <4>1 DEF Record
    <3> QED BY <3>1, <3>2, <3>3
  <2>2. ASSUME NEW x \in usage.account PROVE x.runtime # run.rt
    <3>1. ClaimsAccount(x.runtime, x.account) /\ x.account \in Accounts
      BY <1>2, <2>2, WorldParts DEF WorldIsTidy, Claimed, Usage, AccountUse
    <3>2. ~Live(run.rt) /\ runtimes[run.rt].cache.account = NoAccount
      BY <1>1, <1>2, OwnRun DEF TidyInOrder
    <3> QED BY <3>1, <3>2, SpecsAssumption DEF ClaimsAccount
  <2> QED BY <2>1, <2>2 DEF NoUse, SameReconcile
<1>10. run'.new = run'.old /\ run'.pc # "idle"
  BY DEF NewIsSound, SameReconcile
<1> QED BY <1>2, <1>3, <1>4, <1>5, <1>6, <1>7, <1>8, <1>9, <1>10, ReadingTidy

LEMMA CrashTidy ==
  ASSUME Inv, TidyInOrder, Crash
  PROVE  TidyInOrder'
  BY IdleTidy DEF Crash

LEMMA AddFinalizerTidy ==
  ASSUME Inv, EventsInOrder, TidyInOrder, NewIsSound, AddFinalizer
  PROVE  TidyInOrder'
<1>1. run.pc = "addFinalizer" /\ run.pc # "idle" /\ run.pc \in Reading /\ run.pc \notin Unlistening
  BY DEF AddFinalizer, At, Reading, Unlistening
<1>2. run \in RunType /\ run.rt \in Names /\ Deploying
  BY <1>1, RunFacts DEF DeletePCs, Unlistening, Leaving, Ending
<1>3. CASE run' = Idle
  <2>1. UNCHANGED runtimes /\ (UNCHANGED faults \/ Fault)
    <3>1. run' # GoTo("validate")
      BY <1>2, <1>3 DEF Idle, GoTo, RunType
    <3> QED BY <3>1 DEF AddFinalizer
  <2> QED BY <1>1, <1>3, <2>1, IdleTidy DEF AddFinalizer, objectVars
<1>4. CASE runtimes' = [runtimes EXCEPT ![Me].finalizer = TRUE] /\ run' = GoTo("validate") /\ UNCHANGED faults
  <2>1. /\ SameReconcile /\ run'.new = run.new /\ run'.repos = run.repos /\ run'.pc = "validate"
    BY <1>2, <1>4 DEF GoTo, RunType, SameReconcile
  <2>2. SameClaims
    <3>1. runtimes \in [Names -> Runtime]
      BY <1>1, RunFacts
    <3>2. \A q \in Names : /\ runtimes'[q].phase = runtimes[q].phase /\ runtimes'[q].spec = runtimes[q].spec
                           /\ runtimes'[q].cache = runtimes[q].cache /\ runtimes'[q].applied = runtimes[q].applied
      BY <1>2, <1>4, <3>1 DEF Runtime
    <3> QED BY <3>2 DEF SameClaims, Settled, Live
  <2>3. Inv'
    BY AddFinalizerKeepsInv
  <2> QED BY <1>1, <1>2, <1>4, <2>1, <2>2, <2>3, ReadOnTidy DEF AddFinalizer
<1> QED BY <1>3, <1>4 DEF AddFinalizer

LEMMA ValidateTidy ==
  ASSUME Inv, EventsInOrder, TidyInOrder, NewIsSound, Validate
  PROVE  TidyInOrder'
<1>1. run.pc = "validate" /\ run.pc # "idle" /\ run.pc \in Reading /\ run.pc \notin Unlistening
  BY DEF Validate, At, Reading, Unlistening
<1>2. run \in RunType /\ run.rt \in Names /\ Deploying
  BY <1>1, RunFacts DEF DeletePCs, Unlistening, Leaving, Ending
<1>3. CASE run' = Idle
  BY <1>1, <1>3, IdleTidy DEF Validate
<1>4. CASE run' = GoTo("getUsage")
  <2>1. /\ SameReconcile /\ run'.new = run.new /\ run'.repos = run.repos /\ run'.pc = "getUsage"
    BY <1>2, <1>4 DEF GoTo, RunType, SameReconcile
  <2>2. SameClaims
    BY DEF Validate, SameClaims, Settled, Live, objectVars
  <2>3. Inv'
    BY ValidateKeepsInv
  <2> QED BY <1>1, <1>2, <1>4, <2>1, <2>2, <2>3, ReadOnTidy DEF Validate, objectVars
<1> QED BY <1>3, <1>4 DEF Validate

LEMMA RunBegins ==
  ASSUME Inv, run.pc # "idle", NEW pc, NEW u, NEW kinds,
         run' = [run EXCEPT !.pc = pc, !.usage = u, !.kinds = kinds]
  PROVE  SameReconcile /\ run'.new = run.new /\ run'.repos = run.repos /\ run'.pc = pc /\ run'.usage = u
<1>1. run \in RunType
  BY RunFacts
<1> QED BY <1>1 DEF RunType, SameReconcile

LEMMA GetUsageTidy ==
  ASSUME Inv, EventsInOrder, TidyInOrder, NewIsSound, GetUsage
  PROVE  TidyInOrder'
<1>1. run.pc = "getUsage" /\ run.pc # "idle" /\ run.pc \in Reading
  BY DEF GetUsage, At, Reading
<1>2. run \in RunType /\ run.rt \in Names /\ (Deploying <=> ~Deleting)
  BY <1>1, RunFacts
<1>3. ~(Deleting /\ ~usage.known)
  BY <1>1, <1>2, RunFacts DEF EventsInOrder, ObjectsListen
<1>4. /\ SameReconcile /\ run'.new = run.new /\ run'.repos = run.repos
      /\ \/ Deploying /\ run'.pc = "createProduct" /\ run'.usage = [usage EXCEPT !.runtimes = @ \cup {run.rt}]
         \/ Deleting /\ run'.pc = "unlisten" /\ run'.usage = [usage EXCEPT !.runtimes = @ \ {run.rt}]
         \/ run'.failed /\ run'.pc = "saveStatus"
  <2>1. CASE run' = [run EXCEPT !.pc = "createProduct", !.usage = [usage EXCEPT !.runtimes = @ \cup {Me}]]
             /\ Deploying
    <3>1. PICK u, pc : u = [usage EXCEPT !.runtimes = @ \cup {Me}] /\ pc = "createProduct"
      OBVIOUS
    <3>2. run' = [run EXCEPT !.pc = pc, !.usage = u]
      BY <2>1, <3>1
    <3>3. Keeps /\ run'.new = run.new /\ run'.pc = pc /\ run'.usage = u
      BY <1>1, <3>2, RunKeeps
    <3> QED BY <2>1, <3>1, <3>3 DEF Keeps, Me
  <2>2. CASE run' = [run EXCEPT !.pc = "unlisten", !.usage = [usage EXCEPT !.runtimes = @ \ {Me}],
                                !.kinds = IF run.old.id THEN cached[Me] ELSE {}]
             /\ Deleting
    <3>1. PICK u, kinds, pc : /\ pc = "unlisten"
                              /\ u = [usage EXCEPT !.runtimes = @ \ {Me}]
                              /\ kinds = IF run.old.id THEN cached[Me] ELSE {}
      OBVIOUS
    <3>2. run' = [run EXCEPT !.pc = pc, !.usage = u, !.kinds = kinds]
      BY <2>2, <3>1
    <3>3. SameReconcile /\ run'.new = run.new /\ run'.repos = run.repos /\ run'.pc = pc /\ run'.usage = u
      BY <1>1, <3>2, RunBegins
    <3> QED BY <2>2, <3>1, <3>3 DEF Me
  <2>3. CASE run' = [run EXCEPT !.pc = "saveStatus", !.failed = TRUE]
    BY <1>2, <2>3 DEF RunType, SameReconcile
  <2> QED BY <1>3, <2>1, <2>2, <2>3 DEF GetUsage
<1>5. SameClaims /\ (UNCHANGED faults \/ Fault)
  BY DEF GetUsage, SameClaims, Settled, Live, objectVars
<1>6. Inv'
  BY GetUsageKeepsInv
<1> QED BY <1>1, <1>4, <1>5, <1>6, ReadOnTidy DEF GetUsage, objectVars

LEMMA ReconcileTidy ==
  ASSUME Inv, EventsInOrder, TidyInOrder, NEW r \in Names, Reconcile(r)
  PROVE  TidyInOrder'
<1>1. run.pc = "idle" /\ runtimes[r].phase # "none" /\ run.pc \notin Unlistening
  BY DEF Reconcile, At, Unlistening
<1>2. /\ runtimes \in [Names -> Runtime] /\ runtimes[r] \in Runtime /\ runtimes[r].spec \in Specs
      /\ \A q \in Names : runtimes[q].phase # "none" => runtimes[q].spec \in Specs
  BY <1>1, ObjectFacts DEF Inv, RestTyped
<1>3. /\ run'.rt = r /\ run'.spec = runtimes[r].spec /\ run'.old = runtimes[r].cache
      /\ run'.new = runtimes[r].cache /\ run'.repos = codeRepos /\ ~run'.stale
      /\ run'.pc \in {"addFinalizer", "validate", "getUsage"}
      /\ run'.usage = EmptyUsage(FALSE)
      /\ Deleting' => ~Live(r)
  BY DEF Reconcile, Idle, Deleting
<1>4. Inv'
  BY ReconcileKeepsInv
<1>5. SameClaims
  <2>1. \A q \in Names : /\ runtimes'[q].phase = runtimes[q].phase /\ runtimes'[q].spec = runtimes[q].spec
                         /\ runtimes'[q].cache = runtimes[q].cache
                         /\ \/ runtimes'[q].applied = runtimes[q].applied
                            \/ runtimes[q].applied # runtimes[q].spec /\ runtimes'[q].applied = NoSpec
    BY <1>2 DEF Reconcile, Runtime
  <2>2. \A q \in Names : Live(q) => runtimes[q].spec # NoSpec
    BY <1>2, ConstantFacts DEF Live
  <2> QED BY <2>1, <2>2 DEF SameClaims, Settled, Live
<1>6. WorldIsTidy'
  BY <1>5, WorldParts, WorldStep DEF Reconcile
<1>7. SourcesAreThere'
  <2>1. CalendarsAreThere'
    <3>1. run'.pc \notin Unlistening
      BY <1>3 DEF Unlistening
    <3> QED BY <1>1, <3>1, CalendarsKeep DEF TidyInOrder, Reconcile, listenerVars
  <2>2. run'.spec.tokens \subseteq codeRepos' /\ run'.repos = codeRepos'
    BY <1>3, <1>5, <1>6 DEF WorldIsTidy, ReposExist, SameClaims, Reconcile
  <2>3. run'.pc \notin {"listen", "forgetRepos", "unlistenRepos"}
    BY <1>3
  <2>4. ReposAreThere'
    BY <1>6, <2>2, <2>3 DEF ReposAreThere, WorldIsTidy, ReposExist
  <2> QED BY <2>1, <2>4 DEF SourcesAreThere
<1>8. StaleIsComplete' /\ StaleIsExact' /\ ~Copied'
  BY <1>3 DEF StaleIsComplete, StaleIsExact, Copied
<1>9. NoUse(Record)'
  <2>1. run'.pc \notin {"saveStatus", "removeFinalizer"}
    BY <1>3
  <2> QED BY <1>3, <2>1 DEF NoUse, Record, EmptyUsage
<1>10. run'.pc # "idle" /\ run'.new = run'.old
  BY <1>3
<1> QED BY <1>3, <1>4, <1>6, <1>7, <1>8, <1>9, <1>10, ReadingTidy

-----------------------------------------------------------------------------
(* The cluster is done with deleting a namespace.                           *)

LEMMA GoneTidy ==
  ASSUME Inv, TidyInOrder, NEW s \in Spaces \cup {Product}, Gone(s)
  PROVE  TidyInOrder'
<1> DEFINE kept == left \ {t \in {s} : \A r \in Names : runtimes[r].cache.space # t}
<1>1. /\ ns[s] = "terminating" /\ ns' = [ns EXCEPT ![s] = "none"]
      /\ \A t \in Spaces \cup {Product} : ns'[t] = IF t = s THEN "none" ELSE ns[t]
      /\ hooks \in [Spaces -> Repos \cup {NoRepo}] /\ Product \notin Spaces
  BY ClusterAssumption DEF Gone, NamespaceGone, Inv, RestTyped, ClusterTypeOK
<1>2. /\ UNCHANGED <<listenerVars, codeRepos, runtimes, late, run, history, faults>>
      /\ UNCHANGED <<project, apps, roles, usage>>
  BY DEF Gone, NamespaceGone
<1>3. /\ IF s = Product THEN accounts' = {} ELSE accounts' = accounts
      /\ hooks' = IF s = Product THEN hooks ELSE [hooks EXCEPT ![s] = NoRepo]
      /\ left' \subseteq left
      /\ \A t \in left : t # s => t \in left'
  BY DEF Gone, NamespaceGone
<1>4. /\ \A t \in Spaces \cup {Product} : Operable(t)' => t # s /\ Operable(t)
      /\ Operable(Product)' => Operable(Product)
      /\ \A a : HasAccount(a)' => HasAccount(a)
      /\ \A t \in Spaces : hooks'[t] = hooks[t] \/ hooks'[t] = NoRepo
      /\ \A t \in Spaces : hooks'[t] # NoRepo => t # s /\ hooks'[t] = hooks[t]
  BY <1>1, <1>3 DEF Operable, HasAccount
<1>5. ObjectsAreTidy'
  BY <1>2 DEF TidyInOrder, ObjectsAreTidy, SettledIsComplete, Settled, Live, ChangesAreAlone, AtRest,
     StaleIsComplete, NewIsMade, Deploying, HookSynced, FromSynced, FromSaved, ListeningPCs, Unlistening
<1>6. \A r : /\ Exists(r)' <=> Exists(r)
             /\ Live(r)' <=> Live(r)
             /\ \A x : ClaimsSpace(r, x)' <=> ClaimsSpace(r, x)
             /\ \A x : ClaimsAccount(r, x)' <=> ClaimsAccount(r, x)
             /\ \A x, p : ClaimsPerm(r, x, p)' <=> ClaimsPerm(r, x, p)
  BY <1>2, ClaimsAreSame
<1>7. /\ Deploying' <=> Deploying
      /\ Deleting' <=> Deleting
      /\ Copied' <=> Copied
      /\ \A pc : At(pc)' <=> At(pc)
  BY <1>2 DEF Deploying, Deleting, Copied, At
<1>8. SpacesAreTidy'
  <2>1. \A t \in Spaces : Operable(t)' => t \in left' \/ \E r \in Names : ClaimsSpace(r, t)'
    BY <1>3, <1>4, <1>6 DEF TidyInOrder, SpacesAreTidy
  <2>2. Deploying' /\ run'.pc \notin FromSpace => run'.new.space = run'.old.space
    BY <1>2, <1>7 DEF TidyInOrder, SpacesAreTidy
  <2>3. Deleting' /\ ~run'.failed /\ run'.pc \in Ended => run'.new.space = NoSpace
    BY <1>2, <1>7 DEF TidyInOrder, SpacesAreTidy
  <2>4. ASSUME Deleting, run.new.space = NoSpace, run.old.space # NoSpace PROVE ~Operable(run.old.space)'
    <3>1. ~Operable(run.old.space) /\ run.old.space \in Spaces
      <4>1. run.old \in Cache
        BY DEF Inv, RunIsSound, RunType
      <4> QED BY <2>4, <4>1 DEF TidyInOrder, SpacesAreTidy, Cache
    <3>2. ns'[run.old.space] # "active"
      BY <1>1, <3>1 DEF Operable
    <3> QED BY <1>2, <3>2 DEF Operable
  <2> QED BY <1>2, <1>7, <2>1, <2>2, <2>3, <2>4 DEF SpacesAreTidy
<1>9. ProductIsTidy'
  <2>1. ProductIsTidy
    BY DEF TidyInOrder
  <2> QED BY <1>2, <1>4, <1>6, <1>7, <2>1 DEF ProductIsTidy
<1>10. AppsAreTidy'
  BY <1>2 DEF TidyInOrder, AppsAreTidy, Exists, Settled, Live, AppSynced, Deploying, Ended, Ending, Leaving, FromSaved,
     history
<1>11. SourcesAreThere'
  BY <1>2 DEF TidyInOrder, SourcesAreThere, ReposAreThere, CalendarsAreThere, listenerVars, Deploying, Unlistening
<1>12. HooksAreTidy'
  <2>1. \A t \in Spaces : hooks'[t] # NoRepo =>
          (t \in left' /\ faults' < MaxFaults) \/ \E r \in Names : ClaimsHook(r, t)'
    <3> SUFFICES ASSUME NEW t \in Spaces, hooks'[t] # NoRepo
                 PROVE  (t \in left' /\ faults' < MaxFaults) \/ \E r \in Names : ClaimsHook(r, t)'
      OBVIOUS
    <3>1. hooks'[t] = hooks[t] /\ t # s
      BY <1>4
    <3>2. \A r \in Names : ClaimsHook(r, t) => ClaimsHook(r, t)'
      BY <1>2, <3>1 DEF ClaimsHook, Live, Exists
    <3>3. (t \in left /\ faults < MaxFaults) \/ \E r \in Names : ClaimsHook(r, t)
      BY <3>1 DEF TidyInOrder, HooksAreTidy
    <3> QED BY <1>2, <1>3, <3>1, <3>2, <3>3
  <2>2. HookIsGone => HookIsGone'
    <3>1. run.old \in Cache
      BY DEF Inv, RunIsSound, RunType
    <3> QED BY <1>2, <1>4, <3>1 DEF HookIsGone, Cache, Deploying
  <2>3. HookRemoved' <=> HookRemoved
    BY <1>2, <1>7 DEF HookRemoved, HookSynced
  <2> QED BY <1>2, <1>7, <2>1, <2>2, <2>3 DEF TidyInOrder, HooksAreTidy
<1>13. AccountsAreTidy'
  <2>1. AccountsAreClaimed'
    <3>1. accounts' # {} => ns'[Product] # "none"
      BY <1>1, <1>3 DEF TidyInOrder, AccountsAreTidy, AccountsAreClaimed
    <3> QED BY <1>2, <1>4, <1>6, <3>1 DEF TidyInOrder, AccountsAreTidy, AccountsAreClaimed
  <2>2. UsageIsClaimed'
    BY <1>2, <1>6, <1>7 DEF TidyInOrder, AccountsAreTidy, UsageIsClaimed, Claimed, Lost, AtRest, Settled, Live, history
  <2>3. /\ AccountIsLeft => AccountIsLeft'
        /\ \A p : PermIsLeft(p) => PermIsLeft(p)'
    BY <1>2, <1>4, <1>6, <1>7 DEF AccountIsLeft, PermIsLeft, Others
  <2>4. (OldIsLeft => OldIsLeft') /\ (TodoIsLeft => TodoIsLeft')
    BY <1>2, <2>3 DEF OldIsLeft, TodoIsLeft
  <2>5. Record' = Record /\ \A u : /\ AccountIsExact(u)' <=> AccountIsExact(u)
                                   /\ PermsAreExact(u)' <=> PermsAreExact(u)
                                   /\ NoUse(u)' <=> NoUse(u)
    BY <1>2 DEF Record, AccountIsExact, PermsAreExact, NoUse
  <2>6. /\ RecordIsExact => RecordIsExact'
        /\ NoUse(Record) => NoUse(Record)'
        /\ AccountIsExact(Record) => AccountIsExact(Record)'
    BY <1>2, <1>7 DEF RecordIsExact, Record, AccountIsExact, PermsAreExact, NoUse, history
  <2>7. NewIsTidy'
    BY <1>2, <1>7, <2>4, <2>6 DEF TidyInOrder, AccountsAreTidy, NewIsTidy
  <2>8. DeploymentIsTidy'
    BY <1>2, <1>7, <2>3, <2>4, <2>6 DEF TidyInOrder, AccountsAreTidy, DeploymentIsTidy
  <2>9. DeletionIsTidy'
    BY <1>2, <1>7, <2>4 DEF TidyInOrder, AccountsAreTidy, DeletionIsTidy
  <2>10. StaleIsExact'
    BY <1>2, <1>7 DEF TidyInOrder, AccountsAreTidy, StaleIsExact, AccountIsExact
  <2> QED BY <2>1, <2>2, <2>7, <2>8, <2>9, <2>10 DEF AccountsAreTidy
<1> QED BY <1>5, <1>8, <1>9, <1>10, <1>11, <1>12, <1>13 DEF TidyInOrder

-----------------------------------------------------------------------------
(* Users change one object while no reconcile has anything to do.           *)

\* The object of r becomes o, that of a new or of a deleted runtime or of one
\* with another spec; the cache in its status claims what its spec did.
Changes(r, o) ==
  /\ o \in Runtime /\ runtimes' = [runtimes EXCEPT ![r] = o]
  /\ o.phase \in {"live", "deleting"} /\ o.cache = runtimes[r].cache
  /\ o.phase = "live" /\ o.applied = o.spec => Settled(r) /\ o.spec = runtimes[r].spec
  /\ o.phase = "deleting" => Live(r) /\ o.spec = runtimes[r].spec
  /\ left \subseteq left'
  /\ Live(r) /\ o.spec.space # runtimes[r].spec.space => runtimes[r].spec.space \in left'
  /\ o.spec.tokens \subseteq codeRepos
  /\ UNCHANGED <<clusterVars, listenerVars, hooks, codeRepos, history, faults>>

LEMMA ChangeFacts ==
  ASSUME Inv, WorldIsTidy, NEW r \in Names, NEW o, Changes(r, o), \A q \in Names : AtRest(q)
  PROVE  /\ runtimes'[r] = o
         /\ \A q \in Names \ {r} : runtimes'[q] = runtimes[q] /\ (Settled(q)' <=> Settled(q))
         /\ Settled(r)' => Settled(r) /\ o.spec = runtimes[r].spec
         /\ Live(r) => Complete(o.cache, runtimes[r].spec)
         /\ Exists(r) => Settled(r)
         /\ Exists(r)'
         /\ Live(r)' <=> o.phase = "live"
<1>1. /\ runtimes'[r] = o
      /\ \A q \in Names \ {r} : runtimes'[q] = runtimes[q]
  BY WorldIsTyped DEF Changes
<1>2. \A q \in Names \ {r} : Settled(q)' <=> Settled(q)
  BY <1>1 DEF Settled, Live
<1>3. Settled(r)' => Settled(r) /\ o.spec = runtimes[r].spec
  BY <1>1 DEF Settled, Live, Changes
<1>4. (Live(r) => Settled(r)) /\ (Exists(r) => Settled(r))
  BY DEF AtRest, Live, Exists
<1>5. Live(r) => Complete(o.cache, runtimes[r].spec)
  BY <1>4 DEF WorldIsTidy, SettledIsComplete, Changes
<1> QED BY <1>1, <1>2, <1>3, <1>4, <1>5 DEF Exists, Live, Changes

LEMMA ChangeGrows ==
  ASSUME Inv, WorldIsTidy, NEW r \in Names, NEW o, Changes(r, o), \A q \in Names : AtRest(q),
         NEW q \in Names
  PROVE  /\ Exists(q) => Exists(q)'
         /\ \A a : ClaimsAccount(q, a) => ClaimsAccount(q, a)'
         /\ \A a, p : ClaimsPerm(q, a, p) => ClaimsPerm(q, a, p)'
<1>1. CASE q # r
  <2>1. runtimes'[q] = runtimes[q]
    BY <1>1, ChangeFacts
  <2> QED BY <2>1 DEF Exists, Live, ClaimsAccount, ClaimsPerm
<1>2. CASE q = r
  <2>1. runtimes'[r] = o /\ Exists(r)' /\ (Live(r) => Complete(o.cache, runtimes[r].spec))
    BY ChangeFacts
  <2>2. o.cache = runtimes[r].cache
    BY DEF Changes
  <2> QED BY <1>2, <2>1, <2>2 DEF ClaimsAccount, ClaimsPerm, Complete
<1> QED BY <1>1, <1>2

LEMMA ChangeClaimed ==
  ASSUME Inv, WorldIsTidy, NEW r \in Names, NEW o, Changes(r, o), \A q \in Names : AtRest(q),
         \A q \in Names : Exists(q) => ~Lost(q), NEW u \in Usage, Claimed(u)
  PROVE  \A x \in u.account :
           /\ ClaimsAccount(x.runtime, x.account)'
           /\ \A p \in x.perms : ClaimsPerm(x.runtime, x.account, p)'
<1> SUFFICES ASSUME NEW x \in u.account
             PROVE  /\ ClaimsAccount(x.runtime, x.account)'
                    /\ \A p \in x.perms : ClaimsPerm(x.runtime, x.account, p)'
  OBVIOUS
<1>1. x.runtime \in Names
  BY DEF Usage, AccountUse
<1>2. ClaimsAccount(x.runtime, x.account)
  BY DEF Claimed
<1>3. Exists(x.runtime)
  BY <1>2 DEF ClaimsAccount, Exists, Live
<1>4. \A p \in x.perms : ClaimsPerm(x.runtime, x.account, p)
  BY <1>1, <1>3 DEF Claimed
<1> QED BY <1>1, <1>2, <1>4, ChangeGrows

LEMMA ChangeWorld ==
  ASSUME Inv, EventsInOrder, WorldIsTidy, NEW r \in Names, NEW o, Changes(r, o), \A q \in Names : AtRest(q),
         late' = NoRequest, \A q \in Names : Exists(q) => ~Lost(q)
  PROVE  WorldIsTidy'
<1>0. /\ ns' = ns /\ accounts' = accounts /\ project' = project /\ apps' = apps /\ roles' = roles
      /\ usage' = usage /\ gitlab' = gitlab /\ abandoned' = abandoned /\ hooks' = hooks
      /\ codeRepos' = codeRepos /\ faults' = faults /\ left \subseteq left' /\ usage \in Usage
  BY DEF Changes, clusterVars, listenerVars, history, Inv, RestTyped, ClusterTypeOK
<1>1. /\ runtimes'[r] = o
      /\ \A q \in Names \ {r} : runtimes'[q] = runtimes[q] /\ (Settled(q)' <=> Settled(q))
      /\ Settled(r)' => Settled(r) /\ o.spec = runtimes[r].spec
      /\ Live(r) => Complete(o.cache, runtimes[r].spec)
      /\ Exists(r) => Settled(r)
      /\ Exists(r)'
      /\ Live(r)' <=> o.phase = "live"
  BY ChangeFacts
<1>2. SettledIsComplete'
  <2> SUFFICES ASSUME NEW q \in Names, Settled(q)' PROVE Complete(runtimes'[q].cache, runtimes'[q].spec)
    BY DEF SettledIsComplete, Complete
  <2>1. CASE q # r
    BY <1>1, <2>1 DEF WorldIsTidy, SettledIsComplete
  <2>2. CASE q = r
    BY <1>1, <2>2 DEF Settled
  <2> QED BY <2>1, <2>2
<1>3. ChangesAreAlone'
  <2>1. \A q \in Names \ {r} : AtRest(q)'
    BY <1>1 DEF AtRest
  <2> QED BY <2>1 DEF ChangesAreAlone
<1>4. SpacesAreClaimed'
  <2> SUFFICES ASSUME NEW s \in Spaces, Operable(s) PROVE s \in left' \/ \E q \in Names : ClaimsSpace(q, s)'
    BY <1>0 DEF SpacesAreClaimed, Operable
  <2>1. CASE s \in left
    BY <1>0, <2>1
  <2>2. CASE \E q \in Names \ {r} : ClaimsSpace(q, s)
    <3>1. PICK q \in Names \ {r} : ClaimsSpace(q, s)
      BY <2>2
    <3>2. ClaimsSpace(q, s)'
      BY <1>1, <3>1 DEF ClaimsSpace, Live
    <3> QED BY <3>2
  <2>3. CASE ClaimsSpace(r, s)
    <3>1. Live(r) /\ runtimes[r].spec.space = s
      BY <1>1, <2>3 DEF ClaimsSpace, Exists, Settled, Live
    <3>2. CASE o.phase = "live"
      BY <1>1, <3>1, <3>2 DEF ClaimsSpace, Changes
    <3>3. CASE o.phase = "deleting"
      BY <1>1, <3>1, <3>3 DEF ClaimsSpace, Complete
    <3> QED BY <3>2, <3>3 DEF Changes
  <2> QED BY <2>1, <2>2, <2>3 DEF WorldIsTidy, SpacesAreClaimed
<1>5. ProductIsClaimed'
  <2>1. \A q \in usage.runtimes : q \in Names
    BY <1>0 DEF Usage
  <2>2. \A q \in Names : Exists(q) => Exists(q)'
    BY ChangeGrows
  <2> QED BY <1>0, <2>1, <2>2 DEF WorldIsTidy, ProductIsClaimed, Operable
<1>6. AppsAreClaimed'
  <2> SUFFICES ASSUME NEW q \in Names, apps[q] # {}, q \notin abandoned
               PROVE runtimes'[q].spec.app \/ (Exists(q)' /\ runtimes'[q].cache.app /\ ~Settled(q)')
    BY <1>0 DEF AppsAreClaimed
  <2>1. CASE q # r
    <3>1. runtimes'[q] = runtimes[q] /\ (Exists(q)' <=> Exists(q)) /\ (Settled(q)' <=> Settled(q))
      BY <1>1, <2>1 DEF Exists
    <3> QED BY <3>1 DEF WorldIsTidy, AppsAreClaimed
  <2>2. CASE q = r
    <3>1. runtimes[r].spec.app
      BY <1>1, <2>2 DEF WorldIsTidy, AppsAreClaimed
    <3>2. Live(r)
      <4>1. runtimes[r].phase = "none" => runtimes[r].spec = NoSpec
        BY DEF EventsInOrder, ObjectsListen
      <4> QED BY <1>1, <3>1, <4>1, NoSpecFacts DEF Exists, Settled
    <3>3. o.cache.app
      BY <1>1, <3>1, <3>2 DEF Complete
    <3>4. o.spec = runtimes[r].spec \/ ~Settled(r)'
      BY <1>1
    <3> QED BY <1>1, <2>2, <3>1, <3>3, <3>4
  <2> QED BY <2>1, <2>2
<1>7. ReposExist'
  <2>1. \A q \in Names : runtimes'[q].spec.tokens \subseteq codeRepos
    BY <1>1 DEF WorldIsTidy, ReposExist, Changes
  <2> QED BY <1>0, <2>1 DEF WorldIsTidy, ReposExist
<1>8. HooksAreClaimed'
  <2> SUFFICES ASSUME NEW s \in Spaces, hooks[s] # NoRepo
               PROVE  (s \in left' /\ faults' < MaxFaults) \/ \E q \in Names : ClaimsHook(q, s)'
    BY <1>0 DEF HooksAreClaimed
  <2>1. CASE s \in left /\ faults < MaxFaults
    BY <1>0, <2>1
  <2>2. CASE \E q \in Names \ {r} : ClaimsHook(q, s)
    <3>1. PICK q \in Names \ {r} : ClaimsHook(q, s)
      BY <2>2
    <3>2. ClaimsHook(q, s)'
      BY <1>0, <1>1, <3>1 DEF ClaimsHook, Live, Exists
    <3> QED BY <3>2
  <2>3. CASE ClaimsHook(r, s)
    <3>1. Live(r) /\ runtimes[r].spec.space = s /\ hooks[s] = HookOf(runtimes[r].spec)
      BY <1>1, <2>3 DEF ClaimsHook, Exists, Settled, Live, Complete, Changes
    <3>2. o.cache.space = s /\ o.cache.hook = hooks[s]
      BY <1>1, <3>1 DEF Complete
    <3>3. ClaimsHook(r, s)'
      <4>1. CASE Live(r)' /\ o.spec.space = s /\ o.cache.hook = HookOf(o.spec)
        BY <1>0, <1>1, <3>2, <4>1 DEF ClaimsHook
      <4>2. CASE Live(r)' => o.spec.space # s \/ o.cache.hook # HookOf(o.spec)
        BY <1>0, <1>1, <3>2, <4>2 DEF ClaimsHook
      <4> QED BY <4>1, <4>2
    <3> QED BY <3>3
  <2> QED BY <2>1, <2>2, <2>3 DEF WorldIsTidy, HooksAreClaimed
<1>9. AccountsAreClaimed'
  BY <1>0, ChangeGrows DEF WorldIsTidy, AccountsAreClaimed, HasAccount, Operable
<1>10. Claimed(usage)'
  <2>1. Claimed(usage)
    BY DEF WorldIsTidy
  <2> QED BY <1>0, <2>1, ChangeClaimed DEF Claimed
<1> QED BY <1>2, <1>3, <1>4, <1>5, <1>6, <1>7, <1>8, <1>9, <1>10 DEF WorldIsTidy

LEMMA ChangeUnderway ==
  ASSUME Inv, EventsInOrder, TidyInOrder, NEW r \in Names, NEW o, Changes(r, o), \A q \in Names : AtRest(q),
         late' = NoRequest, \A q \in Names : Exists(q) => ~Lost(q), Touch(r), run.pc # "idle"
  PROVE  TidyInOrder'
<1>1. /\ run \in RunType /\ run.rt \in Names /\ (Deploying <=> ~Deleting) /\ run.usage \in Usage /\ run.old \in Cache
      /\ SameButStale
  BY RunFacts, TouchFacts
<1>2. /\ run'.repos = run.repos /\ run'.kinds = run.kinds
      /\ run'.pc = run.pc /\ run'.rt = run.rt /\ run'.spec = run.spec /\ run'.old = run.old /\ run'.new = run.new
      /\ run'.usage = run.usage /\ run'.todo = run.todo /\ run'.failed = run.failed
      /\ run.stale => run'.stale
  BY <1>1 DEF Touch, RunType, SameButStale
<1>3. /\ Deploying' <=> Deploying
      /\ Deleting' <=> Deleting
      /\ Copied' <=> Copied
      /\ \A pc : At(pc)' <=> At(pc)
  BY <1>1 DEF SameButStale, Deploying, Deleting, Copied, At
<1>4. PICK q \in Names : q = run.rt
  BY <1>1
<1>5. Deploying /\ ~Deleting /\ Settled(q) /\ runtimes[q].cache = run.old /\ Complete(run.old, run.spec)
  <2>1. /\ Exists(q) /\ runtimes[q].cache = run.old /\ (Deleting => ~Settled(q))
        /\ run.stale => Complete(run.old, run.spec)
        /\ Settled(q) /\ ~run.stale => Complete(run.old, run.spec)
    BY <1>4, OwnRun DEF TidyInOrder
  <2>2. Settled(q)
    BY <2>1 DEF AtRest, Exists
  <2> QED BY <1>1, <2>1, <2>2
<1>6. WorldIsTidy /\ WorldIsTidy'
  BY WorldParts, ChangeWorld
<1>7. /\ ns' = ns /\ project' = project /\ apps' = apps /\ usage' = usage /\ hooks' = hooks /\ roles' = roles
      /\ accounts' = accounts /\ recorded' = recorded /\ abandoned' = abandoned /\ codeRepos' = codeRepos
      /\ faults' = faults /\ calendar' = calendar /\ cached' = cached
  BY DEF Changes, clusterVars, listenerVars, history
<1>8. ObjectsAreTidy'
  <2>1. StaleIsComplete'
    BY <1>2, <1>5 DEF StaleIsComplete, Complete
  <2>2. NewIsMade'
    BY <1>2, <1>3 DEF TidyInOrder, ObjectsAreTidy, NewIsMade
  <2> QED BY <1>6, <2>1, <2>2 DEF ObjectsAreTidy, WorldIsTidy
<1>9. SpacesAreTidy'
  BY <1>2, <1>3, <1>6, <1>7 DEF TidyInOrder, SpacesAreTidy, WorldIsTidy, SpacesAreClaimed, Operable
<1>10. ProductIsTidy'
  <2>1. Copied \/ At("removeFinalizer") => \A x \in run.usage.runtimes : Exists(x)'
    <3>1. \A x \in run.usage.runtimes : x \in Names
      BY <1>1 DEF Usage
    <3>2. \A x \in Names : Exists(x) => Exists(x)'
      BY <1>6, ChangeGrows
    <3> QED BY <3>1, <3>2 DEF TidyInOrder, ProductIsTidy
  <2> QED BY <1>2, <1>3, <1>5, <1>6, <1>7, <2>1 DEF TidyInOrder, ProductIsTidy, WorldIsTidy, ProductIsClaimed
<1>11. AppsAreTidy'
  <2>1. AppSynced' <=> AppSynced
    BY <1>2, <1>3 DEF AppSynced
  <2> QED BY <1>2, <1>3, <1>6, <1>7, <2>1 DEF TidyInOrder, AppsAreTidy, WorldIsTidy, AppsAreClaimed
<1>12. SourcesAreThere'
  <2>1. ReposAreThere'
    BY <1>2, <1>6, <1>7 DEF TidyInOrder, SourcesAreThere, ReposAreThere, WorldIsTidy, ReposExist
  <2>2. CalendarsAreThere'
    BY <1>2, <1>3, <1>7 DEF TidyInOrder, SourcesAreThere, CalendarsAreThere
  <2> QED BY <2>1, <2>2 DEF SourcesAreThere
<1>13. HooksAreTidy'
  <2>1. (HookRemoved' <=> HookRemoved) /\ (HookIsGone' <=> HookIsGone)
    BY <1>2, <1>3, <1>7 DEF HookRemoved, HookIsGone
  <2> QED BY <1>2, <1>3, <1>6, <1>7, <2>1 DEF TidyInOrder, HooksAreTidy, WorldIsTidy, HooksAreClaimed
<1>14. AccountsAreTidy'
  <2>1. AccountsAreTidy
    BY DEF TidyInOrder
  <2>2. UsageIsClaimed'
    <3>1. Copied => Claimed(run.usage)
      BY <2>1 DEF AccountsAreTidy, UsageIsClaimed
    <3>2. Copied => Claimed(run.usage)'
      BY <1>1, <1>2, <1>6, <3>1, ChangeClaimed DEF Claimed
    <3> QED BY <1>3, <1>6, <3>2 DEF UsageIsClaimed, WorldIsTidy
  <2>3. /\ AccountIsLeft => AccountIsLeft'
        /\ \A p : PermIsLeft(p) => PermIsLeft(p)'
    <3>1. HasAccount(run.old.account)' <=> HasAccount(run.old.account)
      BY <1>2, <1>7 DEF HasAccount, Operable
    <3>2. \A x \in Others : x \in Names /\ x \in Others'
      BY <1>2 DEF Others
    <3>3. AccountIsLeft => AccountIsLeft'
      BY <1>2, <1>3, <1>6, <1>7, <3>1, <3>2, ChangeGrows DEF AccountIsLeft
    <3>4. ASSUME NEW p, PermIsLeft(p) PROVE PermIsLeft(p)'
      BY <1>2, <1>3, <1>6, <1>7, <3>2, <3>4, ChangeGrows DEF PermIsLeft
    <3> QED BY <3>3, <3>4
  <2>4. (OldIsLeft => OldIsLeft') /\ (TodoIsLeft => TodoIsLeft')
    BY <1>2, <2>3 DEF OldIsLeft, TodoIsLeft
  <2>5. /\ RecordIsExact => RecordIsExact'
        /\ AccountIsExact(Record) => AccountIsExact(Record)'
    BY <1>2, <1>3, <1>7 DEF RecordIsExact, Record, AccountIsExact, PermsAreExact
  <2>6. NewIsTidy'
    BY <1>2, <1>3, <1>5, <2>1, <2>4, <2>5 DEF AccountsAreTidy, NewIsTidy
  <2>7. DeploymentIsTidy'
    BY <1>2, <1>3, <1>7, <2>1, <2>3, <2>4, <2>5 DEF AccountsAreTidy, DeploymentIsTidy
  <2>8. DeletionIsTidy'
    BY <1>3, <1>5 DEF DeletionIsTidy
  <2>9. StaleIsExact'
    <3>1. \A a : ClaimsAccount(q, a) => a = run.spec.account
      <4>1. runtimes[q].spec.account = run.old.account
        BY <1>5, <1>6 DEF WorldIsTidy, SettledIsComplete, Complete
      <4> QED BY <1>5, <4>1 DEF ClaimsAccount, Complete
    <3>2. ASSUME NEW u, Claimed(u) PROVE AccountIsExact(u)
      BY <1>4, <3>1, <3>2 DEF AccountIsExact, Claimed
    <3>3. AccountIsExact(usage) /\ (Copied => AccountIsExact(run.usage))
      BY <2>1, <3>2 DEF AccountsAreTidy, UsageIsClaimed
    <3> QED BY <1>2, <1>3, <1>7, <3>3 DEF StaleIsExact, AccountIsExact
  <2> QED BY <1>6, <2>2, <2>6, <2>7, <2>8, <2>9 DEF AccountsAreTidy, WorldIsTidy
<1> QED BY <1>8, <1>9, <1>10, <1>11, <1>12, <1>13, <1>14 DEF TidyInOrder

LEMMA ChangeTidy ==
  ASSUME Inv, EventsInOrder, TidyInOrder, NewIsSound, NEW r \in Names, NEW o, Changes(r, o),
         \A q \in Names : AtRest(q), late' = NoRequest, \A q \in Names : Exists(q) => ~Lost(q), Touch(r)
  PROVE  TidyInOrder'
<1>1. CASE run.pc = "idle"
  <2>1. /\ run.rt \notin Names /\ run \in RunType /\ run.op = "none"
    <3>1. run.rt = NoName /\ run \in RunType
      BY <1>1 DEF Inv, RunIsSound
    <3>2. run.rt \notin Names
      BY <3>1, SpecsAssumption
    <3> QED BY <1>1, <3>1, <3>2 DEF NewIsSound
  <2>2. run'.rt \notin Names /\ run'.pc = "idle" /\ run'.op = "none"
    BY <1>1, <2>1 DEF Touch, RunType
  <2>3. WorldIsTidy'
    BY WorldParts, ChangeWorld
  <2>4. CalendarsAreThere'
    <3>1. run.pc \notin Unlistening /\ run'.pc \notin Unlistening
      BY <1>1, <2>2 DEF Unlistening
    <3> QED BY <3>1, CalendarsKeep DEF TidyInOrder, Changes, listenerVars
  <2> QED BY <2>2, <2>3, <2>4, IdleIsTidy
<1>2. CASE run.pc # "idle"
  BY <1>2, ChangeUnderway
<1> QED BY <1>1, <1>2

\* A quiet system, and what a user may change of it.
LEMMA QuietIsAtRest ==
  ASSUME Quiet
  PROVE  (\A q \in Names : AtRest(q)) /\ (\A q \in Names : Exists(q) => ~Lost(q))
  BY DEF Quiet, AtRest, Exists, Lost

LEMMA WriteChanges ==
  ASSUME Inv, EventsInOrder, WorldIsTidy, \A q \in Names : AtRest(q), NEW r \in Names, NEW spec \in Specs,
         Write(r, spec), spec.tokens \subseteq codeRepos,
         UNCHANGED <<clusterVars, listenerVars, hooks, codeRepos, history, faults>>
  PROVE  \E o : Changes(r, o)
<1> DEFINE o == IF runtimes[r].phase = "none" THEN [NoRuntime EXCEPT !.phase = "live", !.spec = spec]
                ELSE [runtimes[r] EXCEPT !.spec = spec]
<1>1. runtimes[r] \in Runtime /\ runtimes \in [Names -> Runtime] /\ NoRuntime \in Runtime
      /\ NoRuntime.applied = NoSpec /\ NoRuntime.cache = NoCache /\ NoSpec # spec
  BY ConstantFacts, ObjectFacts DEF Inv, RestTyped
<1>2. runtimes' = [runtimes EXCEPT ![r] = o]
  BY DEF Write
<1>3. o \in Runtime /\ o.phase \in {"live", "deleting"} /\ o.spec = spec
  BY <1>1 DEF Write, Runtime
<1>4. CASE runtimes[r].phase = "none"
  <2>1. o.cache = NoCache /\ o.applied = NoSpec /\ o.phase = "live"
    BY <1>1, <1>4 DEF Runtime
  <2>2. runtimes[r].cache = NoCache
    BY <1>4, ObjectFacts
  <2>3. ~Live(r) /\ left \subseteq left'
    BY <1>4 DEF Live, Write
  <2> HIDE DEF o
  <2> QED BY <1>1, <1>2, <1>3, <2>1, <2>2, <2>3 DEF Changes
<1>5. CASE runtimes[r].phase # "none"
  <2>1. Settled(r) /\ runtimes[r].phase = "live" /\ runtimes[r].applied = runtimes[r].spec
    BY <1>5 DEF AtRest, Settled, Live
  <2>2. o.cache = runtimes[r].cache /\ o.applied = runtimes[r].spec /\ o.phase = "live"
    BY <1>1, <1>5, <2>1 DEF Runtime
  <2>3. left \subseteq left' /\ (Live(r) /\ spec.space # runtimes[r].spec.space => runtimes[r].spec.space \in left')
    BY <2>1 DEF Write
  <2> HIDE DEF o
  <2> QED BY <1>1, <1>2, <1>3, <2>1, <2>2, <2>3 DEF Changes
<1> QED BY <1>4, <1>5

LEMMA ApplyTidy ==
  ASSUME Inv, EventsInOrder, TidyInOrder, NewIsSound, calm', NEW r \in Names, NEW spec \in SpecsOf[r], Apply(r, spec)
  PROVE  TidyInOrder'
<1>1. Quiet
  BY DEF Apply, Edited
<1>2. spec \in Specs
  BY DEF Specs
<1>3. /\ Write(r, spec) /\ spec.tokens \subseteq codeRepos /\ late' = NoRequest /\ Touch(r)
      /\ UNCHANGED <<clusterVars, listenerVars, hooks, codeRepos, history, faults>>
  BY <1>1 DEF Apply, MayAsk, Edited, Write, Quiet
<1>4. PICK o : Changes(r, o)
  BY <1>1, <1>2, <1>3, QuietIsAtRest, WorldParts, WriteChanges
<1> QED BY <1>1, <1>3, <1>4, QuietIsAtRest, ChangeTidy

LEMMA WriteLateTidy ==
  ASSUME Inv, EventsInOrder, TidyInOrder, NewIsSound, WriteLate
  PROVE  TidyInOrder'
<1>1. /\ late # NoRequest /\ late' = NoRequest
      /\ UNCHANGED <<clusterVars, listenerVars, hooks, codeRepos, history, faults>>
  BY DEF WriteLate
<1>2. PICK r, spec : r \in Names /\ spec \in Specs /\ late.rt = r /\ late.spec = spec
  BY <1>1 DEF Inv, RestTyped
<1>3. \A q \in Names : AtRest(q)
  BY <1>1 DEF EventsInOrder, LateIsAlone, AtRest
<1>4. \A q \in Names : Exists(q) => ~Lost(q)
  BY <1>1 DEF Lost
<1>5. runtimes[r].phase # "deleting"
  BY <1>2, <1>3 DEF AtRest, Settled, Live
<1>6. Write(r, spec) /\ Touch(r)
  BY <1>2, <1>5 DEF WriteLate, Write
<1>7. spec.tokens \subseteq codeRepos
  BY <1>1, <1>2, WorldParts DEF WorldIsTidy, ReposExist
<1>8. PICK o : Changes(r, o)
  BY <1>1, <1>2, <1>3, <1>6, <1>7, WorldParts, WriteChanges
<1> QED BY <1>1, <1>2, <1>3, <1>4, <1>6, <1>8, ChangeTidy

LEMMA DeleteRuntimeTidy ==
  ASSUME Inv, EventsInOrder, TidyInOrder, NewIsSound, calm', NEW r \in Names, DeleteRuntime(r)
  PROVE  TidyInOrder'
<1>1. Quiet /\ late' = NoRequest
  BY DEF DeleteRuntime, Edited, Quiet
<1>2. (\A q \in Names : AtRest(q)) /\ (\A q \in Names : Exists(q) => ~Lost(q))
  BY <1>1, QuietIsAtRest
<1>3. Settled(r) /\ Live(r) /\ runtimes[r] \in Runtime /\ runtimes[r].spec \in Specs
  BY <1>2, ObjectFacts DEF DeleteRuntime, AtRest, Live
<1>4. runtimes[r].finalizer
  <2>1. runtimes[r].cache.account = runtimes[r].spec.account
    BY <1>3 DEF TidyInOrder, ObjectsAreTidy, SettledIsComplete, Complete
  <2>2. runtimes[r].cache # NoCache
    BY <1>3, <2>1, ConstantFacts DEF NoCache
  <2> QED BY <2>2, ObjectFacts
<1> DEFINE o == [runtimes[r] EXCEPT !.phase = "deleting"]
<1>5. runtimes' = [runtimes EXCEPT ![r] = o]
  BY <1>4 DEF DeleteRuntime
<1>6. o \in Runtime /\ o.phase = "deleting" /\ o.cache = runtimes[r].cache /\ o.spec = runtimes[r].spec
  BY <1>3 DEF Runtime
<1>7. o.spec.tokens \subseteq codeRepos
  BY <1>6, WorldParts DEF WorldIsTidy, ReposExist
<1>8. UNCHANGED <<clusterVars, listenerVars, hooks, codeRepos, history, faults, left>> /\ Touch(r)
  BY DEF DeleteRuntime, Edited
<1> HIDE DEF o
<1>9. Changes(r, o)
  BY <1>3, <1>5, <1>6, <1>7, <1>8 DEF Changes
<1> QED BY <1>1, <1>2, <1>8, <1>9, ChangeTidy

LEMMA AdmitTidy ==
  ASSUME Inv, EventsInOrder, TidyInOrder, NewIsSound, calm', NEW r \in Names, NEW spec \in SpecsOf[r], Admit(r, spec)
  PROVE  TidyInOrder'
<1>1. Quiet
  BY DEF Admit, Edited
<1>2. (\A q \in Names : AtRest(q)) /\ (\A q \in Names : Exists(q) => ~Lost(q))
  BY <1>1, QuietIsAtRest
<1>3. /\ UNCHANGED <<clusterVars, listenerVars, hooks, codeRepos, runtimes, left, run, history>>
      /\ late'.spec = spec /\ spec.tokens \subseteq codeRepos /\ Fault
  BY DEF Admit, Edited, MayAsk, Fault
<1>4. run'.pc = "idle" /\ run'.rt \notin Names /\ run'.op = "none" /\ run.pc \notin Unlistening
  <2>1. run.pc = "idle" /\ run.rt = NoName
    BY <1>1 DEF Quiet, Inv, RunIsSound
  <2> QED BY <1>3, <2>1, SpecsAssumption DEF NewIsSound, Unlistening
<1>5. WorldIsTidy'
  <2>1. WorldIsTidy
    BY WorldParts
  <2>2. \A q : /\ Exists(q)' <=> Exists(q)
               /\ Live(q)' <=> Live(q)
               /\ Settled(q)' <=> Settled(q)
               /\ AtRest(q)' <=> AtRest(q)
               /\ \A x : ClaimsSpace(q, x)' <=> ClaimsSpace(q, x)
               /\ \A x : ClaimsAccount(q, x)' <=> ClaimsAccount(q, x)
               /\ \A x, p : ClaimsPerm(q, x, p)' <=> ClaimsPerm(q, x, p)
    BY <1>3, ClaimsAreSame
  <2>3. /\ ns' = ns /\ project' = project /\ apps' = apps /\ usage' = usage /\ hooks' = hooks /\ roles' = roles
        /\ accounts' = accounts /\ abandoned' = abandoned /\ codeRepos' = codeRepos /\ gitlab' = gitlab
    BY <1>3 DEF clusterVars, listenerVars, history
  <2>4. SettledIsComplete' /\ ChangesAreAlone' /\ SpacesAreClaimed' /\ ProductIsClaimed' /\ AppsAreClaimed'
    BY <1>3, <2>1, <2>2, <2>3 DEF WorldIsTidy, SettledIsComplete, ChangesAreAlone, SpacesAreClaimed,
       ProductIsClaimed, AppsAreClaimed, Operable
  <2>5. ReposExist'
    BY <1>3, <2>1, <2>3 DEF WorldIsTidy, ReposExist
  <2>6. HooksAreClaimed'
    <3>1. \A q, s : ClaimsHook(q, s)' <=> ClaimsHook(q, s)
      BY <1>3, <2>3 DEF ClaimsHook, Live, Exists
    <3>2. faults' < MaxFaults
      BY <1>3, FaultsGrow
    <3> QED BY <1>3, <2>1, <2>3, <3>1, <3>2 DEF WorldIsTidy, HooksAreClaimed
  <2>7. AccountsAreClaimed'
    BY <2>1, <2>2, <2>3 DEF WorldIsTidy, AccountsAreClaimed, HasAccount, Operable
  <2>8. Claimed(usage)'
    <3>1. \A x \in usage.account : x.runtime \in Names
      BY DEF Inv, RestTyped, ClusterTypeOK, Usage, AccountUse
    <3>2. \A q \in Names : \A x : ClaimsAccount(q, x) => Exists(q)
      BY DEF ClaimsAccount, Exists, Live
    <3> QED BY <1>2, <2>1, <2>2, <2>3, <3>1, <3>2 DEF WorldIsTidy, Claimed
  <2> QED BY <2>4, <2>5, <2>6, <2>7, <2>8 DEF WorldIsTidy
<1>6. CalendarsAreThere'
  <2>1. run'.pc \notin Unlistening
    BY <1>4 DEF Unlistening
  <2> QED BY <1>3, <1>4, <2>1, CalendarsKeep DEF TidyInOrder, listenerVars
<1> QED BY <1>4, <1>5, <1>6, IdleIsTidy

LEMMA UserTidy ==
  ASSUME Inv, EventsInOrder, TidyInOrder, NewIsSound, calm', User
  PROVE  TidyInOrder'
<1>1. ASSUME NEW p \in Repos, DeleteCodeRepo(p) PROVE FALSE
  <2>1. Quiet
    BY <1>1 DEF DeleteCodeRepo, Edited
  <2>2. PICK r \in Names : p \in gitlab[r].repos
    BY <1>1 DEF DeleteCodeRepo
  <2>3. EventsAre(r, runtimes[r].spec) /\ (runtimes[r].phase = "none" => runtimes[r].spec = NoSpec)
    BY <2>1 DEF Quiet, EventsInOrder, ObjectsListen
  <2>4. p \in runtimes[r].spec.tokens
    BY <2>2, <2>3 DEF EventsAre, NoSource
  <2>5. runtimes[r].phase # "none"
    BY <2>3, <2>4, NoSpecFacts
  <2>6. runtimes[r].phase = "live"
    BY <2>1, <2>5 DEF Quiet, Settled, Live
  <2> QED BY <1>1, <2>4, <2>6 DEF DeleteCodeRepo
<1>2. CASE \E r \in Names : \E spec \in SpecsOf[r] : Apply(r, spec) \/ Admit(r, spec)
  BY <1>2, ApplyTidy, AdmitTidy
<1>3. CASE WriteLate
  BY <1>3, WriteLateTidy
<1>4. CASE \E r \in Names : DeleteRuntime(r)
  BY <1>4, DeleteRuntimeTidy
<1> QED BY <1>1, <1>2, <1>3, <1>4 DEF User

-----------------------------------------------------------------------------
(* The usage record is saved.                                               *)

LEMMA SavedUse ==
  ASSUME Inv, EventsInOrder, TidyInOrder, SaveUsage, calm'
  PROVE  /\ \A x \in usage'.account :
              \E y \in run.usage.account : y.account = x.account /\ y.runtime = x.runtime
         /\ \A r \in usage'.runtimes : Exists(r) /\ (Deleting => r # run.rt)
         /\ \/ /\ usage'.account \subseteq run.usage.account
               /\ recorded' = IF run.failed THEN recorded ELSE recorded \cup {run.rt}
            \/ usage' = usage /\ recorded' = recorded \ {run.rt}
<1>1. run.pc = "saveUsage" /\ run.usage \in Usage /\ usage \in Usage
  BY RunFacts DEF SaveUsage, At, Inv, RestTyped, ClusterTypeOK
<1>2. \A r \in run.usage.runtimes : Exists(r) /\ (Deleting => r # run.rt)
  BY <1>1 DEF TidyInOrder, ProductIsTidy, Copied, PC
<1>3. CASE UpdateProductUsage(run.usage) /\ recorded' = IF run.failed THEN recorded ELSE recorded \cup {Me}
  <2>1. usage'.account \subseteq run.usage.account /\ usage'.runtimes \subseteq run.usage.runtimes
    BY <1>1, <1>3 DEF UpdateProductUsage, EmptyUsage, Usage
  <2> QED BY <1>2, <1>3, <2>1 DEF Me
<1>4. CASE ~TakesOff(run.usage) /\ usage' = usage /\ recorded' = recorded \ {Me}
  BY <1>2, <1>4 DEF TakesOff, Me
<1> QED BY <1>3, <1>4 DEF SaveUsage

LEMMA SaveUsageTidy ==
  ASSUME Inv, EventsInOrder, TidyInOrder, SaveUsage, calm'
  PROVE  TidyInOrder'
<1>1. /\ run.pc = "saveUsage" /\ run.pc # "idle" /\ run \in RunType /\ run.rt \in Names
      /\ (Deploying <=> ~Deleting) /\ Copied /\ run.usage \in Usage /\ usage \in Usage
      /\ Record = run.usage /\ ~At("saveStatus")
  BY RunFacts DEF SaveUsage, At, Copied, PC, Inv, RestTyped, ClusterTypeOK, Record
<1>2. /\ SameReconcile /\ run'.new = run.new /\ run'.usage = run.usage /\ run'.failed = run.failed
      /\ run'.repos = run.repos
      /\ run'.pc = IF Deleting /\ ~run.failed THEN "removeFinalizer" ELSE "saveStatus"
  BY <1>1 DEF SaveUsage, GoTo, RunType, SameReconcile
<1>3. /\ UNCHANGED <<ns, users, accounts, project, apps, roles, listenerVars, hooks, codeRepos,
                     runtimes, late, left, abandoned>>
      /\ UNCHANGED faults \/ Fault
  BY DEF SaveUsage
<1>4. /\ Deploying' <=> Deploying
      /\ Deleting' <=> Deleting
      /\ ~Copied' /\ Record' = usage'
      /\ Deploying => run'.pc = "saveStatus" /\ At("saveStatus")'
      /\ At("removeFinalizer")' <=> Deleting /\ ~run.failed
  BY <1>1, <1>2 DEF SameReconcile, Deploying, Deleting, Copied, Record, At
<1>5. /\ \A x \in usage'.account :
           \E y \in run.usage.account : y.account = x.account /\ y.runtime = x.runtime
      /\ \A r \in usage'.runtimes : Exists(r) /\ (Deleting => r # run.rt)
      /\ \/ /\ usage'.account \subseteq run.usage.account
            /\ recorded' = IF run.failed THEN recorded ELSE recorded \cup {run.rt}
         \/ usage' = usage /\ recorded' = recorded \ {run.rt}
  BY SavedUse
<1>6. /\ run.pc \in FromSynced /\ run.pc \in HookSynced /\ run.pc \in FromSaved /\ run.pc \in FromSpace
      /\ run.pc \in FromGranted /\ run.pc \in FromLeft /\ run.pc \in Ended /\ run.pc \notin Unlistening
      /\ run'.pc \notin Unlistening
      /\ Deploying => run'.pc \in HookSynced /\ run'.pc \in FromSpace
      /\ run'.pc \notin Ending /\ run'.pc \notin Leaving
  BY <1>1, <1>2 DEF FromSynced, HookSynced, FromSaved, FromSpace, FromAccount, FromUser, FromRole,
     FromGranted, FromLeft, Ended, Ending, Leaving, Unlistening
<1>7. ObjectsAreTidy'
  <2>1. NewIsMade'
    <3>1. Deploying => SameNew
      BY <1>2 DEF SameNew
    <3> QED BY <1>2, <1>6, <3>1, NewStep DEF TidyInOrder
  <2> QED BY <1>2, <1>3, <2>1, ObjectsStep DEF TidyInOrder
<1>8. SpacesAreTidy'
  <2>1. SpacesGrow
    BY <1>3 DEF SpacesGrow, Operable
  <2> QED BY <1>1, <1>2, <1>3, <1>6, <2>1, SpacesStep DEF TidyInOrder
<1>9. ProductIsTidy'
  <2>1. ProductIsTidy
    BY DEF TidyInOrder
  <2>2. \A r : Exists(r)' <=> Exists(r)
    BY <1>3, ClaimsAreSame
  <2>3. (Operable(Product) \/ project # "none")' => \E r \in Names : Exists(r)'
    BY <1>3, <2>1, <2>2 DEF ProductIsTidy, Operable
  <2>4. /\ Copied' \/ At("removeFinalizer")' => \A r \in run'.usage.runtimes : Exists(r)' /\ (Deleting' => r # run'.rt)
        /\ At("removeFinalizer")' => run'.rt \notin usage'.runtimes
    BY <1>1, <1>2, <1>4, <1>5, <2>1, <2>2 DEF ProductIsTidy, SameReconcile
  <2>5. Deleting' /\ ~run'.failed =>
          /\ run'.pc \notin Ending /\ ~At("deleteProject")'
          /\ run'.usage.runtimes = {} => ~Operable(Product)' /\ project' = "none"
    BY <1>1, <1>2, <1>3, <1>4, <1>6, <2>1 DEF ProductIsTidy, Operable, At
  <2> QED BY <1>5, <2>2, <2>3, <2>4, <2>5 DEF ProductIsTidy
<1>10. AppsAreTidy'
  <2>1. ~run'.failed /\ AppSynced' => ~run.failed /\ AppSynced
    BY <1>1, <1>2, <1>6 DEF AppSynced
  <2> QED BY <1>2, <1>3, <2>1, AppsStep DEF TidyInOrder
<1>11. SourcesAreThere'
  <2>1. run'.pc \notin {"listen", "forgetRepos", "unlistenRepos"}
    BY <1>2
  <2>2. faults' = MaxFaults => faults = MaxFaults
    BY <1>3, FaultsGrow
  <2> QED BY <1>2, <1>3, <1>6, <2>1, <2>2, SourcesStep DEF TidyInOrder, listenerVars
<1>12. HooksAreTidy'
  <2>1. ~run'.failed /\ HookRemoved' => ~run.failed /\ HookRemoved
    BY <1>1, <1>2, <1>6 DEF HookRemoved
  <2>2. faults < MaxFaults => faults' < MaxFaults
    BY <1>3, FaultsGrow
  <2> QED BY <1>1, <1>2, <1>3, <2>1, <2>2, HooksStep DEF TidyInOrder
<1>13. AccountsAreTidy'
  <2>1. AccountsAreTidy
    BY DEF TidyInOrder
  <2>2. AccountsGrow
    BY <1>3, <2>1, SameAccountsGrow DEF AccountsAreTidy
  <2>3. AccountsAreClaimed'
    BY <1>1, <1>3, <2>1, <2>2, ClaimedStep DEF TidyInOrder, AccountsAreTidy
  <2>4. /\ AccountIsLeft => AccountIsLeft'
        /\ OldIsLeft => OldIsLeft'
    BY <1>1, <1>2, <1>3, <2>2, LeftStays
  <2>5. /\ AccountIsExact(run.usage) => AccountIsExact(usage)'
        /\ NoUse(run.usage) => NoUse(usage)'
        /\ Deploying /\ RecordIsExact => RecordIsExact'
    <3>1. /\ AccountIsExact(run.usage) => AccountIsExact(usage)'
          /\ NoUse(run.usage) => NoUse(usage)'
      BY <1>2, <1>5 DEF AccountIsExact, NoUse, SameReconcile
    <3>2. ASSUME Deploying, RecordIsExact PROVE PermsAreExact(usage)' \/ run.rt \notin recorded'
      <4>1. PermsAreExact(run.usage)
        BY <1>1, <3>2 DEF RecordIsExact
      <4> QED BY <1>2, <1>5, <4>1 DEF PermsAreExact, SameReconcile
    <3>3. ASSUME Deploying, RecordIsExact PROVE AccountIsExact(Record)' /\ At("saveStatus")'
      <4>1. AccountIsExact(run.usage)
        BY <1>1, <3>3 DEF RecordIsExact
      <4>2. AccountIsExact(usage)'
        BY <3>1, <4>1
      <4> QED BY <1>4, <3>3, <4>2 DEF AccountIsExact
    <3>4. ASSUME Deploying, RecordIsExact PROVE PermsAreExact(Record)' \/ run'.rt \notin recorded'
      BY <1>2, <1>4, <3>2, <3>4 DEF PermsAreExact, SameReconcile
    <3> QED BY <3>1, <3>3, <3>4 DEF RecordIsExact
  <2>6. Deploying /\ ~run.failed => RecordIsExact /\ OldIsLeft /\ AccountIsLeft /\ AccountIsExact(run.usage)
    BY <1>1, <1>6, <2>1 DEF AccountsAreTidy, DeploymentIsTidy
  <2>7. Deleting /\ ~run.failed => run.new.account = NoAccount
    BY <1>1, <1>6, <2>1 DEF AccountsAreTidy, DeletionIsTidy
  <2>8. Deleting /\ run.new.account = NoAccount => OldIsLeft /\ NoUse(run.usage)
    BY <1>1, <2>1 DEF AccountsAreTidy, NewIsTidy
  <2>9. Claimed(usage)'
    <3>1. Claimed(usage) /\ Claimed(run.usage)
      BY <1>1, <2>1 DEF AccountsAreTidy, UsageIsClaimed
    <3>2. \A r, a, p : /\ ClaimsAccount(r, a)' <=> ClaimsAccount(r, a)
                       /\ ClaimsPerm(r, a, p)' <=> ClaimsPerm(r, a, p)
                       /\ AtRest(r)' <=> AtRest(r)
      BY <1>3, ClaimsAreSame
    <3>3. CASE usage' = usage /\ recorded' = recorded \ {run.rt}
      <4>1. \A r : Lost(r) => Lost(r)'
        BY <1>3, <3>2, <3>3 DEF Lost
      <4> QED BY <3>1, <3>2, <3>3, <4>1 DEF Claimed
    <3>4. CASE usage'.account \subseteq run.usage.account
               /\ recorded' = IF run.failed THEN recorded ELSE recorded \cup {run.rt}
      <4> SUFFICES ASSUME NEW x \in run.usage.account
                   PROVE  /\ ClaimsAccount(x.runtime, x.account)
                          /\ Lost(x.runtime)' \/ \A p \in x.perms : ClaimsPerm(x.runtime, x.account, p)
        BY <3>2, <3>4 DEF Claimed
      <4>1. /\ ClaimsAccount(x.runtime, x.account)
            /\ Lost(x.runtime) \/ \A p \in x.perms : ClaimsPerm(x.runtime, x.account, p)
        BY <3>1 DEF Claimed
      <4>2. CASE run.failed \/ x.runtime # run.rt
        <5>1. Lost(x.runtime) => Lost(x.runtime)'
          BY <1>3, <3>2, <3>4, <4>2 DEF Lost
        <5> QED BY <4>1, <5>1
      <4>3. CASE ~run.failed /\ x.runtime = run.rt /\ Deploying
        <5>1. x.account = run.spec.account /\ x.perms \subseteq Perms(run.spec)
          BY <1>1, <2>6, <4>3 DEF RecordIsExact, AccountIsExact, PermsAreExact
        <5>2. \A p \in Perms(run.spec) : ClaimsPerm(run.rt, run.spec.account, p)
          BY <1>1, <4>3, OwnRun DEF TidyInOrder
        <5> QED BY <4>1, <4>3, <5>1, <5>2
      <4>4. CASE ~run.failed /\ x.runtime = run.rt /\ Deleting
        BY <2>7, <2>8, <4>4 DEF NoUse
      <4> QED BY <1>1, <4>2, <4>3, <4>4
    <3> QED BY <1>5, <3>3, <3>4
  <2>10. UsageIsClaimed'
    BY <1>4, <2>9 DEF UsageIsClaimed
  <2>11. NewIsTidy'
    <3>1. NoUse(run.usage) => NoUse(Record)'
      BY <1>4, <2>5 DEF NoUse
    <3>2. SameReconcile /\ run'.new = run.new
      BY <1>2
    <3> QED BY <1>1, <1>4, <2>1, <2>4, <2>5, <2>8, <3>1, <3>2 DEF AccountsAreTidy, NewIsTidy, SameReconcile
  <2>12. DeploymentIsTidy'
    <3>1. AccountIsExact(run.usage) => AccountIsExact(Record)'
      BY <1>4, <2>5 DEF AccountIsExact
    <3>2. Deploying => /\ run'.pc = "saveStatus"
                       /\ run'.pc \notin {"revokeOld", "deleteAccount", "dropUser", "grant", "revoke"}
      BY <1>4
    <3> QED BY <1>2, <1>4, <2>4, <2>5, <2>6, <3>1, <3>2 DEF DeploymentIsTidy, At
  <2>13. DeletionIsTidy'
    BY <1>2, <1>4, <2>7 DEF DeletionIsTidy, At
  <2>14. StaleIsExact'
    BY <1>1, <1>2, <1>4, <2>1, <2>5 DEF AccountsAreTidy, StaleIsExact, SameReconcile
  <2> QED BY <2>3, <2>10, <2>11, <2>12, <2>13, <2>14 DEF AccountsAreTidy
<1> QED BY <1>7, <1>8, <1>9, <1>10, <1>11, <1>12, <1>13 DEF TidyInOrder

-----------------------------------------------------------------------------
(* The status is saved.                                                     *)

\* What the status of q is to have of its cache; the rest of q and the others
\* stay.
Saves(q) ==
  /\ runtimes'[q].cache = run.new /\ runtimes'[q].phase = runtimes[q].phase
  /\ runtimes'[q].spec = runtimes[q].spec
  /\ runtimes'[q].applied = IF Deploying /\ ~run.failed THEN run.spec ELSE runtimes[q].applied
  /\ \A x \in Names \ {q} : runtimes'[x] = runtimes[x]

LEMMA SavedStatus ==
  ASSUME Inv, EventsInOrder, TidyInOrder, NewIsSound, run.pc = "saveStatus", ~run.stale,
         NEW q \in Names, q = run.rt, Saves(q)
  PROVE  /\ Exists(q) /\ runtimes[q].cache = run.old /\ runtimes[q].spec = run.spec
         /\ Live(q) <=> Deploying
         /\ Deploying <=> ~Deleting
         /\ run.new.space = run.old.space \/ run.new.space = IF Deploying THEN run.spec.space ELSE NoSpace
         /\ Deploying /\ ~run.failed => Complete(run.new, run.spec) /\ Settled(q)'
         /\ ~(Deploying /\ ~run.failed) => (Settled(q)' <=> Settled(q))
         /\ Settled(q) => Complete(run.old, run.spec) /\ Complete(run.new, run.spec)
         /\ \A x \in Names \ {q} : Settled(x)' <=> Settled(x)
         /\ \A x \in Names : /\ Live(x)' <=> Live(x)
                             /\ Exists(x)' <=> Exists(x)
                             /\ AtRest(x) => AtRest(x)'
<1>1. /\ Exists(q) /\ runtimes[q].cache = run.old /\ runtimes[q].spec = run.spec
      /\ Live(q) <=> Deploying
      /\ Settled(q) => Complete(run.old, run.spec)
  BY OwnRun DEF TidyInOrder
<1>2. /\ Deploying <=> ~Deleting
      /\ run.new.space = run.old.space \/ run.new.space = IF Deploying THEN run.spec.space ELSE NoSpace
  BY DEF Inv, RunIsSound, Deploying, Deleting
<1>3. \A x \in Names : /\ Live(x)' <=> Live(x)
                       /\ Exists(x)' <=> Exists(x)
                       /\ x # q => (Settled(x)' <=> Settled(x))
  BY DEF Saves, Live, Exists, Settled
<1>4. ~(Deploying /\ ~run.failed) => (Settled(q)' <=> Settled(q))
  BY DEF Saves, Live, Settled
<1>5. run.pc \in FromSynced /\ run.pc \in HookSynced /\ run.pc \in FromSaved /\ run.pc \in FromSpace
  BY DEF FromSynced, HookSynced, FromSaved, FromSpace, FromAccount, FromUser, FromRole, FromGranted
<1>6. NewIsMade
  BY DEF TidyInOrder, ObjectsAreTidy
<1>7. ASSUME Deploying, ~run.failed PROVE Complete(run.new, run.spec) /\ Settled(q)'
  <2>1. run.new.space = run.spec.space
    BY <1>5, <1>7 DEF Inv, DeploymentProgress
  <2>2. Complete(run.new, run.spec)
    BY <1>5, <1>6, <1>7, <2>1 DEF NewIsMade, Complete
  <2> QED BY <1>1, <1>3, <1>7, <2>2 DEF Saves, Settled
<1>8. ASSUME Settled(q) PROVE Complete(run.new, run.spec)
  <2>1. Deploying /\ Complete(run.old, run.spec)
    BY <1>1, <1>8 DEF Settled
  <2> QED BY <1>2, <1>6, <2>1 DEF NewIsMade, Complete
<1>9. \A x \in Names : AtRest(x) => AtRest(x)'
  BY <1>1, <1>3, <1>4, <1>7 DEF AtRest, Exists
<1> QED BY <1>1, <1>2, <1>3, <1>4, <1>7, <1>8, <1>9

\* What the old cache claimed, and not the new one, is left.
LEMMA SavedClaims ==
  ASSUME Inv, EventsInOrder, TidyInOrder, NewIsSound, run.pc = "saveStatus", ~run.stale,
         NEW q \in Names, q = run.rt, Saves(q), NEW a \in Accounts
  PROVE  /\ \A x \in Names \ {q} : /\ ClaimsAccount(x, a)' <=> ClaimsAccount(x, a)
                                   /\ \A p : ClaimsPerm(x, a, p)' <=> ClaimsPerm(x, a, p)
         /\ ClaimsAccount(q, a) => \/ ClaimsAccount(q, a)'
                                   \/ a = run.old.account /\ OldIsLeft /\ (Deploying => RecordIsExact)
                                      /\ (Deleting => NoUse(usage))
         /\ \A p : ClaimsPerm(q, a, p) => \/ ClaimsPerm(q, a, p)'
                                          \/ a = run.old.account /\ p \in run.old.perms
                                             /\ OldIsLeft /\ (Deploying => RecordIsExact)
                                             /\ (Deleting => NoUse(usage))
         /\ Deploying /\ a = run.spec.account => /\ ClaimsAccount(q, a)'
                                                 /\ \A p \in Perms(run.spec) : ClaimsPerm(q, a, p)'
<1>1. /\ Exists(q) /\ runtimes[q].cache = run.old /\ runtimes[q].spec = run.spec
      /\ Live(q) <=> Deploying
      /\ Deploying <=> ~Deleting
      /\ \A x \in Names : /\ Live(x)' <=> Live(x)
                          /\ Exists(x)' <=> Exists(x)
  BY SavedStatus
<1>2. \A x \in Names \ {q} : /\ ClaimsAccount(x, a)' <=> ClaimsAccount(x, a)
                             /\ \A p : ClaimsPerm(x, a, p)' <=> ClaimsPerm(x, a, p)
  BY <1>1 DEF Saves, ClaimsAccount, ClaimsPerm
<1>3. \/ run.new.account = run.old.account /\ run.new.perms = run.old.perms
      \/ OldIsLeft /\ (Deploying => RecordIsExact) /\ (Deleting => NoUse(usage))
  <2>1. NewIsTidy /\ Record = usage
    BY DEF TidyInOrder, AccountsAreTidy, Record
  <2> QED BY <1>1, <2>1 DEF NewIsTidy
<1>4. Deploying /\ a = run.spec.account => /\ ClaimsAccount(q, a)'
                                           /\ \A p \in Perms(run.spec) : ClaimsPerm(q, a, p)'
  BY <1>1 DEF Saves, ClaimsAccount, ClaimsPerm
<1>5. runtimes'[q].cache = run.new /\ runtimes'[q].spec = runtimes[q].spec
  BY DEF Saves
<1>6. ASSUME ClaimsAccount(q, a), ~ClaimsAccount(q, a)' PROVE a = run.old.account /\ run.new.account # run.old.account
  BY <1>1, <1>5, <1>6 DEF ClaimsAccount
<1>7. ASSUME NEW p, ClaimsPerm(q, a, p), ~ClaimsPerm(q, a, p)'
      PROVE  /\ a = run.old.account /\ p \in run.old.perms
             /\ ~(run.new.account = run.old.account /\ run.new.perms = run.old.perms)
  BY <1>1, <1>5, <1>7 DEF ClaimsPerm
<1> QED BY <1>2, <1>3, <1>4, <1>6, <1>7

LEMMA SavedLeft ==
  ASSUME Inv, EventsInOrder, TidyInOrder, NewIsSound, run.pc = "saveStatus", ~run.stale,
         NEW q \in Names, q = run.rt, Saves(q), UNCHANGED <<ns, accounts, roles>>
  PROVE  AccountsAreClaimed'
<1>1. AccountsAreClaimed
  BY DEF TidyInOrder, AccountsAreTidy
<1>2. \A x \in Others : x \in Names \ {q}
  BY DEF Others
<1>3. ASSUME NEW a \in Accounts, HasAccount(a) \/ roles[a].exists PROVE \E r \in Names : ClaimsAccount(r, a)'
  <2>1. PICK r \in Names : ClaimsAccount(r, a)
    BY <1>1, <1>3 DEF AccountsAreClaimed
  <2>2. CASE r # q \/ ClaimsAccount(q, a)'
    BY <2>1, <2>2, SavedClaims
  <2>3. CASE r = q /\ a = run.old.account /\ OldIsLeft
    <3>1. (Deploying /\ a = run.spec.account) \/ \E x \in Others : ClaimsAccount(x, a)
      BY <1>3, <2>3 DEF OldIsLeft, AccountIsLeft
    <3> QED BY <1>2, <3>1, SavedClaims
  <2> QED BY <2>1, <2>2, <2>3, SavedClaims
<1>4. ASSUME NEW a \in Accounts, NEW p \in roles[a].perms PROVE \E r \in Names : ClaimsPerm(r, a, p)'
  <2>1. PICK r \in Names : ClaimsPerm(r, a, p)
    BY <1>1, <1>4 DEF AccountsAreClaimed
  <2>2. CASE r # q \/ ClaimsPerm(q, a, p)'
    BY <2>1, <2>2, SavedClaims
  <2>3. CASE r = q /\ a = run.old.account /\ p \in run.old.perms /\ OldIsLeft
    <3>1. PermIsLeft(p)
      BY <2>3 DEF OldIsLeft
    <3>2. \/ Deploying /\ a = run.spec.account /\ p \in Perms(run.spec)
          \/ \E x \in Others : ClaimsPerm(x, a, p)
      BY <1>4, <2>3, <3>1 DEF PermIsLeft
    <3> QED BY <1>2, <3>2, SavedClaims
  <2> QED BY <2>1, <2>2, <2>3, SavedClaims
<1>5. \A a \in Accounts : HasAccount(a)' <=> HasAccount(a)
  BY DEF HasAccount, Operable
<1> QED BY <1>1, <1>3, <1>4, <1>5 DEF AccountsAreClaimed

LEMMA SavedUsage ==
  ASSUME Inv, EventsInOrder, TidyInOrder, NewIsSound, run.pc = "saveStatus", ~run.stale,
         NEW q \in Names, q = run.rt, Saves(q), UNCHANGED <<usage, recorded, late>>
  PROVE  Claimed(usage)'
<1>1. Claimed(usage) /\ Record = usage /\ usage \in Usage
  BY DEF TidyInOrder, AccountsAreTidy, UsageIsClaimed, Record, Inv, RestTyped, ClusterTypeOK
<1> SUFFICES ASSUME NEW x \in usage.account
             PROVE  /\ ClaimsAccount(x.runtime, x.account)'
                    /\ Lost(x.runtime)' \/ \A p \in x.perms : ClaimsPerm(x.runtime, x.account, p)'
  BY DEF Claimed
<1>2. /\ x.runtime \in Names /\ x.account \in Accounts
      /\ ClaimsAccount(x.runtime, x.account)
      /\ Lost(x.runtime) \/ \A p \in x.perms : ClaimsPerm(x.runtime, x.account, p)
  BY <1>1 DEF Usage, AccountUse, Claimed
<1>3. Lost(x.runtime) => Lost(x.runtime)'
  BY SavedStatus DEF Lost
<1>4. /\ Deploying <=> ~Deleting
      /\ Exists(q)
      /\ Settled(q) => Complete(run.old, run.spec)
  BY SavedStatus
<1>5. CASE x.runtime # q
  BY <1>2, <1>3, <1>5, SavedClaims
<1>6. CASE x.runtime = q
  <2>1. ClaimsAccount(q, x.account)'
    <3>1. CASE Deploying /\ RecordIsExact
      <4>1. x.account = run.spec.account
        BY <1>1, <1>6, <3>1 DEF RecordIsExact, AccountIsExact
      <4> QED BY <1>2, <3>1, <4>1, SavedClaims
    <3>2. CASE NoUse(usage)
      BY <1>6, <3>2 DEF NoUse
    <3> QED BY <1>2, <1>4, <1>6, <3>1, <3>2, SavedClaims
  <2>2. Lost(q)' \/ \A p \in x.perms : ClaimsPerm(q, x.account, p)'
    <3> SUFFICES ASSUME NEW p \in x.perms, ClaimsPerm(q, x.account, p), ~ClaimsPerm(q, x.account, p)' PROVE Lost(q)'
      BY <1>2, <1>3, <1>6
    <3>1. /\ x.account = run.old.account /\ p \in run.old.perms
          /\ (Deploying => RecordIsExact) /\ (Deleting => NoUse(usage))
      BY <1>2, SavedClaims
    <3>2. Deploying /\ RecordIsExact
      BY <1>4, <1>6, <3>1 DEF NoUse
    <3>3. x.account = run.spec.account
      BY <1>1, <1>6, <3>2 DEF RecordIsExact, AccountIsExact
    <3>4. p \notin Perms(run.spec)
      BY <1>2, <3>2, <3>3, SavedClaims
    <3>5. q \notin recorded
      BY <1>1, <1>6, <3>2, <3>4 DEF RecordIsExact, PermsAreExact
    <3>6. ~Settled(q)
      BY <1>4, <3>1, <3>4 DEF Complete
    <3>7. ~AtRest(q) /\ late = NoRequest
      BY <1>4, <3>6 DEF AtRest, Exists, EventsInOrder, LateIsAlone
    <3>8. \A z \in Names \ {q} : AtRest(z)
      BY <3>7 DEF TidyInOrder, ObjectsAreTidy, ChangesAreAlone
    <3> QED BY <3>5, <3>7, <3>8, SavedStatus DEF Lost
  <2> QED BY <1>6, <2>1, <2>2
<1> QED BY <1>5, <1>6

LEMMA SavedHooks ==
  ASSUME Inv, EventsInOrder, TidyInOrder, NewIsSound, run.pc = "saveStatus", ~run.stale,
         NEW q \in Names, q = run.rt, Saves(q), UNCHANGED <<hooks, left, faults>>
  PROVE  HooksAreClaimed'
<1> SUFFICES ASSUME NEW s \in Spaces, hooks[s] # NoRepo
             PROVE  (s \in left /\ faults < MaxFaults) \/ \E r \in Names : ClaimsHook(r, s)'
  BY DEF HooksAreClaimed
<1>1. /\ Exists(q) /\ runtimes[q].cache = run.old /\ runtimes[q].spec = run.spec
      /\ Live(q) <=> Deploying
      /\ Deploying <=> ~Deleting
      /\ run.new.space = run.old.space \/ run.new.space = IF Deploying THEN run.spec.space ELSE NoSpace
      /\ \A x \in Names : /\ Live(x)' <=> Live(x)
                          /\ Exists(x)' <=> Exists(x)
      /\ s # NoSpace
  BY SavedStatus, SpecsAssumption
<1>2. HooksAreTidy
  BY DEF TidyInOrder
<1>3. (s \in left /\ faults < MaxFaults) \/ \E r \in Names : ClaimsHook(r, s)
  BY <1>2 DEF HooksAreTidy
<1>4. ASSUME NEW r \in Names \ {q}, ClaimsHook(r, s) PROVE ClaimsHook(r, s)'
  BY <1>1, <1>4 DEF Saves, ClaimsHook
<1>5. CASE Live(q) /\ run.spec.space = s /\ hooks[s] = HookOf(run.spec)
  <2>1. ClaimsHook(q, s)'
    BY <1>1, <1>5 DEF Saves, ClaimsHook
  <2> QED BY <2>1
<1>6. CASE /\ run.old.space = s /\ run.old.hook # NoRepo
           /\ Live(q) => run.spec.space # s \/ run.old.hook # HookOf(run.spec)
  <2>1. ~HookIsGone
    BY <1>1, <1>6 DEF HookIsGone
  <2>2. /\ run.new.hook = run.old.hook
        /\ run.failed \/ ~HookRemoved
        /\ run.failed /\ run.new.space # run.old.space => Deploying /\ faults < MaxFaults
        /\ Deleting => run.new.space = run.old.space
    BY <1>2, <2>1 DEF HooksAreTidy
  <2>3. CASE run.new.space = run.old.space
    <3>1. ClaimsHook(q, s)'
      BY <1>1, <1>6, <2>2, <2>3 DEF Saves, ClaimsHook
    <3> QED BY <3>1
  <2>4. CASE run.new.space # run.old.space
    <3>1. Deploying /\ HookRemoved
      BY <1>1, <2>2, <2>4 DEF HookRemoved, HookSynced, FromSaved
    <3>2. faults < MaxFaults
      BY <2>2, <2>4, <3>1
    <3>3. run.old.space # run.spec.space
      BY <1>1, <2>4, <3>1
    <3>4. s \in left
      BY <1>1, <1>6, <3>3 DEF Inv, MovedIsLeft
    <3> QED BY <3>2, <3>4
  <2> QED BY <2>3, <2>4
<1>7. ClaimsHook(q, s) <=>
        \/ Live(q) /\ run.spec.space = s /\ hooks[s] = HookOf(run.spec)
        \/ /\ run.old.space = s /\ run.old.hook # NoRepo
           /\ Live(q) => run.spec.space # s \/ run.old.hook # HookOf(run.spec)
  BY <1>1 DEF ClaimsHook
<1> QED BY <1>3, <1>4, <1>5, <1>6, <1>7

LEMMA SavedWorld ==
  ASSUME Inv, EventsInOrder, TidyInOrder, NewIsSound, run.pc = "saveStatus", ~run.stale,
         NEW q \in Names, q = run.rt, Saves(q),
         UNCHANGED <<clusterVars, listenerVars, hooks, codeRepos, late, left, faults, history>>
  PROVE  WorldIsTidy'
<1>1. /\ ns' = ns /\ accounts' = accounts /\ project' = project /\ apps' = apps /\ roles' = roles
      /\ usage' = usage /\ gitlab' = gitlab /\ recorded' = recorded /\ abandoned' = abandoned
  BY DEF clusterVars, listenerVars, history
<1>2. /\ Exists(q) /\ runtimes[q].cache = run.old /\ runtimes[q].spec = run.spec
      /\ Live(q) <=> Deploying
      /\ Deploying <=> ~Deleting
      /\ run.new.space = run.old.space \/ run.new.space = IF Deploying THEN run.spec.space ELSE NoSpace
      /\ Deploying /\ ~run.failed => Complete(run.new, run.spec) /\ Settled(q)'
      /\ ~(Deploying /\ ~run.failed) => (Settled(q)' <=> Settled(q))
      /\ Settled(q) => Complete(run.old, run.spec) /\ Complete(run.new, run.spec)
      /\ \A x \in Names \ {q} : Settled(x)' <=> Settled(x)
      /\ \A x \in Names : /\ Live(x)' <=> Live(x)
                          /\ Exists(x)' <=> Exists(x)
                          /\ AtRest(x) => AtRest(x)'
  BY SavedStatus
<1>3. /\ runtimes'[q].cache = run.new /\ runtimes'[q].spec = runtimes[q].spec
      /\ runtimes'[q].phase = runtimes[q].phase
      /\ \A x \in Names \ {q} : runtimes'[x] = runtimes[x]
  BY DEF Saves
<1>4. WorldIsTidy
  BY WorldParts
<1>5. SettledIsComplete'
  <2>1. Settled(q)' => Complete(run.new, run.spec)
    BY <1>2
  <2>2. Settled(q)' => Complete(runtimes'[q].cache, runtimes'[q].spec)
    BY <1>2, <1>3, <2>1
  <2>3. \A x \in Names \ {q} : Settled(x)' => Complete(runtimes'[x].cache, runtimes'[x].spec)
    BY <1>2, <1>3, <1>4 DEF WorldIsTidy, SettledIsComplete
  <2> QED BY <2>2, <2>3 DEF SettledIsComplete, Complete
<1>6. ChangesAreAlone'
  BY <1>2, <1>4 DEF WorldIsTidy, ChangesAreAlone
<1>7. SpacesAreClaimed'
  <2> SUFFICES ASSUME NEW s \in Spaces, Operable(s)
               PROVE  s \in left \/ \E r \in Names : ClaimsSpace(r, s)'
    BY <1>1 DEF SpacesAreClaimed, Operable
  <2>1. ASSUME NEW r \in Names \ {q}, ClaimsSpace(r, s) PROVE ClaimsSpace(r, s)'
    BY <1>2, <1>3, <2>1 DEF ClaimsSpace
  <2>2. ASSUME ClaimsSpace(q, s) PROVE ClaimsSpace(q, s)'
    <3>1. CASE Deploying
      BY <1>2, <1>3, <2>2, <3>1 DEF ClaimsSpace, Live
    <3>2. CASE Deleting
      <4>1. run.old.space = s
        BY <1>2, <2>2, <3>2 DEF ClaimsSpace
      <4>2. run.new.space = run.old.space
        BY <1>2, <3>2, <4>1, SpecsAssumption DEF TidyInOrder, SpacesAreTidy
      <4> QED BY <1>2, <1>3, <2>2, <4>1, <4>2 DEF ClaimsSpace
    <3> QED BY <1>2, <3>1, <3>2
  <2> QED BY <1>4, <2>1, <2>2 DEF WorldIsTidy, SpacesAreClaimed
<1>8. ProductIsClaimed'
  <2>1. \A r \in usage.runtimes : r \in Names
    BY DEF Inv, RestTyped, ClusterTypeOK, Usage
  <2> QED BY <1>1, <1>2, <1>4, <2>1 DEF WorldIsTidy, ProductIsClaimed, Operable
<1>9. AppsAreClaimed'
  <2> SUFFICES ASSUME NEW r \in Names, apps[r] # {}
               PROVE  r \in abandoned \/ runtimes'[r].spec.app
                      \/ (Exists(r)' /\ runtimes'[r].cache.app /\ ~Settled(r)')
    BY <1>1 DEF AppsAreClaimed
  <2>1. r \in abandoned \/ runtimes[r].spec.app \/ (Exists(r) /\ runtimes[r].cache.app /\ ~Settled(r))
    BY <1>4 DEF WorldIsTidy, AppsAreClaimed
  <2>2. CASE r # q
    BY <1>2, <1>3, <2>1, <2>2
  <2>3. CASE r = q /\ Deploying /\ ~run.failed
    <3>1. run.spec.app \/ apps[q] = {} \/ q \in abandoned
      BY <2>3 DEF TidyInOrder, AppsAreTidy, AppSynced, FromSaved
    <3> QED BY <1>2, <1>3, <2>3, <3>1
  <2>4. CASE r = q /\ ~(Deploying /\ ~run.failed)
    <3>1. run.old.app => run.new.app
      BY <2>4 DEF NewIsSound
    <3> QED BY <1>2, <1>3, <2>1, <2>4, <3>1
  <2> QED BY <2>2, <2>3, <2>4
<1>10. ReposExist'
  BY <1>1, <1>3, <1>4 DEF WorldIsTidy, ReposExist
<1>11. HooksAreClaimed' /\ AccountsAreClaimed' /\ Claimed(usage)'
  BY <1>1, SavedHooks, SavedLeft, SavedUsage
<1> QED BY <1>5, <1>6, <1>7, <1>8, <1>9, <1>10, <1>11 DEF WorldIsTidy

LEMMA SaveStatusTidy ==
  ASSUME Inv, EventsInOrder, TidyInOrder, NewIsSound, SaveStatus
  PROVE  TidyInOrder'
<1>1. /\ run.pc = "saveStatus" /\ run.pc # "idle" /\ run' = Idle
      /\ run.pc \notin Unlistening
      /\ UNCHANGED <<clusterVars, listenerVars, hooks, codeRepos, late, left, calm, edits, history>>
  BY DEF SaveStatus, At, Unlistening
<1>2. CASE UNCHANGED runtimes /\ (UNCHANGED faults \/ Fault)
  BY <1>1, <1>2, IdleTidy DEF objectVars
<1>3. CASE /\ ~run.stale /\ UNCHANGED faults
           /\ runtimes' = [runtimes EXCEPT ![Me].cache = run.new,
                              ![Me].applied = IF Deploying /\ ~run.failed THEN run.spec ELSE @]
  <2>1. PICK q \in Names : q = run.rt
    BY <1>1, RunFacts
  <2>2. runtimes \in [Names -> Runtime] /\ runtimes[q] \in Runtime
    BY <1>1, <2>1, RunFacts
  <2> DEFINE n == [runtimes[q] EXCEPT !.cache = run.new,
                      !.applied = IF Deploying /\ ~run.failed THEN run.spec ELSE @]
  <2>3. /\ n.cache = run.new /\ n.phase = runtimes[q].phase /\ n.spec = runtimes[q].spec
        /\ n.applied = IF Deploying /\ ~run.failed THEN run.spec ELSE runtimes[q].applied
    BY <2>2 DEF Runtime
  <2>4. runtimes' = [runtimes EXCEPT ![q] = n]
    BY <1>3, <2>1 DEF Me
  <2> HIDE DEF n
  <2>5. Saves(q)
    BY <2>2, <2>3, <2>4 DEF Saves
  <2>6. WorldIsTidy'
    BY <1>1, <1>3, <2>1, <2>5, SavedWorld
  <2>7. run'.rt \notin Names /\ run'.pc = "idle" /\ run'.op = "none"
    BY <1>1, IdleFacts
  <2>8. CalendarsAreThere'
    <3>1. ~(Deploying' /\ run'.pc \in Unlistening)
      BY <2>7 DEF Deploying
    <3> QED BY <1>1, <1>3, <3>1, CalendarsKeep DEF TidyInOrder, listenerVars
  <2> QED BY <2>6, <2>7, <2>8, IdleIsTidy
<1> QED BY <1>2, <1>3 DEF SaveStatus

-----------------------------------------------------------------------------
(* The finalizer is removed: the object is gone.                            *)

LEMMA RemovedWorld ==
  ASSUME Inv, EventsInOrder, TidyInOrder, run.pc = "removeFinalizer",
         NEW q \in Names, q = run.rt, runtimes'[q] = NoRuntime,
         \A x \in Names \ {q} : runtimes'[x] = runtimes[x],
         abandoned' = IF run.spec.app THEN abandoned \cup {q} ELSE abandoned,
         UNCHANGED <<clusterVars, listenerVars, hooks, codeRepos, late, left, faults, recorded>>
  PROVE  WorldIsTidy'
<1>1. /\ ns' = ns /\ accounts' = accounts /\ project' = project /\ apps' = apps /\ roles' = roles
      /\ usage' = usage /\ gitlab' = gitlab
  BY DEF clusterVars, listenerVars
<1>2. /\ Deleting /\ ~Deploying /\ ~run.failed /\ Record = usage
      /\ run.pc \in Ended /\ HookRemoved /\ AppSynced
  <2>1. ~Deploying /\ Deleting
    <3>1. run.pc \notin DeployPCs /\ run.pc # "idle"
      BY DEF DeployPCs, FromValidated, FromUsage, FromProduct, FromProject, FromSpace, FromAccount, FromUser,
         FromRole, FromGranted, FromSynced, FromSaved, Leaving, ListeningPCs, Unlistening
    <3> QED BY <3>1, RunFacts
  <2>2. ~run.failed
    BY DEF EventsInOrder, RunIsCalm, FromSaved
  <2>3. run.pc \in Ended
    BY DEF Ended
  <2> QED BY <2>1, <2>2, <2>3 DEF Record, HookRemoved, AppSynced
<1>3. /\ Exists(q) /\ runtimes[q].cache = run.old /\ runtimes[q].spec = run.spec
      /\ ~Live(q) /\ ~Settled(q) /\ ~run.stale
  BY <1>2, OwnRun DEF TidyInOrder
<1>4. /\ ~Exists(q)' /\ ~Live(q)' /\ ~Settled(q)' /\ AtRest(q)'
      /\ runtimes'[q].spec = NoSpec
  BY DEF NoRuntime, Exists, Live, Settled, AtRest
<1>5. \A x \in Names \ {q} : /\ Live(x)' <=> Live(x)
                             /\ Exists(x)' <=> Exists(x)
                             /\ Settled(x)' <=> Settled(x)
                             /\ AtRest(x)' <=> AtRest(x)
  BY DEF Exists, Live, Settled, AtRest
<1>6. WorldIsTidy
  BY WorldParts
<1>7. /\ NewIsTidy /\ run.new.account = NoAccount /\ OldIsLeft /\ NoUse(usage)
  <2>1. NewIsTidy /\ run.new.account = NoAccount
    BY <1>2 DEF TidyInOrder, AccountsAreTidy, DeletionIsTidy
  <2> QED BY <1>2, <2>1 DEF NewIsTidy
<1>8. SettledIsComplete'
  <2>1. \A x \in Names \ {q} : Settled(x)' => Complete(runtimes'[x].cache, runtimes'[x].spec)
    BY <1>5, <1>6 DEF WorldIsTidy, SettledIsComplete
  <2> QED BY <1>4, <2>1 DEF SettledIsComplete, Complete
<1>9. ChangesAreAlone'
  BY <1>4, <1>5, <1>6 DEF WorldIsTidy, ChangesAreAlone
<1>10. SpacesAreClaimed'
  <2> SUFFICES ASSUME NEW s \in Spaces, Operable(s)
               PROVE  s \in left \/ \E r \in Names : ClaimsSpace(r, s)'
    BY <1>1 DEF SpacesAreClaimed, Operable
  <2>1. ASSUME NEW r \in Names \ {q}, ClaimsSpace(r, s) PROVE ClaimsSpace(r, s)'
    BY <1>5, <2>1 DEF ClaimsSpace
  <2>2. ASSUME ClaimsSpace(q, s) PROVE FALSE
    <3>1. run.old.space = s /\ s # NoSpace
      BY <1>3, <2>2, SpecsAssumption DEF ClaimsSpace
    <3>2. ~Operable(run.old.space)
      BY <1>2, <3>1 DEF TidyInOrder, SpacesAreTidy
    <3> QED BY <3>1, <3>2
  <2> QED BY <1>6, <2>1, <2>2 DEF WorldIsTidy, SpacesAreClaimed
<1>11. ProductIsClaimed'
  <2>1. /\ \A r \in run.usage.runtimes : Exists(r) /\ r # q
        /\ q \notin usage.runtimes
        /\ run.usage.runtimes = {} => ~Operable(Product) /\ project = "none"
    BY <1>2 DEF TidyInOrder, ProductIsTidy, At
  <2>2. \A r \in usage.runtimes : r \in Names \ {q} /\ Exists(r)
    BY <1>6, <2>1 DEF WorldIsTidy, ProductIsClaimed, Inv, RestTyped, ClusterTypeOK, Usage
  <2>3. \A r \in run.usage.runtimes : r \in Names \ {q} /\ Exists(r)
    BY <2>1, RunFacts DEF Usage
  <2> QED BY <1>1, <1>5, <2>1, <2>2, <2>3 DEF ProductIsClaimed, Operable
<1>12. AppsAreClaimed'
  <2> SUFFICES ASSUME NEW r \in Names, apps[r] # {}
               PROVE  r \in abandoned' \/ runtimes'[r].spec.app
                      \/ (Exists(r)' /\ runtimes'[r].cache.app /\ ~Settled(r)')
    BY <1>1 DEF AppsAreClaimed
  <2>1. r \in abandoned \/ runtimes[r].spec.app \/ (Exists(r) /\ runtimes[r].cache.app /\ ~Settled(r))
    BY <1>6 DEF WorldIsTidy, AppsAreClaimed
  <2>2. CASE r # q
    BY <1>5, <2>1, <2>2
  <2>3. CASE r = q
    <3>1. run.spec.app \/ q \in abandoned
      BY <1>2, <1>3, <2>3 DEF TidyInOrder, AppsAreTidy
    <3> QED BY <2>3, <3>1
  <2> QED BY <2>2, <2>3
<1>13. ReposExist'
  <2>1. NoSpec.tokens = {}
    BY DEF NoSpec
  <2>2. \A r \in Names : gitlab[r].repos \cup runtimes'[r].spec.tokens \subseteq codeRepos
    BY <1>4, <1>6, <2>1 DEF WorldIsTidy, ReposExist
  <2> QED BY <1>1, <1>6, <2>2 DEF WorldIsTidy, ReposExist
<1>14. HooksAreClaimed'
  <2> SUFFICES ASSUME NEW s \in Spaces, hooks[s] # NoRepo
               PROVE  (s \in left /\ faults < MaxFaults) \/ \E r \in Names : ClaimsHook(r, s)'
    BY DEF HooksAreClaimed
  <2>1. ASSUME NEW r \in Names \ {q}, ClaimsHook(r, s) PROVE ClaimsHook(r, s)'
    BY <1>5, <2>1 DEF ClaimsHook
  <2>2. ASSUME ClaimsHook(q, s) PROVE FALSE
    <3>1. run.old.space = s /\ run.old.hook # NoRepo /\ s # NoSpace
      BY <1>3, <2>2, SpecsAssumption DEF ClaimsHook
    <3>2. HookIsGone
      BY <1>2 DEF TidyInOrder, HooksAreTidy
    <3> QED BY <1>2, <3>1, <3>2 DEF HookIsGone
  <2> QED BY <1>6, <2>1, <2>2 DEF WorldIsTidy, HooksAreClaimed
<1>15. /\ \A x \in Names \ {q} : \A a : /\ ClaimsAccount(x, a)' <=> ClaimsAccount(x, a)
                                        /\ \A p : ClaimsPerm(x, a, p)' <=> ClaimsPerm(x, a, p)
       /\ \A a : ClaimsAccount(q, a) => a = run.old.account
       /\ \A a, p : ClaimsPerm(q, a, p) => a = run.old.account /\ p \in run.old.perms
       /\ \A x \in Others : x \in Names \ {q}
  BY <1>3, <1>5 DEF ClaimsAccount, ClaimsPerm, Others
<1>16. AccountsAreClaimed'
  <2>1. ASSUME NEW a \in Accounts, HasAccount(a) \/ roles[a].exists PROVE \E r \in Names : ClaimsAccount(r, a)'
    <3>1. PICK r \in Names : ClaimsAccount(r, a)
      BY <1>6, <2>1 DEF WorldIsTidy, AccountsAreClaimed
    <3>2. CASE r = q
      <4>1. \E x \in Others : ClaimsAccount(x, a)
        BY <1>2, <1>7, <1>15, <2>1, <3>1, <3>2 DEF OldIsLeft, AccountIsLeft
      <4> QED BY <1>15, <4>1
    <3> QED BY <1>15, <3>1, <3>2
  <2>2. ASSUME NEW a \in Accounts, NEW p \in roles[a].perms PROVE \E r \in Names : ClaimsPerm(r, a, p)'
    <3>1. PICK r \in Names : ClaimsPerm(r, a, p)
      BY <1>6, <2>2 DEF WorldIsTidy, AccountsAreClaimed
    <3>2. CASE r = q
      <4>1. PermIsLeft(p) /\ a = run.old.account
        BY <1>7, <1>15, <3>1, <3>2 DEF OldIsLeft
      <4>2. \E x \in Others : ClaimsPerm(x, a, p)
        BY <1>2, <2>2, <4>1 DEF PermIsLeft
      <4> QED BY <1>15, <4>2
    <3> QED BY <1>15, <3>1, <3>2
  <2>3. \A a \in Accounts : HasAccount(a)' <=> HasAccount(a)
    BY <1>1 DEF HasAccount, Operable
  <2> QED BY <1>1, <1>6, <2>1, <2>2, <2>3 DEF WorldIsTidy, AccountsAreClaimed
<1>17. Claimed(usage)'
  <2> SUFFICES ASSUME NEW x \in usage.account
               PROVE  /\ ClaimsAccount(x.runtime, x.account)'
                      /\ Lost(x.runtime)' \/ \A p \in x.perms : ClaimsPerm(x.runtime, x.account, p)'
    BY <1>1 DEF Claimed
  <2>1. x.runtime \in Names \ {q}
    BY <1>7 DEF NoUse, Inv, RestTyped, ClusterTypeOK, Usage, AccountUse
  <2>2. Lost(x.runtime) => Lost(x.runtime)'
    BY <1>4, <1>5 DEF Lost
  <2> QED BY <1>6, <1>15, <2>1, <2>2 DEF WorldIsTidy, Claimed
<1> QED BY <1>8, <1>9, <1>10, <1>11, <1>12, <1>13, <1>14, <1>16, <1>17 DEF WorldIsTidy

LEMMA RemoveFinalizerTidy ==
  ASSUME Inv, EventsInOrder, TidyInOrder, RemoveFinalizer
  PROVE  TidyInOrder'
<1>1. /\ run.pc = "removeFinalizer" /\ run.pc # "idle" /\ run' = Idle
      /\ run.pc \notin Unlistening
      /\ UNCHANGED <<clusterVars, listenerVars, hooks, codeRepos, late, left, calm, edits, recorded>>
  BY DEF RemoveFinalizer, At, Unlistening
<1>2. CASE UNCHANGED <<runtimes, abandoned>> /\ Fault
  BY <1>1, <1>2, IdleTidy DEF objectVars, history
<1>3. CASE /\ runtimes' = [runtimes EXCEPT ![Me] = NoRuntime]
           /\ abandoned' = IF run.spec.app THEN abandoned \cup {Me} ELSE abandoned
           /\ UNCHANGED faults
  <2>1. PICK q \in Names : q = run.rt
    BY <1>1, RunFacts
  <2>2. runtimes \in [Names -> Runtime]
    BY <1>1, RunFacts
  <2>3. /\ runtimes'[q] = NoRuntime
        /\ \A x \in Names \ {q} : runtimes'[x] = runtimes[x]
        /\ abandoned' = IF run.spec.app THEN abandoned \cup {q} ELSE abandoned
    BY <1>3, <2>1, <2>2 DEF Me
  <2>4. WorldIsTidy'
    BY <1>1, <1>3, <2>1, <2>3, RemovedWorld
  <2>5. run'.rt \notin Names /\ run'.pc = "idle" /\ run'.op = "none"
    BY <1>1, IdleFacts
  <2>6. CalendarsAreThere'
    <3>1. ~(Deploying' /\ run'.pc \in Unlistening)
      BY <2>5 DEF Deploying
    <3> QED BY <1>1, <1>3, <3>1, CalendarsKeep DEF TidyInOrder, listenerVars
  <2> QED BY <2>4, <2>5, <2>6, IdleIsTidy
<1> QED BY <1>2, <1>3 DEF RemoveFinalizer

-----------------------------------------------------------------------------
(* The invariant holds, and nothing is left behind.                         *)

LEMMA ProceedTidy ==
  ASSUME Inv, EventsInOrder, TidyInOrder, NewIsSound, calm', Proceed
  PROVE  TidyInOrder'
<1>1. CASE \E p \in Repos : RevokeOld(p) \/ Grant(p) \/ Revoke(p) \/ ListenTo(p) \/ ForgetRepo(p)
  BY <1>1, RevokeOldTidy, GrantTidy, RevokeTidy, ListenToTidy, ForgetRepoTidy
<1>2. CASE AddFinalizer \/ Validate \/ GetUsage \/ SaveUsage \/ SaveStatus \/ RemoveFinalizer
  BY <1>2, AddFinalizerTidy, ValidateTidy, GetUsageTidy, SaveUsageTidy, SaveStatusTidy, RemoveFinalizerTidy
<1>3. CASE \/ CreateProduct \/ CreateProject \/ AddProductUser
           \/ OldRevoked \/ DropUser \/ DeleteProductRole \/ DeleteProductAccount
  BY <1>3, CreateProductTidy, CreateProjectTidy, AddProductUserTidy, OldRevokedTidy, DropUserTidy,
     DeleteProductRoleTidy, DeleteProductAccountTidy
<1>4. CASE \/ CreateSpace \/ CreateProductAccount \/ AddUser \/ CreateAccountRole
           \/ Granted \/ PermissionsSynced
  BY <1>4, CreateSpaceTidy, CreateProductAccountTidy, AddUserTidy, CreateAccountRoleTidy, GrantedTidy,
     PermissionsSyncedTidy
<1>5. CASE \/ ListensToAll \/ ReposForgotten \/ CreateEntryPoint \/ CreateGitlab \/ CreateCalendar
           \/ UnlistenGitlab \/ DeleteEntryPoint \/ DeleteGitlab \/ DeleteCalendar \/ RecordKinds
  BY <1>5, ListensToAllTidy, ReposForgottenTidy, CreateEntryPointTidy, CreateGitlabTidy, CreateCalendarTidy,
     UnlistenGitlabTidy, DeleteEntryPointTidy, DeleteGitlabTidy, DeleteCalendarTidy, RecordKindsTidy
<1>6. CASE \/ CreateHook \/ RemoveHook \/ CreateSensorsOf \/ SensorsSynced \/ DeleteAllSensors
           \/ \E i \in 0..MaxTriggers - 1 : DeleteSurplus(i)
  BY <1>6, CreateHookTidy, RemoveHookTidy, CreateSensorsTidy, SensorsSyncedTidy, DeleteSensorsTidy,
     DeleteSurplusTidy
<1>7. CASE SyncApp \/ DeleteSpace \/ DeleteProductUser \/ DeleteProduct \/ DeleteProject
  BY <1>7, SyncAppTidy, DeleteSpaceTidy, DeleteProductUserTidy, DeleteProductTidy, DeleteProjectTidy
<1> QED BY <1>1, <1>2, <1>3, <1>4, <1>5, <1>6, <1>7 DEF Proceed

LEMMA StutterTidy ==
  ASSUME TidyInOrder, UNCHANGED vars
  PROVE  TidyInOrder'
<1> USE DEF vars, clusterVars, listenerVars, objectVars, history
<1>1. /\ UNCHANGED <<ns, users, accounts, project, apps, roles, usage>>
      /\ UNCHANGED <<listener, tokens, entry, gitlab, calendar, sensors, cached, hooks>>
      /\ UNCHANGED <<codeRepos, runtimes, late, left, run, recorded, abandoned, faults>>
  OBVIOUS
<1>2. \A r : /\ Live(r)' <=> Live(r)
             /\ Exists(r)' <=> Exists(r)
             /\ Settled(r)' <=> Settled(r)
             /\ AtRest(r)' <=> AtRest(r)
             /\ Lost(r)' <=> Lost(r)
             /\ \A s : (ClaimsSpace(r, s)' <=> ClaimsSpace(r, s)) /\ (ClaimsHook(r, s)' <=> ClaimsHook(r, s))
             /\ \A a : /\ ClaimsAccount(r, a)' <=> ClaimsAccount(r, a)
                       /\ \A p : ClaimsPerm(r, a, p)' <=> ClaimsPerm(r, a, p)
  BY <1>1 DEF Live, Exists, Settled, AtRest, Lost, ClaimsSpace, ClaimsHook, ClaimsAccount, ClaimsPerm
<1>3. /\ Deploying' <=> Deploying
      /\ Deleting' <=> Deleting
      /\ Copied' <=> Copied
      /\ \A pc : At(pc)' <=> At(pc)
      /\ \A s : Operable(s)' <=> Operable(s)
      /\ \A a : HasAccount(a)' <=> HasAccount(a)
  BY <1>1 DEF Deploying, Deleting, Copied, At, Operable, HasAccount
<1>4. ObjectsAreTidy'
  BY <1>1, <1>2, <1>3 DEF TidyInOrder, ObjectsAreTidy, SettledIsComplete, ChangesAreAlone, StaleIsComplete,
     NewIsMade, Complete
<1>5. SpacesAreTidy' /\ ProductIsTidy'
  BY <1>1, <1>2, <1>3 DEF TidyInOrder, SpacesAreTidy, ProductIsTidy
<1>6. AppsAreTidy'
  BY <1>1, <1>2, <1>3 DEF TidyInOrder, AppsAreTidy, AppSynced
<1>7. SourcesAreThere'
  BY <1>1, <1>3 DEF TidyInOrder, SourcesAreThere, ReposAreThere, CalendarsAreThere
<1>8. HooksAreTidy'
  BY <1>1, <1>2, <1>3 DEF TidyInOrder, HooksAreTidy, HookIsGone, HookRemoved
<1>9. AccountsAreTidy'
  <2>1. /\ AccountIsLeft' <=> AccountIsLeft
        /\ OldIsLeft' <=> OldIsLeft
        /\ TodoIsLeft' <=> TodoIsLeft
    BY <1>1, <1>2, <1>3 DEF AccountIsLeft, PermIsLeft, OldIsLeft, TodoIsLeft, Others
  <2>2. /\ Claimed(usage)' <=> Claimed(usage)
        /\ Claimed(run.usage)' <=> Claimed(run.usage)
    BY <1>1, <1>2 DEF Claimed
  <2>3. /\ RecordIsExact' <=> RecordIsExact
        /\ AccountIsExact(Record)' <=> AccountIsExact(Record)
        /\ AccountIsExact(usage)' <=> AccountIsExact(usage)
        /\ AccountIsExact(run.usage)' <=> AccountIsExact(run.usage)
        /\ NoUse(Record)' <=> NoUse(Record)
    BY <1>1, <1>3 DEF RecordIsExact, Record, AccountIsExact, PermsAreExact, NoUse
  <2>4. AccountsAreClaimed' /\ UsageIsClaimed'
    BY <1>1, <1>2, <1>3, <2>2 DEF TidyInOrder, AccountsAreTidy, AccountsAreClaimed, UsageIsClaimed
  <2>5. NewIsTidy' /\ StaleIsExact'
    BY <1>1, <1>3, <2>1, <2>3 DEF TidyInOrder, AccountsAreTidy, NewIsTidy, StaleIsExact
  <2>6. DeploymentIsTidy' /\ DeletionIsTidy'
    BY <1>1, <1>3, <2>1, <2>3 DEF TidyInOrder, AccountsAreTidy, DeploymentIsTidy, DeletionIsTidy
  <2> QED BY <2>4, <2>5, <2>6 DEF AccountsAreTidy
<1> QED BY <1>4, <1>5, <1>6, <1>7, <1>8, <1>9 DEF TidyInOrder

LEMMA StepKeepsTidy == Inv /\ EventsInv /\ NewIsSound /\ TidyInv /\ [Next]_vars => TidyInv'
<1> SUFFICES ASSUME Inv, EventsInv, NewIsSound, TidyInv, [Next]_vars, calm' PROVE TidyInOrder'
  BY DEF TidyInv
<1>1. CASE User
  <2>1. calm
    BY <1>1 DEF User, Apply, Admit, WriteLate, DeleteRuntime, DeleteCodeRepo, Edited
  <2> QED BY <1>1, <2>1, UserTidy DEF EventsInv, TidyInv
<1>2. CASE ~User
  <2>1. EventsInOrder /\ TidyInOrder
    BY <1>2, CalmWasCalm DEF EventsInv, TidyInv
  <2>2. CASE Proceed
    BY <2>1, <2>2, ProceedTidy
  <2>3. CASE \E r \in Names : Reconcile(r)
    BY <2>1, <2>3, ReconcileTidy
  <2>4. CASE CallFails \/ Crash
    BY <2>1, <2>4, CallFailsTidy, CrashTidy
  <2>5. CASE \E s \in Spaces \cup {Product} : Gone(s)
    BY <2>1, <2>5, GoneTidy
  <2>6. CASE UNCHANGED vars
    BY <2>1, <2>6, StutterTidy
  <2> QED BY <1>2, <2>2, <2>3, <2>4, <2>5, <2>6 DEF Next
<1> QED BY <1>1, <1>2

LEMMA InitTidy == Init => NewIsSound /\ TidyInv
<1> SUFFICES ASSUME Init PROVE NewIsSound /\ TidyInOrder
  BY DEF TidyInv
<1>1. /\ run = Idle /\ run.rt \notin Names /\ run.pc = "idle" /\ run.op = "none"
      /\ run.new = run.old
      /\ ~Deploying /\ ~Deleting /\ ~Copied /\ ~At("removeFinalizer")
  BY IdleFacts DEF Init, Idle, Deploying, Deleting, Copied, At
<1>2. NewIsSound
  BY <1>1 DEF NewIsSound
<1>3. \A r \in Names : /\ runtimes[r] = NoRuntime /\ ~Exists(r) /\ ~Live(r) /\ ~Settled(r) /\ AtRest(r)
                       /\ runtimes[r].spec.tokens = {} /\ runtimes[r].phase # "deleting"
  BY DEF Init, NoRuntime, NoSpec, Exists, Live, Settled, AtRest
<1>4. /\ \A s \in Spaces \cup {Product} : ~Operable(s)
      /\ accounts = {} /\ project = "none" /\ usage.runtimes = {} /\ usage.account = {}
      /\ \A r \in Names : apps[r] = {}
      /\ \A a \in Accounts : ~HasAccount(a) /\ ~roles[a].exists /\ roles[a].perms = {}
      /\ \A r \in Names : gitlab[r].repos = {} /\ cached[r] = {}
      /\ \A s \in Spaces : hooks[s] = NoRepo
      /\ late = NoRequest
  BY DEF Init, ClusterInit, ListenerInit, NoRole, NoSource, EmptyUsage, Operable, HasAccount
<1>5. ObjectsAreTidy
  BY <1>1, <1>3 DEF ObjectsAreTidy, SettledIsComplete, ChangesAreAlone, StaleIsComplete, NewIsMade
<1>6. SpacesAreTidy
  BY <1>1, <1>4 DEF SpacesAreTidy
<1>7. ProductIsTidy
  BY <1>1, <1>4 DEF ProductIsTidy
<1>8. AppsAreTidy
  BY <1>1, <1>4 DEF AppsAreTidy
<1>9. SourcesAreThere
  BY <1>1, <1>3, <1>4 DEF SourcesAreThere, ReposAreThere, CalendarsAreThere
<1>10. HooksAreTidy
  BY <1>1, <1>4 DEF HooksAreTidy
<1>11. AccountsAreTidy
  BY <1>1, <1>4 DEF AccountsAreTidy, AccountsAreClaimed, UsageIsClaimed, Claimed, NewIsTidy, DeploymentIsTidy,
     DeletionIsTidy, StaleIsExact
<1> QED BY <1>2, <1>5, <1>6, <1>7, <1>8, <1>9, <1>10, <1>11 DEF TidyInOrder

\* When all is quiet, what an object claims by its cache it claims by its spec.
LEMMA QuietClaims ==
  ASSUME TidyInOrder, Quiet, NEW r \in Names
  PROVE  /\ Exists(r) => Live(r) /\ r \in LiveOnes /\ Settled(r)
         /\ \A s : ClaimsSpace(r, s) => r \in LiveOnes /\ runtimes[r].spec.space = s
         /\ \A s \in Spaces : ClaimsHook(r, s) =>
              r \in LiveOnes /\ runtimes[r].spec.space = s /\ hooks[s] = HookOf(runtimes[r].spec)
         /\ \A a : ClaimsAccount(r, a) => r \in LiveOnes /\ runtimes[r].spec.account = a
         /\ \A a, p : ClaimsPerm(r, a, p) =>
              r \in LiveOnes /\ runtimes[r].spec.account = a /\ p \in Perms(runtimes[r].spec)
<1>1. ~Exists(r) \/ Settled(r)
  BY DEF Quiet, Exists
<1>2. Settled(r) => Live(r) /\ r \in LiveOnes /\ runtimes[r].phase # "deleting"
  BY DEF Settled, Live, LiveOnes
<1>3. Live(r) => Exists(r)
  BY DEF Live, Exists
<1>4. runtimes[r].phase = "deleting" => Exists(r)
  BY DEF Exists
<1>5. Settled(r) => LET cache == runtimes[r].cache
                        spec == runtimes[r].spec
                    IN  /\ cache.account = spec.account /\ cache.space = spec.space
                        /\ cache.perms = Perms(spec) /\ cache.hook = HookOf(spec)
  BY DEF TidyInOrder, ObjectsAreTidy, SettledIsComplete, Complete
<1> QED BY <1>1, <1>2, <1>3, <1>4, <1>5 DEF ClaimsSpace, ClaimsHook, ClaimsAccount, ClaimsPerm

LEMMA TidyLeavesNothing == TidyInv => NothingLeftBehind
<1> SUFFICES ASSUME TidyInOrder, Quiet
             PROVE  /\ \A s \in Spaces : Operable(s) => s \in left \/ \E r \in LiveOnes : runtimes[r].spec.space = s
                    /\ \A a \in Accounts : HasAccount(a) \/ roles[a].exists
                                            => \E r \in LiveOnes : runtimes[r].spec.account = a
                    /\ \A a \in Accounts : \A p \in roles[a].perms :
                          \E r \in LiveOnes : runtimes[r].spec.account = a /\ p \in Perms(runtimes[r].spec)
                    /\ Operable(Product) \/ project # "none" => LiveOnes # {}
                    /\ \A r \in Names : apps[r] # {} => runtimes[r].spec.app \/ r \in abandoned
                    /\ \A s \in Spaces : hooks[s] # NoRepo =>
                          \/ \E r \in LiveOnes : runtimes[r].spec.space = s /\ hooks[s] = HookOf(runtimes[r].spec)
                          \/ s \in left /\ faults < MaxFaults
  BY DEF NothingLeftBehind, TidyInv
<1>1. WorldIsTidy
  BY WorldParts
<1>2. \A s \in Spaces : Operable(s) => s \in left \/ \E r \in LiveOnes : runtimes[r].spec.space = s
  BY <1>1, QuietClaims DEF WorldIsTidy, SpacesAreClaimed
<1>3. \A a \in Accounts : HasAccount(a) \/ roles[a].exists => \E r \in LiveOnes : runtimes[r].spec.account = a
  BY <1>1, QuietClaims DEF WorldIsTidy, AccountsAreClaimed
<1>4. \A a \in Accounts : \A p \in roles[a].perms :
        \E r \in LiveOnes : runtimes[r].spec.account = a /\ p \in Perms(runtimes[r].spec)
  BY <1>1, QuietClaims DEF WorldIsTidy, AccountsAreClaimed
<1>5. Operable(Product) \/ project # "none" => LiveOnes # {}
  BY <1>1, QuietClaims DEF WorldIsTidy, ProductIsClaimed
<1>6. \A r \in Names : apps[r] # {} => runtimes[r].spec.app \/ r \in abandoned
  BY <1>1, QuietClaims DEF WorldIsTidy, AppsAreClaimed
<1>7. \A s \in Spaces : hooks[s] # NoRepo =>
        \/ \E r \in LiveOnes : runtimes[r].spec.space = s /\ hooks[s] = HookOf(runtimes[r].spec)
        \/ s \in left /\ faults < MaxFaults
  BY <1>1, QuietClaims DEF WorldIsTidy, HooksAreClaimed
<1> QED BY <1>2, <1>3, <1>4, <1>5, <1>6, <1>7

\* With users who wait, what the deployed runtimes do not ask for is gone, but
\* for what the property excepts: for any runtimes, spaces, accounts and
\* repositories, any number of edits, late requests, failures and crashes.
THEOREM DeletionsAreComplete == Spec => []NothingLeftBehind
<1>1. Init => Inv /\ EventsInv /\ NewIsSound /\ TidyInv
  BY InitInv, InitEvents, InitTidy
<1>2. Inv /\ EventsInv /\ NewIsSound /\ TidyInv /\ [Next]_vars
        => Inv' /\ EventsInv' /\ NewIsSound' /\ TidyInv'
  BY StepKeepsInv, StepKeepsEvents, NewStaysSound, StepKeepsTidy
<1> QED BY <1>1, <1>2, TidyLeavesNothing, PTL DEF Spec

=============================================================================
