-------------------------- MODULE ClusterOperator --------------------------
(***************************************************************************)
(* Registering, changing and deleting clusters.  The API server saves the  *)
(* kubeconfig of a physical cluster in the secret store and pushes the     *)
(* cluster to git; Argo CD (external) applies git to the Kubernetes API,   *)
(* where the webhook admits it; the cluster operator's controller, one     *)
(* reconcile at a time, brings the secret store in line: the kubeconfig,   *)
(* the auth mount with its role, and the Runtime operator's permission.    *)
(*                                                                         *)
(* A reconcile is the sequence of calls its plan prescribes; between two   *)
(* calls users, Argo CD and failures may step in.  The history in the      *)
(* status (LastSuccessSpec) is written by the last call of a sync only.    *)
(***************************************************************************)
EXTENDS Naturals, Sequences, FiniteSets

CONSTANTS Clusters,   \* names of clusters
          Specs,      \* the specs users write for each cluster
          MaxEdits,   \* bound of the model: requests to the API server
          MaxFaults   \* bound of the model: failed calls and crashes

NoCluster == "no cluster"
NoSpec == [type |-> "no type", usage |-> "no usage", host |-> NoCluster]
Spec_ == [type : {"physical", "virtual"}, usage : {"host", "worker"},
          host : Clusters \cup {NoCluster}]

\* staticCheck of the webhook; the worker type is left out.
StaticCheck(s) ==
  /\ s.usage = "host" => s.type = "physical"
  /\ s.type = "physical" <=> s.host = NoCluster

ASSUME ClustersAssumption ==
  /\ NoCluster \notin Clusters
  /\ Specs \in [Clusters -> SUBSET {s \in Spec_ : StaticCheck(s)}]
  /\ \A c \in Clusters : \A s \in Specs[c] : s.host # c
  /\ MaxEdits \in Nat
  /\ MaxFaults \in Nat

VARIABLES
  saving,    \* API server: the spec of a registration between its two steps
  git,       \* the tenant repository: the spec of each cluster
  objects,   \* the Cluster objects of the Kubernetes API
  secret,    \* secret store: the kubeconfig under the path of each cluster
  auth,      \* secret store: the auth mount of each cluster
  access,    \* secret store: clusters whose kubeconfig the Runtime operator reads
  run,       \* the reconcile in progress
  hasty,     \* history: clusters that were changed before they had settled
  edits,     \* requests so far
  faults     \* faults left

store == <<secret, auth, access>>
users == <<saving, git, hasty, edits>>
vars == <<users, objects, store, run, faults>>

Kubeconfigs == {"none", "user", "vcluster"}

\* config: the kubeconfig the mount was made from; parts: the operators' roles,
\* and the tenant repository's secret granted to the Argo operator's role.
NoAuth == [config |-> "none", parts |-> {}]
Auth == [config : Kubeconfigs, parts : SUBSET {"role", "tenant"}]

\* last: the history in the status.
NoObject == [phase |-> "none", finalizer |-> FALSE, spec |-> NoSpec, last |-> NoSpec]
Object == [phase : {"none", "live", "deleting"}, finalizer : BOOLEAN,
           spec : Spec_ \cup {NoSpec}, last : Spec_ \cup {NoSpec}]

Calls == {"createSecret", "deleteSecret", "checkSecret", "createAuth", "createRole",
          "grantTenant", "grantCluster", "disableAuth", "revokeCluster",
          "saveStatus", "removeFinalizer"}
\* What is left of the reconcile, with the spec and the history it has read.
NoRun == [cluster |-> NoCluster, op |-> "idle", spec |-> NoSpec, last |-> NoSpec, calls |-> <<>>]
Run == [cluster : Clusters \cup {NoCluster}, op : {"idle", "sync", "clean", "delete"},
        spec : Spec_ \cup {NoSpec}, last : Spec_ \cup {NoSpec}, calls : Seq(Calls)]

TypeOK ==
  /\ saving \in [Clusters -> Spec_ \cup {NoSpec}]
  /\ git \in [Clusters -> Spec_ \cup {NoSpec}]
  /\ objects \in [Clusters -> Object]
  /\ secret \in [Clusters -> Kubeconfigs]
  /\ auth \in [Clusters -> Auth]
  /\ access \in SUBSET Clusters
  /\ run \in Run
  /\ hasty \in SUBSET Clusters
  /\ edits \in 0..MaxEdits
  /\ faults \in 0..MaxFaults
  /\ run.calls = <<>> <=> run = NoRun
  /\ \A c \in Clusters :
       /\ ~objects[c].finalizer => objects[c].phase # "deleting"
       /\ objects[c].phase = "none" => objects[c] = NoObject

Init ==
  /\ saving = [c \in Clusters |-> NoSpec]
  /\ git = [c \in Clusters |-> NoSpec]
  /\ objects = [c \in Clusters |-> NoObject]
  /\ secret = [c \in Clusters |-> "none"]
  /\ auth = [c \in Clusters |-> NoAuth]
  /\ access = {}
  /\ run = NoRun
  /\ hasty = {}
  /\ edits = 0
  /\ faults = MaxFaults

-----------------------------------------------------------------------------
(* What the parts read of each other. *)

Live(c) == objects[c].phase = "live"
Exists(c) == objects[c].phase # "none"

\* Mutant of Dependents: the wrong field is compared.
DependentsNone(c) == {}

\* The clusters whose spec names c as their host; runtimes are left out.
Dependents(c) == {d \in Clusters : Exists(d) /\ objects[d].spec.host = c}

\* ValidateCluster with an old cluster: what others depend on keeps its kind.
MayChange(c, old, new) == Dependents(c) # {} => new = old

\* The cluster is as its users asked, or is gone.
Settled(c) ==
  /\ saving[c] = NoSpec
  /\ IF git[c] = NoSpec THEN ~Exists(c)
     ELSE Live(c) /\ objects[c].spec = git[c] /\ objects[c].last = git[c]

Ask(c) ==
  /\ edits < MaxEdits
  /\ edits' = edits + 1
  /\ hasty' = IF Settled(c) THEN hasty ELSE hasty \cup {c}

-----------------------------------------------------------------------------
(* The API server. *)

\* First step of SaveCluster for a physical cluster: the kubeconfig.
SaveKubeconfig(c, s) ==
  /\ s.type = "physical"
  /\ saving[c] = NoSpec
  /\ Ask(c)
  /\ saving' = [saving EXCEPT ![c] = s]
  /\ secret' = [secret EXCEPT ![c] = "user"]
  /\ UNCHANGED <<git, objects, auth, access, run, faults>>

\* Second step: the cluster is rendered and pushed.
PushCluster(c) ==
  /\ saving[c] # NoSpec
  /\ git' = [git EXCEPT ![c] = saving[c]]
  /\ saving' = [saving EXCEPT ![c] = NoSpec]
  /\ UNCHANGED <<objects, store, run, hasty, edits, faults>>

\* SaveCluster of a virtual cluster: only the push, with its host in git.
PushVirtual(c, s) ==
  /\ s.type = "virtual"
  /\ saving[c] = NoSpec
  /\ git[c] # s
  /\ git[s.host] # NoSpec
  /\ Ask(c)
  /\ git' = [git EXCEPT ![c] = s]
  /\ UNCHANGED <<saving, objects, store, run, faults>>

\* The push failed and the user gives up; the kubeconfig stays.
GiveUp(c) ==
  /\ saving[c] # NoSpec
  /\ faults > 0
  /\ faults' = faults - 1
  /\ saving' = [saving EXCEPT ![c] = NoSpec]
  /\ hasty' = hasty \cup {c}
  /\ UNCHANGED <<git, objects, store, run, edits>>

\* DeleteCluster: a host that git still refers to stays.
RemoveCluster(c) ==
  /\ saving[c] = NoSpec
  /\ git[c] # NoSpec
  /\ git[c].usage = "host" => \A d \in Clusters : git[d].host # c
  /\ Ask(c)
  /\ git' = [git EXCEPT ![c] = NoSpec]
  /\ UNCHANGED <<saving, objects, store, run, faults>>

-----------------------------------------------------------------------------
(* Argo CD and the webhook. *)

CreateObject(c) ==
  /\ git[c] # NoSpec
  /\ ~Exists(c)
  /\ objects' = [objects EXCEPT ![c] = [phase |-> "live", finalizer |-> FALSE,
                                        spec |-> git[c], last |-> NoSpec]]
  /\ UNCHANGED <<users, store, run, faults>>

UpdateObject(c) ==
  /\ Live(c)
  /\ git[c] \notin {NoSpec, objects[c].spec}
  /\ MayChange(c, objects[c].spec, git[c])
  /\ objects' = [objects EXCEPT ![c].spec = git[c]]
  /\ UNCHANGED <<users, store, run, faults>>

\* Mutant of PruneObject: an object without a finalizer waits for the operator.
PruneObjectWaits(c) ==
  /\ Live(c) /\ git[c] = NoSpec /\ Dependents(c) = {}
  /\ objects' = [objects EXCEPT ![c].phase = "deleting"]
  /\ UNCHANGED <<users, store, run, faults>>

\* An object without a finalizer is gone at once.
PruneObject(c) ==
  /\ Live(c)
  /\ git[c] = NoSpec
  /\ Dependents(c) = {}
  /\ objects' = [objects EXCEPT ![c] = IF @.finalizer THEN [@ EXCEPT !.phase = "deleting"]
                                       ELSE NoObject]
  /\ UNCHANGED <<users, store, run, faults>>

-----------------------------------------------------------------------------
(* The plans of the controller. *)

\* SyncSecret: a virtual cluster's kubeconfig comes from its host; one that was
\* virtual loses it, has no secret version then, and its auth is not synced.
LeavesHost(s, last) == s.type = "physical" /\ last.type = "virtual"

SyncSecret(s, last) ==
  IF s.type = "virtual" THEN <<"createSecret", "checkSecret">>
  ELSE IF LeavesHost(s, last) THEN <<"deleteSecret">>
  ELSE <<"checkSecret">>

\* deleteAuth and deleteSecret do nothing without a cluster.
DeleteAuth(last) == IF last = NoSpec THEN <<>> ELSE <<"disableAuth", "revokeCluster">>
DeleteSecret(last) == IF last = NoSpec THEN <<>> ELSE <<"deleteSecret">>

\* Mutant of SyncAuth: a cluster that becomes a host keeps its auth.
SyncAuthWorkers(s, last) ==
  IF s.usage = "worker" THEN <<"createAuth", "createRole", "grantTenant", "grantCluster">>
  ELSE <<>>

SyncAuth(s, last) ==
  IF s.usage = "worker" THEN <<"createAuth", "createRole", "grantTenant", "grantCluster">>
  ELSE DeleteAuth(last)

SyncPlan(s, last) ==
  SyncSecret(s, last)
    \o (IF LeavesHost(s, last) THEN <<>> ELSE SyncAuth(s, last))
    \o <<"saveStatus">>

\* Mutant of DeletePlan: the finalizer goes first.
DeletePlanLate(last) ==
  IF last = NoSpec THEN <<"removeFinalizer">>
  ELSE <<"removeFinalizer", "deleteSecret", "disableAuth", "revokeCluster">>

DeletePlan(last) ==
  IF last = NoSpec THEN <<"removeFinalizer">>
  ELSE <<"deleteSecret", "disableAuth", "revokeCluster", "removeFinalizer">>

\* CleanCluster after a failed sync.  Its parameters are the new and the last
\* cluster, but Sync passes the last one first.
IsNewSecret(cluster, last) ==
  /\ cluster # NoSpec
  /\ last = NoSpec \/ (cluster.type = "virtual" /\ last.type # "virtual")
\* Mutant of IsNewAuth: any worker's auth counts as new.
IsNewAuthAlways(cluster, last) == cluster # NoSpec /\ cluster.usage = "worker"

IsNewAuth(cluster, last) ==
  /\ cluster # NoSpec
  /\ last = NoSpec \/ (cluster.usage = "worker" /\ last.usage # "worker")

CleanCluster(cluster, last) ==
  (IF IsNewSecret(cluster, last) THEN DeleteSecret(cluster) ELSE <<>>)
    \o (IF IsNewAuth(cluster, last) THEN DeleteAuth(cluster) ELSE <<>>)

CleanPlan(s, last) == CleanCluster(last, s)

-----------------------------------------------------------------------------
(* The controller. *)

Continue(r, op, calls) == IF calls = <<>> THEN NoRun ELSE [r EXCEPT !.op = op, !.calls = calls]

Start(c, op, calls) ==
  run' = [cluster |-> c, op |-> op, spec |-> objects[c].spec, last |-> objects[c].last,
          calls |-> calls]

\* The object is read, gets its finalizer and is validated against the history.
Reconcile(c) ==
  /\ run = NoRun
  /\ Live(c)
  /\ objects' = [objects EXCEPT ![c].finalizer = TRUE]
  /\ LET o == objects[c] IN
     IF o.last # NoSpec /\ ~MayChange(c, o.last, o.spec) THEN UNCHANGED run
     ELSE Start(c, "sync", SyncPlan(o.spec, o.last))
  /\ UNCHANGED <<users, store, faults>>

\* A deleted object is cleaned up by its history, unless others depend on it.
ReconcileDeleted(c) ==
  /\ run = NoRun
  /\ objects[c].phase = "deleting"
  /\ Dependents(c) = {}
  /\ Start(c, "delete", DeletePlan(objects[c].last))
  /\ UNCHANGED <<users, objects, store, faults>>

\* Mutant of Refused: deleting a kubeconfig that is not there is an error.
RefusedOnce(call) == call = "deleteSecret" /\ secret[run.cluster] = "none"

\* Errors of the calls that no fault causes.
Refused(call) ==
  LET c == run.cluster
      host == run.spec.host
  IN CASE call = "createSecret" -> ~Exists(host) \/ secret[host] = "none"
       [] call \in {"checkSecret", "createAuth"} -> secret[c] = "none"
       [] OTHER -> FALSE

\* What each call does to the secret store and to the object.
Effect(call) ==
  LET c == run.cluster IN
  /\ secret' = CASE call = "createSecret" -> [secret EXCEPT ![c] = "vcluster"]
                 [] call = "deleteSecret" -> [secret EXCEPT ![c] = "none"]
                 [] OTHER -> secret
  /\ auth' = CASE call = "createAuth" -> [auth EXCEPT ![c].config = secret[c]]
               [] call = "createRole" -> [auth EXCEPT ![c].parts = @ \cup {"role"}]
               [] call = "grantTenant" -> [auth EXCEPT ![c].parts = @ \cup {"tenant"}]
               [] call = "disableAuth" -> [auth EXCEPT ![c] = NoAuth]
               [] OTHER -> auth
  /\ access' = CASE call = "grantCluster" -> access \cup {c}
                 [] call = "revokeCluster" -> access \ {c}
                 [] OTHER -> access
  /\ objects' = CASE call = "saveStatus" -> [objects EXCEPT ![c].last = run.spec]
                  [] call = "removeFinalizer" -> [objects EXCEPT ![c] = NoObject]
                  [] OTHER -> objects

\* After an error a sync cleans up, the clean-up goes on, a deletion ends.
AfterError ==
  run' = IF run.op = "sync" /\ Head(run.calls) # "saveStatus"
           THEN Continue(run, "clean", CleanPlan(run.spec, run.last))
         ELSE IF run.op = "clean" THEN Continue(run, "clean", Tail(run.calls))
         ELSE NoRun

Call ==
  /\ run # NoRun
  /\ ~Refused(Head(run.calls))
  /\ Effect(Head(run.calls))
  /\ run' = Continue(run, run.op, Tail(run.calls))
  /\ UNCHANGED <<users, faults>>

CallRefused ==
  /\ run # NoRun
  /\ Refused(Head(run.calls))
  /\ AfterError
  /\ UNCHANGED <<users, objects, store, faults>>

\* The call fails, before or after it took effect.
CallFails ==
  /\ run # NoRun
  /\ faults > 0
  /\ faults' = faults - 1
  /\ \/ UNCHANGED <<store, objects>>
     \/ ~Refused(Head(run.calls)) /\ Effect(Head(run.calls))
  /\ AfterError
  /\ UNCHANGED users

Crash ==
  /\ run # NoRun
  /\ faults > 0
  /\ faults' = faults - 1
  /\ run' = NoRun
  /\ UNCHANGED <<users, objects, store>>

-----------------------------------------------------------------------------
Proceed == Call \/ CallRefused
Apply(c) == CreateObject(c) \/ UpdateObject(c) \/ PruneObject(c)
Observe(c) == Reconcile(c) \/ ReconcileDeleted(c)

Next ==
  \/ \E c \in Clusters :
       \/ \E s \in Specs[c] : SaveKubeconfig(c, s) \/ PushVirtual(c, s)
       \/ PushCluster(c) \/ GiveUp(c) \/ RemoveCluster(c)
       \/ Apply(c)
       \/ Observe(c)
  \/ Proceed \/ CallFails \/ Crash

\* The worker goes on; each object is requeued after its interval or a back-off;
\* Argo CD keeps applying what the webhook admits.
Fairness ==
  /\ WF_vars(Proceed)
  /\ \A c \in Clusters : SF_vars(Observe(c)) /\ WF_vars(Apply(c))

Spec == Init /\ [][Next]_vars /\ Fairness

-----------------------------------------------------------------------------
(* Properties. *)

Gone(c) == git[c] = NoSpec /\ saving[c] = NoSpec /\ ~Exists(c)
InSync(c) == Live(c) /\ objects[c].last = objects[c].spec
Reachable(c) ==
  /\ auth[c].config # "none" /\ auth[c].parts = {"role", "tenant"}
  /\ c \in access
Unreachable(c) == auth[c] = NoAuth /\ c \notin access

\* A cluster that is gone from git and from the Kubernetes API has left no
\* kubeconfig, auth mount or permission in the secret store, whatever failed or
\* crashed on the way, if each of its changes was asked for when the one before
\* was synced (otherwise see DeletionCleansUp).
NothingLeftBehind ==
  \A c \in Clusters \ hasty : Gone(c) => secret[c] = "none" /\ Unreachable(c)

\* A worker cluster whose definition has been synced can be used by the
\* operators: it has an auth mount with all its grants.  Neither a periodic sync
\* that fails half-way nor its clean-up takes them away.
WorkerStaysReachable ==
  \A c \in Clusters \ hasty :
    InSync(c) /\ objects[c].spec.usage = "worker" =>
      /\ Reachable(c)
      /\ objects[c].spec.type = "virtual" => secret[c] # "none"

\* A virtual cluster whose definition has been synced has its host, with a
\* kubeconfig: the webhook does not look for a host when a cluster is created or
\* changed, and a deletion looks for dependents before it begins its calls.
HostOutlivesGuests ==
  \A c \in Clusters \ hasty :
    InSync(c) /\ objects[c].spec.type = "virtual" =>
      LET host == objects[c].spec.host IN Exists(host) /\ secret[host] # "none"

\* What a sync needs: a change the dependents admit, and a kubeconfig.
Syncable(c) ==
  LET o == objects[c] IN
  /\ Live(c)
  /\ o.last = NoSpec \/ MayChange(c, o.last, o.spec)
  /\ IF o.spec.type = "physical" THEN secret[c] # "none"
     ELSE Exists(o.spec.host) /\ secret[o.spec.host] # "none"

\* The secret store is as the definition says.
AsDefined(c) ==
  LET s == objects[c].spec IN
  /\ InSync(c)
  /\ s.type = "virtual" => secret[c] = "vcluster"
  /\ s.usage = "worker" => Reachable(c) /\ auth[c].config = secret[c]
  /\ s.usage = "host" /\ c \notin hasty => Unreachable(c)

\* Retries and periodic syncs bring the secret store in line with the definition
\* of each cluster that can be synced, from whatever a failed sync, a crash, a
\* lost status or a kubeconfig saved meanwhile has left.
EventuallySynced == \A c \in Clusters : <>[]Syncable(c) => <>[]AsDefined(c)

\* A cluster that is being deleted goes away, unless another one depends on it.
EventuallyDeleted ==
  \A c \in Clusters :
    objects[c].phase = "deleting" ~> objects[c].phase # "deleting" \/ Dependents(c) # {}

\* app/cluster-operator/README.md:21: deleting a worker cluster deletes its auth
\* from the secret store and the Runtime operator's permission to its kubeconfig.
DeletionCleansUp == \A c \in Clusters : Gone(c) => Unreachable(c)

\* secret_client.go:24: Sync "should keep remote is the same as define"; a
\* cluster synced as a host has no auth and nobody reads its kubeconfig.
HostIsUnreachable ==
  \A c \in Clusters \ hasty : InSync(c) /\ objects[c].spec.usage = "host" => Unreachable(c)
=============================================================================
