----------------------- MODULE ClusterOperatorProofs -----------------------
(***************************************************************************)
(* Type correctness of ClusterOperator, NothingLeftBehind,                 *)
(* WorkerStaysReachable and HostOutlivesGuests, for any set of clusters,   *)
(* any specs, and any number of requests and faults.                       *)
(*                                                                         *)
(* The first invariant, IInv: a deletion cleans up by the history in the   *)
(* status. Who deletes a cluster that has settled deletes one that has a   *)
(* history (SettledHasHistory), so the deletion has all four calls; a      *)
(* cluster keeps its finalizer while it has a history, so it is not gone   *)
(* before the last of them; and each call keeps what the calls before it   *)
(* have removed (DeletionProgress), as there is one worker and nobody else *)
(* may register the cluster meanwhile without being hasty.                 *)
(*                                                                         *)
(* The second, JInv, on top of it: a reconcile that takes the auth or the  *)
(* kubeconfig of a cluster away changes its kind (RunIsOnCourse,           *)
(* CleanCalls), so what it found in the status is not what the definition  *)
(* says now (RunIsCurrent, ChangesSettle); the sync of a worker makes one  *)
(* part of its auth after the other before it writes the status            *)
(* (AuthProgress); and a cluster that is deleted or loses its kubeconfig   *)
(* had no dependents when the reconcile began, and the one worker has      *)
(* synced none since (GuestsAreUnsynced).                                  *)
(***************************************************************************)
EXTENDS ClusterOperator, SequenceTheorems, TLAPS

-----------------------------------------------------------------------------
(* Plans. *)

SyncCalls == Calls \ {"removeFinalizer"}

\* What may be left of a deletion.
FullDelete == <<"deleteSecret", "disableAuth", "revokeCluster", "removeFinalizer">>
DeleteTails == {FullDelete,
                <<"disableAuth", "revokeCluster", "removeFinalizer">>,
                <<"revokeCluster", "removeFinalizer">>,
                <<"removeFinalizer">>}

LEMMA Concat ==
  ASSUME NEW S, NEW a \in Seq(S), NEW b \in Seq(S)
  PROVE  /\ a \o b \in Seq(S)
         /\ b # <<>> => a \o b # <<>>
  BY SMT

LEMMA HeadTail ==
  ASSUME NEW S, NEW a \in Seq(S), a # <<>>
  PROVE  Head(a) \in S /\ Tail(a) \in Seq(S)
  BY SMT

LEMMA NoSpecIsNone == NoSpec \notin Spec_
  BY DEF NoSpec, Spec_

\* The parts of a plan never remove the finalizer.
LEMMA PlanParts ==
  ASSUME NEW s, NEW last
  PROVE  /\ SyncSecret(s, last) \in Seq(SyncCalls)
         /\ SyncAuth(s, last) \in Seq(SyncCalls)
         /\ DeleteAuth(s) \in Seq(SyncCalls)
         /\ DeleteSecret(s) \in Seq(SyncCalls)
<1>0. <<>> \in Seq(SyncCalls)
  BY SMT
<1>1. \A l : DeleteAuth(l) \in Seq(SyncCalls)
  <2>1. <<"disableAuth", "revokeCluster">> \in Seq(SyncCalls)
    BY DEF SyncCalls, Calls
  <2> QED BY <1>0, <2>1, Zenon DEF DeleteAuth
<1>2. \A l : DeleteSecret(l) \in Seq(SyncCalls)
  <2>1. <<"deleteSecret">> \in Seq(SyncCalls)
    BY DEF SyncCalls, Calls
  <2> QED BY <1>0, <2>1, Zenon DEF DeleteSecret
<1>3. SyncSecret(s, last) \in Seq(SyncCalls)
  <2>1. <<"createSecret", "checkSecret">> \in Seq(SyncCalls)
    BY DEF SyncCalls, Calls
  <2>2. <<"deleteSecret">> \in Seq(SyncCalls) /\ <<"checkSecret">> \in Seq(SyncCalls)
    BY DEF SyncCalls, Calls
  <2> QED BY <2>1, <2>2, Zenon DEF SyncSecret
<1>4. SyncAuth(s, last) \in Seq(SyncCalls)
  <2>1. <<"createAuth", "createRole", "grantTenant", "grantCluster">> \in Seq(SyncCalls)
    BY DEF SyncCalls, Calls
  <2> QED BY <1>1, <2>1, Zenon DEF SyncAuth
<1> QED BY <1>1, <1>2, <1>3, <1>4

\* A sync ends with the status, and never removes the finalizer.
LEMMA SyncPlanCalls ==
  ASSUME NEW s, NEW last
  PROVE  SyncPlan(s, last) \in Seq(SyncCalls) /\ SyncPlan(s, last) # <<>>
<1>1. <<"saveStatus">> \in Seq(SyncCalls) /\ <<"saveStatus">> # <<>>
  BY DEF SyncCalls, Calls
<1>2. (IF LeavesHost(s, last) THEN <<>> ELSE SyncAuth(s, last)) \in Seq(SyncCalls)
  <2>1. <<>> \in Seq(SyncCalls)
    BY SMT
  <2> QED BY <2>1, PlanParts
<1>3. SyncSecret(s, last) \o (IF LeavesHost(s, last) THEN <<>> ELSE SyncAuth(s, last))
        \in Seq(SyncCalls)
  BY <1>2, PlanParts, Concat
<1> QED BY <1>1, <1>3, Concat DEF SyncPlan

LEMMA CleanPlanCalls ==
  ASSUME NEW s, NEW last
  PROVE  CleanPlan(s, last) \in Seq(SyncCalls)
<1>1. <<>> \in Seq(SyncCalls)
  BY SMT
<1>2. (IF IsNewSecret(last, s) THEN DeleteSecret(last) ELSE <<>>) \in Seq(SyncCalls)
  BY <1>1, PlanParts
<1>3. (IF IsNewAuth(last, s) THEN DeleteAuth(last) ELSE <<>>) \in Seq(SyncCalls)
  BY <1>1, PlanParts
<1> QED BY <1>2, <1>3, Concat DEF CleanPlan, CleanCluster

LEMMA DeletePlanCalls ==
  ASSUME NEW last
  PROVE  /\ DeletePlan(last) \in DeleteTails
         /\ last # NoSpec => DeletePlan(last) = FullDelete
  BY DEF DeletePlan, DeleteTails, FullDelete

\* The calls of a deletion and what is left after each.
LEMMA DeleteTailCalls ==
  ASSUME NEW d \in DeleteTails
  PROVE  /\ d # <<>> /\ d \in Seq(Calls)
         /\ d = FullDelete => Head(d) = "deleteSecret"
         /\ Head(d) = "removeFinalizer" => Tail(d) = <<>>
         /\ Head(d) # "removeFinalizer" => Tail(d) \in DeleteTails
         /\ Head(d) = "deleteSecret" => Head(Tail(d)) = "disableAuth"
         /\ Head(d) = "disableAuth" => Head(Tail(d)) = "revokeCluster"
         /\ Head(d) = "revokeCluster" => Head(Tail(d)) = "removeFinalizer"
         /\ Head(d) \in {"deleteSecret", "disableAuth", "revokeCluster", "removeFinalizer"}
<1>1. CASE d = FullDelete
  BY <1>1 DEF DeleteTails, FullDelete, Calls
<1>2. CASE d = <<"disableAuth", "revokeCluster", "removeFinalizer">>
  BY <1>2 DEF DeleteTails, FullDelete, Calls
<1>3. CASE d = <<"revokeCluster", "removeFinalizer">>
  BY <1>3 DEF DeleteTails, FullDelete, Calls
<1>4. CASE d = <<"removeFinalizer">>
  BY <1>4 DEF DeleteTails, FullDelete, Calls
<1> QED BY <1>1, <1>2, <1>3, <1>4 DEF DeleteTails

-----------------------------------------------------------------------------
(* The inductive invariant. *)

Finalized(c) == Exists(c) /\ objects[c].finalizer

\* An object has a spec; it keeps its finalizer while it has a history.
HistoryIsFinalized ==
  \A c \in Clusters :
    /\ Exists(c) => objects[c].spec \in Spec_
    /\ objects[c].last # NoSpec => Finalized(c)

\* A reconcile works on an object it has put its finalizer on; a sync does not
\* remove it.
RunIsFinalized ==
  run # NoRun =>
    /\ run.cluster \in Clusters
    /\ Finalized(run.cluster)
    /\ run.spec \in Spec_
    /\ IF run.op = "delete"
         THEN objects[run.cluster].phase = "deleting" /\ run.calls \in DeleteTails
         ELSE run.op \in {"sync", "clean"} /\ run.calls \in Seq(SyncCalls)

\* A settled cluster that is taken out of git has a history.
SettledHasHistory ==
  \A c \in Clusters \ hasty :
    /\ Exists(c) /\ git[c] = NoSpec => objects[c].last # NoSpec /\ saving[c] = NoSpec
    /\ objects[c].phase = "deleting" => git[c] = NoSpec

\* What a deletion has removed so far.
DeletionProgress ==
  run # NoRun /\ run.op = "delete" /\ run.cluster \notin hasty =>
    LET c == run.cluster
        next == Head(run.calls)
    IN /\ next # "deleteSecret" => secret[c] = "none"
       /\ next \in {"revokeCluster", "removeFinalizer"} => auth[c] = NoAuth
       /\ next = "removeFinalizer" => c \notin access

IInv ==
  /\ TypeOK
  /\ HistoryIsFinalized
  /\ RunIsFinalized
  /\ SettledHasHistory
  /\ DeletionProgress
  /\ NothingLeftBehind

LEMMA InitIInv == Init => IInv
<1> SUFFICES ASSUME Init PROVE IInv
  OBVIOUS
<1> USE DEF Init
<1>1. TypeOK
  <2>1. <<>> \in Seq(Calls)
    BY SMT
  <2>2. run \in Run
    BY <2>1 DEF NoRun, Run
  <2>3. NoObject \in Object /\ NoAuth \in Auth
    BY DEF NoObject, Object, NoAuth, Auth, Kubeconfigs
  <2>4. objects \in [Clusters -> Object] /\ auth \in [Clusters -> Auth]
    BY <2>3
  <2>5. run.calls = <<>> /\ (\A c \in Clusters : objects[c].phase = "none")
    BY DEF NoRun, NoObject
  <2>6. hasty \in SUBSET Clusters /\ access \in SUBSET Clusters /\ secret \in [Clusters -> Kubeconfigs]
    BY DEF Kubeconfigs
  <2>7. edits \in 0..MaxEdits /\ faults \in 0..MaxFaults
    BY ClustersAssumption
  <2> QED BY <2>2, <2>4, <2>5, <2>6, <2>7 DEF TypeOK
<1>2. HistoryIsFinalized /\ SettledHasHistory
  BY DEF HistoryIsFinalized, SettledHasHistory, Exists, NoObject
<1>3. RunIsFinalized /\ DeletionProgress
  BY DEF RunIsFinalized, DeletionProgress
<1>4. NothingLeftBehind
  BY DEF NothingLeftBehind, Unreachable, NoAuth
<1> QED BY <1>1, <1>2, <1>3, <1>4 DEF IInv

-----------------------------------------------------------------------------
(* The API server. *)

\* A request about c leaves objects and runs alone; what it changes of c must
\* agree with them unless it is hasty.
LEMMA UserStep ==
  ASSUME IInv, TypeOK', NEW c \in Clusters,
         UNCHANGED <<objects, auth, access, run>>,
         hasty \subseteq hasty',
         \A d \in Clusters \ {c} :
           saving'[d] = saving[d] /\ git'[d] = git[d] /\ secret'[d] = secret[d],
         c \notin hasty' =>
           /\ Exists(c) /\ git'[c] = NoSpec => objects[c].last # NoSpec /\ saving'[c] = NoSpec
           /\ objects[c].phase = "deleting" => git'[c] = NoSpec /\ secret'[c] = secret[c]
           /\ git'[c] = NoSpec /\ saving'[c] = NoSpec /\ ~Exists(c) =>
                secret'[c] = "none" /\ Unreachable(c)
  PROVE  IInv'
<1> USE DEF IInv
<1>1. HistoryIsFinalized'
  BY DEF HistoryIsFinalized, Exists, Finalized
<1>2. RunIsFinalized'
  BY DEF RunIsFinalized, Exists, Finalized
<1>3. SettledHasHistory'
  BY DEF SettledHasHistory, Exists
<1>4. DeletionProgress'
  <2> SUFFICES ASSUME run # NoRun, run.op = "delete", run.cluster \notin hasty'
               PROVE  DeletionProgress'
    BY DEF DeletionProgress
  <2>1. run.cluster \in Clusters /\ objects[run.cluster].phase = "deleting"
    BY DEF RunIsFinalized
  <2>2. secret'[run.cluster] = secret[run.cluster]
    BY <2>1
  <2>3. run.cluster \notin hasty
    OBVIOUS
  <2> QED BY <2>2, <2>3 DEF DeletionProgress
<1>5. NothingLeftBehind'
  BY DEF NothingLeftBehind, Gone, Exists, Unreachable
<1> QED BY <1>1, <1>2, <1>3, <1>4, <1>5

LEMMA SaveKubeconfigIInv ==
  ASSUME IInv, NEW c \in Clusters, NEW s \in Specs[c], SaveKubeconfig(c, s)
  PROVE  IInv'
<1> USE DEF SaveKubeconfig, Ask
<1>1. s \in Spec_ /\ s # NoSpec
  BY ClustersAssumption, NoSpecIsNone
<1>2. TypeOK'
  BY <1>1, ClustersAssumption DEF IInv, TypeOK, Kubeconfigs
<1>3. saving'[c] # NoSpec
  BY <1>1 DEF IInv, TypeOK
<1>4. c \notin hasty' => Settled(c)
  OBVIOUS
<1>5. c \notin hasty' => (Exists(c) => git[c] # NoSpec) /\ objects[c].phase # "deleting"
  BY <1>4 DEF Settled, Live, Exists
<1> QED BY <1>2, <1>3, <1>5, UserStep DEF IInv, TypeOK

LEMMA PushClusterIInv ==
  ASSUME IInv, NEW c \in Clusters, PushCluster(c)
  PROVE  IInv'
<1> USE DEF PushCluster, IInv
<1>1. TypeOK'
  BY DEF TypeOK, store
<1>2. git'[c] # NoSpec
  BY DEF TypeOK
<1>3. c \notin hasty => objects[c].phase # "deleting"
  BY DEF SettledHasHistory, Exists
<1> QED BY <1>1, <1>2, <1>3, UserStep DEF TypeOK, store

LEMMA PushVirtualIInv ==
  ASSUME IInv, NEW c \in Clusters, NEW s \in Specs[c], PushVirtual(c, s)
  PROVE  IInv'
<1> USE DEF PushVirtual, Ask
<1>1. s \in Spec_ /\ s # NoSpec
  BY ClustersAssumption, NoSpecIsNone
<1>2. TypeOK'
  BY <1>1, ClustersAssumption DEF IInv, TypeOK, store
<1>3. git'[c] # NoSpec
  BY <1>1 DEF IInv, TypeOK
<1>4. c \notin hasty' => objects[c].phase # "deleting"
  BY DEF Settled, Live, Exists
<1> QED BY <1>2, <1>3, <1>4, UserStep DEF IInv, TypeOK, store

LEMMA GiveUpIInv ==
  ASSUME IInv, NEW c \in Clusters, GiveUp(c)
  PROVE  IInv'
<1> USE DEF GiveUp
<1>1. TypeOK'
  BY ClustersAssumption DEF IInv, TypeOK, store
<1>2. c \in hasty'
  OBVIOUS
<1> QED BY <1>1, <1>2, UserStep DEF IInv, TypeOK, store

LEMMA RemoveClusterIInv ==
  ASSUME IInv, NEW c \in Clusters, RemoveCluster(c)
  PROVE  IInv'
<1> USE DEF RemoveCluster, Ask
<1>1. TypeOK'
  BY ClustersAssumption DEF IInv, TypeOK, store
<1>2. c \notin hasty' => Live(c) /\ objects[c].last = git[c]
  BY DEF Settled
<1> QED BY <1>1, <1>2, UserStep DEF IInv, TypeOK, store, Live, Exists

-----------------------------------------------------------------------------
(* Argo CD and the webhook. *)

\* A change of the object of c alone.
LEMMA ObjectStep ==
  ASSUME IInv, TypeOK', NEW c \in Clusters,
         UNCHANGED <<users, store, run>>,
         \A d \in Clusters \ {c} : objects'[d] = objects[d],
         Exists(c)' => objects'[c].spec \in Spec_,
         objects'[c].last # NoSpec => Finalized(c)',
         Finalized(c) => Finalized(c)',
         objects[c].phase = "deleting" => objects'[c].phase = "deleting",
         c \notin hasty =>
           /\ Exists(c)' /\ git[c] = NoSpec => objects'[c].last # NoSpec /\ saving[c] = NoSpec
           /\ objects'[c].phase = "deleting" => git[c] = NoSpec
           /\ Exists(c) /\ git[c] = NoSpec => Exists(c)'
  PROVE  IInv'
<1> USE DEF IInv, users, store
<1>1. HistoryIsFinalized'
  BY DEF HistoryIsFinalized, Exists, Finalized
<1>2. RunIsFinalized'
  BY DEF RunIsFinalized, Exists, Finalized
<1>3. SettledHasHistory'
  BY DEF SettledHasHistory, Exists
<1>4. DeletionProgress'
  BY DEF DeletionProgress
<1>5. NothingLeftBehind'
  BY DEF NothingLeftBehind, Gone, Exists, Unreachable
<1> QED BY <1>1, <1>2, <1>3, <1>4, <1>5

LEMMA CreateObjectIInv ==
  ASSUME IInv, NEW c \in Clusters, CreateObject(c)
  PROVE  IInv'
<1> USE DEF CreateObject, IInv
<1> DEFINE o == [phase |-> "live", finalizer |-> FALSE, spec |-> git[c], last |-> NoSpec]
<1>1. git[c] \in Spec_
  BY DEF TypeOK
<1>2. o \in Object
  BY <1>1 DEF Object
<1>3. objects' = [objects EXCEPT ![c] = o]
  OBVIOUS
<1> HIDE DEF o
<1>4. objects' \in [Clusters -> Object] /\ objects'[c] = o
  BY <1>2, <1>3 DEF TypeOK
<1>5. o.phase = "live" /\ o.spec = git[c] /\ o.last = NoSpec
  BY DEF o
<1>6. \A d \in Clusters \ {c} : objects'[d] = objects[d]
  BY <1>3 DEF TypeOK
<1>7. TypeOK'
  BY <1>4, <1>5, <1>6 DEF TypeOK, users, store
<1>8. ~Finalized(c) /\ objects[c].phase # "deleting"
  BY DEF Finalized, Exists
<1>9. Exists(c)'
  BY <1>4, <1>5 DEF Exists
<1> QED BY <1>1, <1>4, <1>5, <1>6, <1>7, <1>8, <1>9, ObjectStep

LEMMA UpdateObjectIInv ==
  ASSUME IInv, NEW c \in Clusters, UpdateObject(c)
  PROVE  IInv'
<1> USE DEF UpdateObject, IInv
<1> DEFINE o == [objects[c] EXCEPT !.spec = git[c]]
<1>1. git[c] \in Spec_ /\ git[c] # NoSpec
  BY DEF TypeOK
<1>2. /\ o \in Object
      /\ o.spec = git[c] /\ o.phase = objects[c].phase
      /\ o.finalizer = objects[c].finalizer /\ o.last = objects[c].last
  BY <1>1 DEF TypeOK, Object
<1>3. objects' = [objects EXCEPT ![c] = o]
  OBVIOUS
<1> HIDE DEF o
<1>4. objects' \in [Clusters -> Object] /\ objects'[c] = o
  BY <1>2, <1>3 DEF TypeOK
<1>5. \A d \in Clusters \ {c} : objects'[d] = objects[d]
  BY <1>3 DEF TypeOK
<1>6. TypeOK'
  BY <1>2, <1>4, <1>5 DEF TypeOK, users, store, Live
<1>7. objects[c].last # NoSpec => Finalized(c)
  BY DEF HistoryIsFinalized
<1>8. Exists(c)' /\ (Finalized(c) => Finalized(c)')
  BY <1>2, <1>4 DEF Finalized, Exists, Live
<1> QED BY <1>1, <1>2, <1>4, <1>5, <1>6, <1>7, <1>8, ObjectStep DEF Live

LEMMA PruneObjectIInv ==
  ASSUME IInv, NEW c \in Clusters, PruneObject(c)
  PROVE  IInv'
<1> USE DEF PruneObject, IInv
<1>1. CASE objects[c].finalizer
  <2> DEFINE o == [objects[c] EXCEPT !.phase = "deleting"]
  <2>1. /\ o \in Object
        /\ o.spec = objects[c].spec /\ o.phase = "deleting"
        /\ o.finalizer = objects[c].finalizer /\ o.last = objects[c].last
    BY DEF TypeOK, Object
  <2>2. objects' = [objects EXCEPT ![c] = o]
    BY <1>1
  <2> HIDE DEF o
  <2>3. objects' \in [Clusters -> Object] /\ objects'[c] = o
    BY <2>1, <2>2 DEF TypeOK
  <2>4. \A d \in Clusters \ {c} : objects'[d] = objects[d]
    BY <2>2 DEF TypeOK
  <2>5. TypeOK'
    BY <1>1, <2>1, <2>3, <2>4 DEF TypeOK, users, store
  <2>6. objects[c].spec \in Spec_ /\ Finalized(c)'
    BY <1>1, <2>1, <2>3 DEF HistoryIsFinalized, Exists, Live, Finalized
  <2>7. c \notin hasty => objects[c].last # NoSpec /\ saving[c] = NoSpec
    BY DEF SettledHasHistory, Exists, Live
  <2> QED BY <2>1, <2>3, <2>4, <2>5, <2>6, <2>7, ObjectStep DEF Finalized
<1>2. CASE ~objects[c].finalizer
  <2>1. objects' = [objects EXCEPT ![c] = NoObject]
    BY <1>2
  <2>2. NoObject \in Object /\ NoObject.phase = "none" /\ NoObject.last = NoSpec
    BY DEF Object, NoObject
  <2>3. objects' \in [Clusters -> Object] /\ objects'[c] = NoObject
    BY <2>1, <2>2 DEF TypeOK
  <2>4. \A d \in Clusters \ {c} : objects'[d] = objects[d]
    BY <2>1 DEF TypeOK
  <2>5. TypeOK'
    BY <2>2, <2>3, <2>4 DEF TypeOK, users, store
  <2>6. objects[c].last = NoSpec
    BY <1>2 DEF HistoryIsFinalized, Finalized
  <2>7. c \in hasty
    BY <2>6 DEF SettledHasHistory, Exists, Live
  <2>8. ~Finalized(c) /\ objects[c].phase # "deleting" /\ ~Exists(c)'
    BY <1>2, <2>2, <2>3 DEF Finalized, Live, Exists
  <2> QED BY <2>2, <2>3, <2>4, <2>5, <2>7, <2>8, ObjectStep
<1> QED BY <1>1, <1>2

-----------------------------------------------------------------------------
(* The controller. *)

LEMMA StartFacts ==
  ASSUME TypeOK, NEW c \in Clusters, NEW op \in {"sync", "delete"},
         NEW calls \in Seq(Calls), calls # <<>>, Start(c, op, calls)
  PROVE  /\ run' \in Run /\ run' # NoRun /\ run'.calls # <<>>
         /\ run'.cluster = c /\ run'.op = op /\ run'.calls = calls
         /\ run'.spec = objects[c].spec /\ run'.last = objects[c].last
<1>1. run' = [cluster |-> c, op |-> op, spec |-> objects[c].spec,
              last |-> objects[c].last, calls |-> calls]
  BY DEF Start
<1>2. objects[c].spec \in Spec_ \cup {NoSpec} /\ objects[c].last \in Spec_ \cup {NoSpec}
  BY DEF TypeOK, Object
<1>3. run' \in Run
  BY <1>1, <1>2 DEF Run
<1>4. run' # NoRun
  BY <1>1 DEF NoRun
<1> QED BY <1>1, <1>3, <1>4

LEMMA ReconcileIInv ==
  ASSUME IInv, NEW c \in Clusters, Reconcile(c)
  PROVE  IInv'
<1> USE DEF Reconcile, IInv, users, store
<1> DEFINE o == [objects[c] EXCEPT !.finalizer = TRUE]
           plan == SyncPlan(objects[c].spec, objects[c].last)
<1>1. /\ o \in Object
      /\ o.spec = objects[c].spec /\ o.phase = objects[c].phase
      /\ o.finalizer = TRUE /\ o.last = objects[c].last
  BY DEF TypeOK, Object
<1>2. objects' = [objects EXCEPT ![c] = o]
  OBVIOUS
<1>3. UNCHANGED run \/ Start(c, "sync", plan)
  OBVIOUS
<1>4. plan \in Seq(SyncCalls) /\ plan # <<>> /\ plan \in Seq(Calls)
  BY SyncPlanCalls DEF SyncCalls
<1> HIDE DEF o, plan
<1>5. /\ objects' \in [Clusters -> Object] /\ objects'[c] = o
      /\ \A d \in Clusters \ {c} : objects'[d] = objects[d]
  BY <1>1, <1>2 DEF TypeOK
<1>6. \/ UNCHANGED run
      \/ /\ run' \in Run /\ run' # NoRun /\ run'.calls # <<>>
         /\ run'.cluster = c /\ run'.op = "sync" /\ run'.calls = plan
         /\ run'.spec = objects[c].spec
  BY <1>3, <1>4, StartFacts
<1>7. Exists(c) /\ objects[c].spec \in Spec_ /\ Finalized(c)'
  BY <1>1, <1>5 DEF HistoryIsFinalized, Exists, Live, Finalized
<1>8. TypeOK'
  BY <1>1, <1>5, <1>6 DEF TypeOK, Live
<1>9. HistoryIsFinalized'
  BY <1>1, <1>5, <1>7 DEF HistoryIsFinalized, Exists, Finalized
<1>10. RunIsFinalized'
  BY <1>4, <1>6, <1>7 DEF RunIsFinalized
<1>11. SettledHasHistory'
  BY <1>1, <1>5 DEF SettledHasHistory, Exists
<1>12. DeletionProgress'
  BY <1>6 DEF DeletionProgress
<1>13. NothingLeftBehind'
  BY <1>1, <1>5 DEF NothingLeftBehind, Gone, Exists, Unreachable
<1> QED BY <1>8, <1>9, <1>10, <1>11, <1>12, <1>13

LEMMA ReconcileDeletedIInv ==
  ASSUME IInv, NEW c \in Clusters, ReconcileDeleted(c)
  PROVE  IInv'
<1> USE DEF ReconcileDeleted, IInv, users, store
<1> DEFINE plan == DeletePlan(objects[c].last)
<1>1. /\ plan \in DeleteTails /\ plan \in Seq(Calls) /\ plan # <<>>
      /\ objects[c].last # NoSpec => Head(plan) = "deleteSecret"
  BY DeletePlanCalls, DeleteTailCalls
<1>2. Start(c, "delete", plan)
  OBVIOUS
<1> HIDE DEF plan
<1>3. /\ run' \in Run /\ run' # NoRun /\ run'.calls # <<>>
      /\ run'.cluster = c /\ run'.op = "delete" /\ run'.calls = plan
      /\ run'.spec = objects[c].spec
  BY <1>1, <1>2, StartFacts
<1>4. Finalized(c) /\ objects[c].spec \in Spec_
  BY DEF TypeOK, HistoryIsFinalized, Finalized, Exists
<1>5. TypeOK'
  BY <1>3 DEF TypeOK
<1>6. HistoryIsFinalized' /\ SettledHasHistory' /\ NothingLeftBehind'
  BY DEF HistoryIsFinalized, SettledHasHistory, NothingLeftBehind, Finalized, Exists, Gone, Unreachable
<1>7. RunIsFinalized'
  BY <1>1, <1>3, <1>4 DEF RunIsFinalized, Finalized, Exists
<1>8. DeletionProgress'
  <2>1. c \notin hasty => objects[c].last # NoSpec
    BY DEF SettledHasHistory, Exists
  <2> QED BY <1>1, <1>3, <2>1 DEF DeletionProgress
<1> QED BY <1>5, <1>6, <1>7, <1>8

-----------------------------------------------------------------------------
(* The calls of a reconcile. *)

LEMMA RunningFacts ==
  ASSUME IInv, run # NoRun
  PROVE  /\ run.cluster \in Clusters /\ Finalized(run.cluster)
         /\ run.spec \in Spec_ /\ run.last \in Spec_ \cup {NoSpec}
         /\ run.calls \in Seq(Calls) /\ run.calls # <<>>
         /\ Head(run.calls) \in Calls
         /\ run.op # "delete" => /\ run.op \in {"sync", "clean"}
                                 /\ run.calls \in Seq(SyncCalls)
                                 /\ Head(run.calls) # "removeFinalizer"
<1> USE DEF IInv
<1>1. run.calls \in Seq(Calls) /\ run.calls # <<>> /\ run.last \in Spec_ \cup {NoSpec}
  BY DEF TypeOK, Run
<1>2. /\ run.cluster \in Clusters /\ Finalized(run.cluster) /\ run.spec \in Spec_
      /\ run.op # "delete" => run.op \in {"sync", "clean"} /\ run.calls \in Seq(SyncCalls)
  BY DEF RunIsFinalized
<1>3. Head(run.calls) \in Calls
  BY <1>1, HeadTail
<1>4. run.op # "delete" => Head(run.calls) # "removeFinalizer"
  BY <1>1, <1>2, HeadTail DEF SyncCalls
<1> QED BY <1>1, <1>2, <1>3, <1>4

\* A call changes what is stored about its cluster only; none but the last call
\* of a deletion takes the object away.
LEMMA EffectFacts ==
  ASSUME IInv, run # NoRun, NEW c, c = run.cluster,
         NEW call \in Calls, Effect(call)
  PROVE  /\ secret' \in [Clusters -> Kubeconfigs]
         /\ auth' \in [Clusters -> Auth]
         /\ access' \in SUBSET Clusters
         /\ objects' \in [Clusters -> Object]
         /\ \A d \in Clusters \ {c} :
              /\ secret'[d] = secret[d] /\ auth'[d] = auth[d] /\ objects'[d] = objects[d]
              /\ d \in access' <=> d \in access
         /\ call = "removeFinalizer" =>
              objects'[c] = NoObject /\ UNCHANGED store
         /\ call # "removeFinalizer" =>
              /\ objects'[c].phase = objects[c].phase
              /\ objects'[c].finalizer = objects[c].finalizer
              /\ objects'[c].spec = objects[c].spec
              /\ objects'[c].last \in {objects[c].last, run.spec}
         /\ call = "deleteSecret" => secret'[c] = "none"
         /\ call = "disableAuth" => secret' = secret /\ auth'[c] = NoAuth
         /\ call = "revokeCluster" => UNCHANGED <<secret, auth>> /\ c \notin access'
<1> USE DEF IInv, Effect
<1>1. /\ c \in Clusters /\ run.spec \in Spec_
      /\ secret \in [Clusters -> Kubeconfigs] /\ auth \in [Clusters -> Auth]
      /\ access \in SUBSET Clusters /\ objects \in [Clusters -> Object]
  BY RunningFacts DEF TypeOK
<1>2. CASE call = "createSecret"
  BY <1>1, <1>2 DEF Kubeconfigs
<1>3. CASE call = "deleteSecret"
  BY <1>1, <1>3 DEF Kubeconfigs
<1>4. CASE call \in {"checkSecret"}
  BY <1>1, <1>4
<1>5. CASE call = "createAuth"
  <2>1. /\ auth' = [auth EXCEPT ![c].config = secret[c]]
        /\ UNCHANGED <<secret, access, objects>>
    BY <1>5
  <2>2. auth' \in [Clusters -> Auth] /\ \A d \in Clusters \ {c} : auth'[d] = auth[d]
    BY <1>1, <2>1 DEF Auth
  <2> QED BY <1>1, <1>5, <2>1, <2>2
<1>6. CASE call = "createRole"
  <2>1. /\ auth' = [auth EXCEPT ![c].parts = @ \cup {"role"}]
        /\ UNCHANGED <<secret, access, objects>>
    BY <1>6
  <2>2. auth' \in [Clusters -> Auth] /\ \A d \in Clusters \ {c} : auth'[d] = auth[d]
    BY <1>1, <2>1 DEF Auth
  <2> QED BY <1>1, <1>6, <2>1, <2>2
<1>7. CASE call = "grantTenant"
  <2>1. /\ auth' = [auth EXCEPT ![c].parts = @ \cup {"tenant"}]
        /\ UNCHANGED <<secret, access, objects>>
    BY <1>7
  <2>2. auth' \in [Clusters -> Auth] /\ \A d \in Clusters \ {c} : auth'[d] = auth[d]
    BY <1>1, <2>1 DEF Auth
  <2> QED BY <1>1, <1>7, <2>1, <2>2
<1>8. CASE call = "grantCluster"
  BY <1>1, <1>8
<1>9. CASE call = "disableAuth"
  <2>1. auth' = [auth EXCEPT ![c] = NoAuth] /\ UNCHANGED <<secret, access, objects>>
    BY <1>9
  <2>2. NoAuth \in Auth
    BY DEF NoAuth, Auth, Kubeconfigs
  <2> QED BY <1>1, <1>9, <2>1, <2>2
<1>10. CASE call = "revokeCluster"
  BY <1>1, <1>10
<1>11. CASE call = "saveStatus"
  <2>1. objects' = [objects EXCEPT ![c].last = run.spec] /\ UNCHANGED <<secret, auth, access>>
    BY <1>11
  <2>2. /\ objects' \in [Clusters -> Object]
        /\ \A d \in Clusters \ {c} : objects'[d] = objects[d]
        /\ objects'[c].phase = objects[c].phase
        /\ objects'[c].finalizer = objects[c].finalizer
        /\ objects'[c].spec = objects[c].spec
        /\ objects'[c].last = run.spec
    BY <1>1, <2>1 DEF Object
  <2> QED BY <1>1, <1>11, <2>1, <2>2
<1>12. CASE call = "removeFinalizer"
  <2>1. objects' = [objects EXCEPT ![c] = NoObject] /\ UNCHANGED <<secret, auth, access>>
    BY <1>12
  <2>2. NoObject \in Object
    BY DEF NoObject, Object
  <2> QED BY <1>1, <1>12, <2>1, <2>2 DEF store
<1> QED BY <1>2, <1>3, <1>4, <1>5, <1>6, <1>7, <1>8, <1>9, <1>10, <1>11, <1>12 DEF Calls

LEMMA ContinueFacts ==
  ASSUME IInv, run # NoRun, NEW op \in {"sync", "clean", "delete"}, NEW calls \in Seq(Calls),
         run' = Continue(run, op, calls)
  PROVE  /\ run' \in Run
         /\ run'.calls = <<>> <=> run' = NoRun
         /\ run' # NoRun => /\ run'.cluster = run.cluster /\ run'.spec = run.spec
                            /\ run'.last = run.last
                            /\ run'.op = op /\ run'.calls = calls
         /\ calls = <<>> => run' = NoRun
<1>1. run \in Run
  BY DEF IInv, TypeOK
<1>2. CASE calls = <<>>
  <2>1. run' = NoRun
    BY <1>2 DEF Continue
  <2>2. NoRun \in Run /\ NoRun.calls = <<>>
    BY <1>2 DEF NoRun, Run
  <2> QED BY <2>1, <2>2
<1>3. CASE calls # <<>>
  <2> DEFINE r == [run EXCEPT !.op = op, !.calls = calls]
  <2>1. /\ r \in Run
        /\ r.cluster = run.cluster /\ r.spec = run.spec /\ r.last = run.last
        /\ r.op = op /\ r.calls = calls
    BY <1>1 DEF Run
  <2>2. run' = r
    BY <1>3 DEF Continue
  <2> HIDE DEF r
  <2>3. r # NoRun
    BY <1>3, <2>1 DEF NoRun
  <2> QED BY <1>3, <2>1, <2>2, <2>3
<1> QED BY <1>2, <1>3

\* A call has, or has not, taken effect, and the reconcile ends or goes on.
LEMMA WorkStep ==
  ASSUME IInv, run # NoRun, NEW call, call = Head(run.calls),
         UNCHANGED users, faults' \in 0..MaxFaults,
         UNCHANGED <<store, objects>> \/ Effect(call),
         run' \in Run,
         run'.calls = <<>> <=> run' = NoRun,
         run' # NoRun =>
           /\ run'.cluster = run.cluster /\ run'.spec = run.spec
           /\ IF run.op = "delete"
                THEN /\ run'.op = "delete" /\ run'.calls = Tail(run.calls)
                     /\ Effect(call) /\ call # "removeFinalizer"
                ELSE run'.op \in {"sync", "clean"} /\ run'.calls \in Seq(SyncCalls)
  PROVE  IInv'
<1> USE DEF IInv, users, store
<1> DEFINE c == run.cluster
<1>1. /\ c \in Clusters /\ Finalized(c) /\ run.spec \in Spec_ /\ call \in Calls
      /\ run.op # "delete" => call # "removeFinalizer"
  BY RunningFacts
<1>2. run.op = "delete" => objects[c].phase = "deleting" /\ run.calls \in DeleteTails
  BY DEF RunIsFinalized
<1>3. /\ secret' \in [Clusters -> Kubeconfigs] /\ auth' \in [Clusters -> Auth]
      /\ access' \in SUBSET Clusters /\ objects' \in [Clusters -> Object]
      /\ \A d \in Clusters \ {c} :
           /\ secret'[d] = secret[d] /\ auth'[d] = auth[d] /\ objects'[d] = objects[d]
           /\ d \in access' <=> d \in access
  BY <1>1, EffectFacts DEF TypeOK
<1>4. \/ /\ call = "removeFinalizer" /\ run.op = "delete" /\ run' = NoRun
         /\ objects'[c] = NoObject /\ UNCHANGED <<secret, auth, access>>
      \/ /\ objects'[c].phase = objects[c].phase
         /\ objects'[c].finalizer = objects[c].finalizer
         /\ objects'[c].spec = objects[c].spec
         /\ objects'[c].last \in {objects[c].last, run.spec}
  BY <1>1, EffectFacts
<1>5. NoObject.phase = "none" /\ NoObject.last = NoSpec
  BY DEF NoObject
<1>6. objects[c].spec \in Spec_ /\ Exists(c) /\ objects[c].finalizer
  BY <1>1 DEF HistoryIsFinalized, Finalized
<1> HIDE DEF c
<1>7. TypeOK'
  BY <1>1, <1>3, <1>4, <1>5, <1>6 DEF TypeOK, Exists
<1>8. HistoryIsFinalized'
  BY <1>1, <1>3, <1>4, <1>5, <1>6 DEF HistoryIsFinalized, Finalized, Exists
<1>9. SettledHasHistory'
  <2> SUFFICES ASSUME NEW d \in Clusters \ hasty
               PROVE  /\ objects'[d].phase # "none" /\ git[d] = NoSpec =>
                           objects'[d].last # NoSpec /\ saving[d] = NoSpec
                      /\ objects'[d].phase = "deleting" => git[d] = NoSpec
    BY DEF SettledHasHistory, Exists
  <2>1. CASE d # c
    BY <1>3, <2>1 DEF SettledHasHistory, Exists
  <2>2. CASE d = c /\ objects'[c] = NoObject
    BY <1>5, <2>2
  <2>3. CASE d = c /\ objects'[c].phase = objects[c].phase
                  /\ objects'[c].last \in {objects[c].last, run.spec}
    <3>1. run.spec # NoSpec
      BY <1>1, NoSpecIsNone
    <3> QED BY <2>3, <3>1 DEF SettledHasHistory, Exists
  <2> QED BY <1>4, <2>1, <2>2, <2>3
<1>10. RunIsFinalized'
  <2> SUFFICES ASSUME run' # NoRun PROVE RunIsFinalized'
    BY DEF RunIsFinalized
  <2>1. run'.cluster = c /\ run'.spec = run.spec
    BY DEF c
  <2>2. /\ objects'[c].finalizer /\ objects'[c].phase # "none"
        /\ objects'[c].phase = objects[c].phase
    BY <1>4, <1>6 DEF Exists
  <2>3. run'.op = "delete" => objects[c].phase = "deleting" /\ run'.calls \in DeleteTails
    BY <1>2, DeleteTailCalls
  <2> QED BY <1>1, <2>1, <2>2, <2>3 DEF RunIsFinalized, Finalized, Exists
<1>11. DeletionProgress'
  <2> SUFFICES ASSUME run' # NoRun, run'.op = "delete", c \notin hasty
               PROVE  /\ Head(run'.calls) # "deleteSecret" => secret'[c] = "none"
                      /\ Head(run'.calls) \in {"revokeCluster", "removeFinalizer"} => auth'[c] = NoAuth
                      /\ Head(run'.calls) = "removeFinalizer" => c \notin access'
    BY DEF DeletionProgress, c
  <2>1. run.op = "delete" /\ run'.calls = Tail(run.calls) /\ Effect(call) /\ call # "removeFinalizer"
    OBVIOUS
  <2>2. /\ call = "deleteSecret" => secret'[c] = "none"
        /\ call = "disableAuth" => secret' = secret /\ auth'[c] = NoAuth
        /\ call = "revokeCluster" => secret' = secret /\ auth' = auth /\ c \notin access'
    BY <1>1, <2>1, EffectFacts DEF c
  <2>3. /\ call \in {"deleteSecret", "disableAuth", "revokeCluster"}
        /\ call = "deleteSecret" => Head(run'.calls) = "disableAuth"
        /\ call = "disableAuth" => Head(run'.calls) = "revokeCluster"
        /\ call = "revokeCluster" => Head(run'.calls) = "removeFinalizer"
    BY <1>2, <2>1, DeleteTailCalls
  <2>4. /\ call # "deleteSecret" => secret[c] = "none"
        /\ call \in {"revokeCluster", "removeFinalizer"} => auth[c] = NoAuth
    BY <2>1 DEF DeletionProgress, c
  <2> QED BY <2>2, <2>3, <2>4
<1>12. NothingLeftBehind'
  <2> SUFFICES ASSUME NEW d \in Clusters \ hasty, Gone(d)'
               PROVE  secret'[d] = "none" /\ auth'[d] = NoAuth /\ d \notin access'
    BY DEF NothingLeftBehind, Unreachable
  <2>1. CASE d = c
    <3>1. call = "removeFinalizer" /\ run.op = "delete" /\ UNCHANGED <<secret, auth, access>>
      BY <1>4, <1>6, <2>1 DEF Gone, Exists
    <3>2. secret[c] = "none" /\ auth[c] = NoAuth /\ c \notin access
      BY <2>1, <3>1 DEF DeletionProgress, c
    <3> QED BY <2>1, <3>1, <3>2
  <2>2. CASE d # c
    BY <1>3, <2>2 DEF NothingLeftBehind, Gone, Exists, Unreachable
  <2> QED BY <2>1, <2>2
<1> QED BY <1>7, <1>8, <1>9, <1>10, <1>11, <1>12

LEMMA CallIInv ==
  ASSUME IInv, Call
  PROVE  IInv'
<1> USE DEF Call
<1>1. /\ run.op \in {"sync", "clean", "delete"}
      /\ Tail(run.calls) \in Seq(Calls)
      /\ run.op # "delete" => Tail(run.calls) \in Seq(SyncCalls)
  BY RunningFacts, HeadTail
<1>2. /\ run' \in Run /\ (run'.calls = <<>> <=> run' = NoRun)
      /\ run' # NoRun => /\ run'.cluster = run.cluster /\ run'.spec = run.spec
                         /\ run'.op = run.op /\ run'.calls = Tail(run.calls)
      /\ Tail(run.calls) = <<>> => run' = NoRun
  BY <1>1, ContinueFacts
<1>3. run.op = "delete" /\ Head(run.calls) = "removeFinalizer" => run' = NoRun
  BY <1>2, DeleteTailCalls DEF IInv, RunIsFinalized
<1>4. faults' \in 0..MaxFaults
  BY DEF IInv, TypeOK
<1> QED BY <1>1, <1>2, <1>3, <1>4, WorkStep

\* What an error leads to.
LEMMA AfterErrorFacts ==
  ASSUME IInv, run # NoRun, AfterError
  PROVE  /\ run' \in Run /\ (run'.calls = <<>> <=> run' = NoRun)
         /\ run' # NoRun => /\ run'.cluster = run.cluster /\ run'.spec = run.spec
                            /\ run.op # "delete" /\ run'.op \in {"sync", "clean"}
                            /\ run'.calls \in Seq(SyncCalls)
<1> USE DEF AfterError
<1>1. CASE run.op = "sync" /\ Head(run.calls) # "saveStatus"
  <2>1. /\ CleanPlan(run.spec, run.last) \in Seq(SyncCalls)
        /\ CleanPlan(run.spec, run.last) \in Seq(Calls)
    BY CleanPlanCalls DEF SyncCalls
  <2> QED BY <1>1, <2>1, ContinueFacts
<1>2. CASE run.op = "clean"
  <2>1. Tail(run.calls) \in Seq(SyncCalls) /\ Tail(run.calls) \in Seq(Calls)
    BY <1>2, RunningFacts, HeadTail
  <2> QED BY <1>2, <2>1, ContinueFacts
<1>3. CASE run.op # "clean" /\ ~(run.op = "sync" /\ Head(run.calls) # "saveStatus")
  <2>1. run' = NoRun
    BY <1>3
  <2>2. NoRun \in Run /\ NoRun.calls = <<>>
    <3>1. <<>> \in Seq(Calls)
      BY SMT
    <3> QED BY <3>1 DEF NoRun, Run
  <2> QED BY <2>1, <2>2
<1> QED BY <1>1, <1>2, <1>3

LEMMA CallRefusedIInv ==
  ASSUME IInv, CallRefused
  PROVE  IInv'
<1>1. faults' \in 0..MaxFaults
  BY DEF CallRefused, IInv, TypeOK
<1> QED BY <1>1, AfterErrorFacts, WorkStep DEF CallRefused

LEMMA CallFailsIInv ==
  ASSUME IInv, CallFails
  PROVE  IInv'
<1>1. faults' \in 0..MaxFaults
  BY ClustersAssumption DEF CallFails, IInv, TypeOK
<1>2. UNCHANGED <<store, objects>> \/ Effect(Head(run.calls))
  BY DEF CallFails
<1> QED BY <1>1, <1>2, AfterErrorFacts, WorkStep DEF CallFails

LEMMA CrashIInv ==
  ASSUME IInv, Crash
  PROVE  IInv'
<1>1. faults' \in 0..MaxFaults
  BY ClustersAssumption DEF Crash, IInv, TypeOK
<1>2. NoRun \in Run /\ NoRun.calls = <<>>
  <2>1. <<>> \in Seq(Calls)
    BY SMT
  <2> QED BY <2>1 DEF NoRun, Run
<1> QED BY <1>1, <1>2, WorkStep DEF Crash

-----------------------------------------------------------------------------
(* What has been synced stays usable: a second invariant on top of the first. *)

SpecsAreAllowed ==
  /\ \A c \in Clusters :
       /\ saving[c] \in Specs[c] \cup {NoSpec} /\ git[c] \in Specs[c] \cup {NoSpec}
       /\ objects[c].spec \in Specs[c] \cup {NoSpec}
       /\ objects[c].last \in Specs[c] \cup {NoSpec}
  /\ run # NoRun => /\ run.spec \in Specs[run.cluster]
                    /\ run.last \in Specs[run.cluster] \cup {NoSpec}

\* A cluster that is not hasty has at most one change that has not been synced.
ChangesSettle ==
  \A c \in Clusters \ hasty :
    /\ saving[c] # NoSpec =>
         IF Exists(c) THEN git[c] = objects[c].spec /\ objects[c].last = git[c]
         ELSE git[c] = NoSpec
    /\ Exists(c) => objects[c].spec \in {git[c], objects[c].last}

\* A reconcile knows the history, and the definition unless it changed since; then
\* the one it knows has been synced before.
RunIsCurrent ==
  run # NoRun /\ run.op # "delete" /\ run.cluster \notin hasty =>
    LET o == objects[run.cluster]
    IN o.last = run.last /\ (o.spec # run.spec => o.last = run.spec)

\* What may be left of a sync and of its clean-up.
WorkerCourse ==
  {<<"createSecret", "checkSecret", "createAuth", "createRole", "grantTenant",
     "grantCluster", "saveStatus">>,
   <<"checkSecret", "createAuth", "createRole", "grantTenant", "grantCluster", "saveStatus">>,
   <<"createAuth", "createRole", "grantTenant", "grantCluster", "saveStatus">>,
   <<"createRole", "grantTenant", "grantCluster", "saveStatus">>,
   <<"grantTenant", "grantCluster", "saveStatus">>,
   <<"grantCluster", "saveStatus">>, <<"saveStatus">>}
HostCourse ==
  {<<"checkSecret", "disableAuth", "revokeCluster", "saveStatus">>,
   <<"disableAuth", "revokeCluster", "saveStatus">>,
   <<"revokeCluster", "saveStatus">>,
   <<"checkSecret", "saveStatus">>, <<"saveStatus">>}
LeaveCourse == {<<"deleteSecret", "saveStatus">>, <<"saveStatus">>}

Leaving == LeavesHost(run.spec, run.last)
CleanCalls ==
  {x \in {"deleteSecret", "disableAuth", "revokeCluster"} :
     IF x = "deleteSecret" THEN Leaving
     ELSE run.last.usage = "worker" /\ run.spec.usage = "host"}

RunIsOnCourse ==
  run # NoRun =>
    /\ run.op = "sync" =>
         \/ Leaving /\ run.calls \in LeaveCourse
         \/ ~Leaving /\ run.spec.usage = "worker" /\ run.calls \in WorkerCourse
         \/ ~Leaving /\ run.spec.usage = "host" /\ run.calls \in HostCourse
    /\ run.op = "clean" => run.calls \in Seq(CleanCalls)

\* What the sync of a worker has made of its auth so far.
AuthProgress ==
  run # NoRun /\ run.op = "sync" /\ ~Leaving /\ run.spec.usage = "worker" =>
    LET c == run.cluster
        next == Head(run.calls)
    IN /\ next \in {"createRole", "grantTenant", "grantCluster", "saveStatus"} =>
            auth[c].config # "none"
       /\ next \in {"grantTenant", "grantCluster", "saveStatus"} => "role" \in auth[c].parts
       /\ next \in {"grantCluster", "saveStatus"} => "tenant" \in auth[c].parts
       /\ next = "saveStatus" => c \in access

\* The sync of a virtual cluster has found its host, and nobody has taken it away.
HostProgress ==
  /\ run # NoRun /\ run.op = "sync" /\ run.cluster \notin hasty
  /\ run.spec.type = "virtual" /\ Head(run.calls) # "createSecret"
  /\ objects[run.cluster].spec = run.spec
  => /\ Exists(run.spec.host) /\ secret[run.spec.host] # "none"
     /\ secret[run.cluster] # "none"

Guest(c) == InSync(c) /\ objects[c].spec.type = "virtual"

\* A reconcile that takes a cluster or its kubeconfig away has no synced guest: the
\* validation found no dependents, and there is one worker to sync one since.
GuestsAreUnsynced ==
  run # NoRun /\ (run.op = "delete" \/ Leaving) =>
    \A c \in Clusters \ hasty : Guest(c) => objects[c].spec.host # run.cluster

\* A worker that was synced stays reachable while it is being changed, too.
SyncedIsKept ==
  \A c \in Clusters \ hasty : Live(c) =>
    /\ objects[c].last.usage = "worker" /\ objects[c].spec.usage = "worker" => Reachable(c)
    /\ objects[c].last.type = "virtual" /\ objects[c].spec.type = "virtual" =>
         secret[c] # "none"

JInv ==
  /\ SpecsAreAllowed /\ ChangesSettle /\ RunIsCurrent /\ RunIsOnCourse
  /\ AuthProgress /\ HostProgress /\ GuestsAreUnsynced
  /\ SyncedIsKept /\ HostOutlivesGuests

LEMMA SpecFacts ==
  /\ \A c \in Clusters : \A s \in Specs[c] :
       /\ s \in Spec_ /\ s # NoSpec /\ s.host # c
       /\ s.type \in {"physical", "virtual"} /\ s.usage \in {"host", "worker"}
       /\ s.type = "virtual" => s.usage = "worker" /\ s.host \in Clusters
  /\ NoSpec.type = "no type" /\ NoSpec.usage = "no usage"
<1>1. ASSUME NEW c \in Clusters, NEW s \in Specs[c]
      PROVE  /\ s \in Spec_ /\ s # NoSpec /\ s.host # c
             /\ s.type \in {"physical", "virtual"} /\ s.usage \in {"host", "worker"}
             /\ s.type = "virtual" => s.usage = "worker" /\ s.host \in Clusters
  <2>1. s \in Spec_ /\ StaticCheck(s) /\ s.host # c
    BY <1>1, ClustersAssumption
  <2>2. /\ s.type \in {"physical", "virtual"} /\ s.usage \in {"host", "worker"}
        /\ s.host \in Clusters \cup {NoCluster}
    BY <2>1 DEF Spec_
  <2> QED BY <2>1, <2>2, NoSpecIsNone DEF StaticCheck
<1> QED BY <1>1 DEF NoSpec

LEMMA InitJInv == Init => JInv
<1> SUFFICES ASSUME Init PROVE JInv
  OBVIOUS
<1>1. /\ \A c \in Clusters : saving[c] = NoSpec /\ git[c] = NoSpec /\ objects[c] = NoObject
      /\ run = NoRun
  BY DEF Init
<1>2. NoObject.phase = "none" /\ NoObject.spec = NoSpec /\ NoObject.last = NoSpec
  BY DEF NoObject
<1>3. \A c \in Clusters : ~Exists(c) /\ ~Live(c)
  BY <1>1, <1>2 DEF Exists, Live
<1>4. SpecsAreAllowed /\ ChangesSettle /\ SyncedIsKept /\ HostOutlivesGuests
  BY <1>1, <1>2, <1>3
  DEF SpecsAreAllowed, ChangesSettle, SyncedIsKept, HostOutlivesGuests, InSync
<1> QED BY <1>1, <1>4
  DEF JInv, RunIsCurrent, RunIsOnCourse, AuthProgress, HostProgress, GuestsAreUnsynced

\* A request, which touches neither objects nor the reconcile.
LEMMA UserStepJ ==
  ASSUME IInv, JInv, UNCHANGED <<objects, auth, access, run>>, hasty \subseteq hasty',
         \A d \in Clusters : secret'[d] \in {secret[d], "user"},
         SpecsAreAllowed', ChangesSettle'
  PROVE  JInv'
<1>1. RunIsCurrent' /\ RunIsOnCourse' /\ AuthProgress'
  BY DEF JInv, RunIsCurrent, RunIsOnCourse, AuthProgress, Leaving, CleanCalls
<1>2. HostProgress'
  <2> SUFFICES ASSUME run # NoRun, run.op = "sync", run.cluster \notin hasty',
                      run.spec.type = "virtual", Head(run.calls) # "createSecret",
                      objects[run.cluster].spec = run.spec
               PROVE  /\ Exists(run.spec.host)' /\ secret'[run.spec.host] # "none"
                      /\ secret'[run.cluster] # "none"
    BY DEF HostProgress
  <2>1. run.cluster \in Clusters /\ run.spec.host \in Clusters
    BY SpecFacts DEF IInv, RunIsFinalized, JInv, SpecsAreAllowed
  <2> QED BY <2>1 DEF JInv, HostProgress, Exists
<1>3. GuestsAreUnsynced'
  BY DEF JInv, GuestsAreUnsynced, Guest, InSync, Live, Leaving
<1>4. SyncedIsKept'
  BY DEF JInv, SyncedIsKept, Live, Reachable
<1>5. HostOutlivesGuests'
  <2> SUFFICES ASSUME NEW c \in Clusters \ hasty', InSync(c), objects[c].spec.type = "virtual"
               PROVE  Exists(objects[c].spec.host)' /\ secret'[objects[c].spec.host] # "none"
    BY DEF HostOutlivesGuests, InSync, Live
  <2>1. objects[c].spec \in Specs[c]
    BY SpecFacts DEF JInv, SpecsAreAllowed
  <2>2. objects[c].spec.host \in Clusters
    BY <2>1, SpecFacts
  <2> QED BY <2>2 DEF JInv, HostOutlivesGuests, Exists
<1> QED BY <1>1, <1>2, <1>3, <1>4, <1>5 DEF JInv

LEMMA SaveKubeconfigJ ==
  ASSUME IInv, JInv, NEW c \in Clusters, NEW s \in Specs[c], SaveKubeconfig(c, s)
  PROVE  JInv'
<1>1. /\ saving' = [saving EXCEPT ![c] = s] /\ secret' = [secret EXCEPT ![c] = "user"]
      /\ UNCHANGED <<git, objects, auth, access, run>>
      /\ hasty' = IF Settled(c) THEN hasty ELSE hasty \cup {c}
  BY DEF SaveKubeconfig, Ask
<1>2. saving \in [Clusters -> Spec_ \cup {NoSpec}] /\ secret \in [Clusters -> Kubeconfigs]
  BY DEF IInv, TypeOK
<1>3. SpecsAreAllowed'
  BY <1>1, <1>2 DEF JInv, SpecsAreAllowed
<1>4. ChangesSettle'
  <2> SUFFICES ASSUME NEW d \in Clusters \ hasty'
               PROVE  /\ saving'[d] # NoSpec =>
                           IF Exists(d) THEN git[d] = objects[d].spec /\ objects[d].last = git[d]
                           ELSE git[d] = NoSpec
                      /\ Exists(d) => objects[d].spec \in {git[d], objects[d].last}
    BY <1>1 DEF ChangesSettle, Exists
  <2>1. CASE d = c
    BY <1>1, <2>1 DEF Settled, Live, Exists, JInv, ChangesSettle
  <2>2. CASE d # c
    BY <1>1, <1>2, <2>2 DEF JInv, ChangesSettle
  <2> QED BY <2>1, <2>2
<1> QED BY <1>1, <1>2, <1>3, <1>4, UserStepJ

LEMMA PushClusterJ ==
  ASSUME IInv, JInv, NEW c \in Clusters, PushCluster(c)
  PROVE  JInv'
<1>1. /\ saving[c] # NoSpec /\ saving' = [saving EXCEPT ![c] = NoSpec]
      /\ git' = [git EXCEPT ![c] = saving[c]]
      /\ UNCHANGED <<objects, secret, auth, access, run, hasty>>
  BY DEF PushCluster, store
<1>2. /\ saving \in [Clusters -> Spec_ \cup {NoSpec}]
      /\ git \in [Clusters -> Spec_ \cup {NoSpec}]
  BY DEF IInv, TypeOK
<1>3. SpecsAreAllowed'
  BY <1>1, <1>2 DEF JInv, SpecsAreAllowed
<1>4. ChangesSettle'
  BY <1>1, <1>2 DEF JInv, ChangesSettle, Exists
<1> QED BY <1>1, <1>3, <1>4, UserStepJ

LEMMA PushVirtualJ ==
  ASSUME IInv, JInv, NEW c \in Clusters, NEW s \in Specs[c], PushVirtual(c, s)
  PROVE  JInv'
<1>1. /\ saving[c] = NoSpec /\ git' = [git EXCEPT ![c] = s]
      /\ UNCHANGED <<saving, objects, secret, auth, access, run>>
      /\ hasty' = IF Settled(c) THEN hasty ELSE hasty \cup {c}
  BY DEF PushVirtual, Ask, store
<1>2. git \in [Clusters -> Spec_ \cup {NoSpec}]
  BY DEF IInv, TypeOK
<1>3. SpecsAreAllowed'
  BY <1>1, <1>2 DEF JInv, SpecsAreAllowed
<1>4. ChangesSettle'
  <2>1. c \notin hasty' /\ Exists(c) => objects[c].spec = objects[c].last
    BY <1>1 DEF Settled, Live, Exists
  <2> QED BY <1>1, <1>2, <2>1 DEF JInv, ChangesSettle, Exists
<1> QED BY <1>1, <1>3, <1>4, UserStepJ

LEMMA GiveUpJ ==
  ASSUME IInv, JInv, NEW c \in Clusters, GiveUp(c)
  PROVE  JInv'
<1>1. /\ saving' = [saving EXCEPT ![c] = NoSpec] /\ hasty' = hasty \cup {c}
      /\ UNCHANGED <<git, objects, secret, auth, access, run>>
  BY DEF GiveUp, store
<1>2. saving \in [Clusters -> Spec_ \cup {NoSpec}]
  BY DEF IInv, TypeOK
<1>3. SpecsAreAllowed' /\ ChangesSettle'
  BY <1>1, <1>2 DEF JInv, SpecsAreAllowed, ChangesSettle, Exists
<1> QED BY <1>1, <1>3, UserStepJ

LEMMA RemoveClusterJ ==
  ASSUME IInv, JInv, NEW c \in Clusters, RemoveCluster(c)
  PROVE  JInv'
<1>1. /\ saving[c] = NoSpec /\ git[c] # NoSpec /\ git' = [git EXCEPT ![c] = NoSpec]
      /\ UNCHANGED <<saving, objects, secret, auth, access, run>>
      /\ hasty' = IF Settled(c) THEN hasty ELSE hasty \cup {c}
  BY DEF RemoveCluster, Ask, store
<1>2. git \in [Clusters -> Spec_ \cup {NoSpec}]
  BY DEF IInv, TypeOK
<1>3. SpecsAreAllowed'
  BY <1>1, <1>2 DEF JInv, SpecsAreAllowed
<1>4. ChangesSettle'
  <2>1. c \notin hasty' => objects[c].spec = objects[c].last
    BY <1>1 DEF Settled
  <2> QED BY <1>1, <1>2, <2>1 DEF JInv, ChangesSettle, Exists
<1> QED BY <1>1, <1>3, <1>4, UserStepJ

\* Argo CD and the webhook change the object of c.
LEMMA ObjectStepJ ==
  ASSUME IInv, JInv, NEW c \in Clusters, UNCHANGED <<users, store, run>>,
         \A d \in Clusters \ {c} : objects'[d] = objects[d],
         SpecsAreAllowed', ChangesSettle', RunIsCurrent',
         c \notin hasty => ~InSync(c)',
         Exists(c)' \/ Dependents(c) = {},
         run # NoRun /\ run.op = "sync" /\ run.cluster = c /\ c \notin hasty
           /\ objects'[c].spec = run.spec => objects[c].spec = run.spec,
         c \notin hasty /\ Live(c)' =>
           /\ objects'[c].last.usage = "worker" /\ objects'[c].spec.usage = "worker" =>
                Reachable(c)
           /\ objects'[c].last.type = "virtual" /\ objects'[c].spec.type = "virtual" =>
                secret[c] # "none"
  PROVE  JInv'
<1> USE DEF users, store
<1>1. RunIsOnCourse' /\ AuthProgress'
  BY DEF JInv, RunIsOnCourse, AuthProgress, Leaving, CleanCalls
<1>2. ASSUME NEW h \in Clusters, NEW d \in Clusters, Exists(h), Exists(d),
             objects[d].spec.host = h
      PROVE  Exists(h)'
  <2>1. d \in Dependents(h)
    BY <1>2 DEF Dependents
  <2> QED BY <1>2, <2>1 DEF Exists
<1>3. HostProgress'
  <2> SUFFICES ASSUME run # NoRun, run.op = "sync", run.cluster \notin hasty,
                      run.spec.type = "virtual", Head(run.calls) # "createSecret",
                      objects'[run.cluster].spec = run.spec
               PROVE  /\ Exists(run.spec.host)' /\ secret[run.spec.host] # "none"
                      /\ secret[run.cluster] # "none"
    BY DEF HostProgress
  <2>1. /\ run.cluster \in Clusters /\ run.spec.host \in Clusters /\ Exists(run.cluster)
        /\ objects[run.cluster].spec = run.spec
    BY SpecFacts DEF IInv, RunIsFinalized, Finalized, JInv, SpecsAreAllowed
  <2>2. /\ Exists(run.spec.host) /\ secret[run.spec.host] # "none"
        /\ secret[run.cluster] # "none"
    BY <2>1 DEF JInv, HostProgress
  <2> QED BY <1>2, <2>1, <2>2
<1>4. GuestsAreUnsynced'
  <2> SUFFICES ASSUME run # NoRun, run.op = "delete" \/ Leaving,
                      NEW d \in Clusters \ hasty, Guest(d)'
               PROVE  objects'[d].spec.host # run.cluster
    BY DEF GuestsAreUnsynced, Leaving
  <2>1. d # c /\ Guest(d)
    BY DEF Guest, InSync, Live
  <2> QED BY <2>1 DEF JInv, GuestsAreUnsynced
<1>5. SyncedIsKept'
  BY DEF JInv, SyncedIsKept, Live, Reachable
<1>6. HostOutlivesGuests'
  <2> SUFFICES ASSUME NEW d \in Clusters \ hasty, InSync(d)', objects'[d].spec.type = "virtual"
               PROVE  /\ objects'[objects'[d].spec.host].phase # "none"
                      /\ secret[objects'[d].spec.host] # "none"
    BY DEF HostOutlivesGuests, Exists
  <2>1. d # c /\ objects'[d] = objects[d]
    OBVIOUS
  <2>2. InSync(d) /\ objects[d].spec.type = "virtual" /\ Exists(d)
    BY <2>1 DEF InSync, Live, Exists
  <2>3. objects[d].spec.host \in Clusters
    BY <2>2, SpecFacts DEF JInv, SpecsAreAllowed
  <2>4. Exists(objects[d].spec.host) /\ secret[objects[d].spec.host] # "none"
    BY <2>2 DEF JInv, HostOutlivesGuests
  <2>5. objects'[objects[d].spec.host].phase # "none"
    BY <1>2, <2>2, <2>3, <2>4 DEF Exists
  <2> QED BY <2>1, <2>4, <2>5
<1> QED BY <1>1, <1>3, <1>4, <1>5, <1>6 DEF JInv

LEMMA CreateObjectJ ==
  ASSUME IInv, JInv, NEW c \in Clusters, CreateObject(c)
  PROVE  JInv'
<1> DEFINE o == [phase |-> "live", finalizer |-> FALSE, spec |-> git[c], last |-> NoSpec]
<1>1. /\ git[c] # NoSpec /\ ~Exists(c) /\ objects' = [objects EXCEPT ![c] = o]
      /\ UNCHANGED <<users, store, run>>
  BY DEF CreateObject
<1>2. objects \in [Clusters -> Object]
  BY DEF IInv, TypeOK
<1>3. /\ objects'[c] = o /\ o.phase = "live" /\ o.spec = git[c] /\ o.last = NoSpec
      /\ \A d \in Clusters \ {c} : objects'[d] = objects[d]
  BY <1>1, <1>2
<1> HIDE DEF o
<1>4. SpecsAreAllowed'
  BY <1>1, <1>3 DEF JInv, SpecsAreAllowed, users
<1>5. ChangesSettle'
  BY <1>1, <1>3 DEF JInv, ChangesSettle, Exists, users
<1>6. RunIsCurrent'
  <2>1. run # NoRun => run.cluster \in Clusters \ {c}
    BY <1>1 DEF IInv, RunIsFinalized, Finalized
  <2> QED BY <1>1, <1>3, <2>1 DEF JInv, RunIsCurrent, users
<1>7. run # NoRun => run.cluster # c
  BY <1>1 DEF IInv, RunIsFinalized, Finalized
<1>8. ~InSync(c)' /\ Exists(c)'
  BY <1>1, <1>3 DEF InSync, Exists
<1> QED BY <1>1, <1>3, <1>4, <1>5, <1>6, <1>7, <1>8, SpecFacts, ObjectStepJ

LEMMA UpdateObjectJ ==
  ASSUME IInv, JInv, NEW c \in Clusters, UpdateObject(c)
  PROVE  JInv'
<1> DEFINE o == [objects[c] EXCEPT !.spec = git[c]]
<1>1. /\ Live(c) /\ git[c] # NoSpec /\ git[c] # objects[c].spec
      /\ objects' = [objects EXCEPT ![c] = o]
      /\ UNCHANGED <<users, store, run>>
  BY DEF UpdateObject
<1>2. objects \in [Clusters -> Object]
  BY DEF IInv, TypeOK
<1>3. /\ objects'[c] = o
      /\ \A d \in Clusters \ {c} : objects'[d] = objects[d]
  BY <1>1, <1>2
<1>4. o.phase = "live" /\ o.spec = git[c] /\ o.last = objects[c].last
  BY <1>1, <1>2 DEF Live, Object
<1> HIDE DEF o
<1>5. SpecsAreAllowed'
  BY <1>1, <1>3, <1>4 DEF JInv, SpecsAreAllowed, users
<1>6. c \notin hasty => saving[c] = NoSpec /\ objects[c].spec = objects[c].last
  BY <1>1 DEF JInv, ChangesSettle, Live, Exists
<1>7. ChangesSettle'
  BY <1>1, <1>3, <1>4, <1>6 DEF JInv, ChangesSettle, Live, Exists, users
<1>8. RunIsCurrent'
  BY <1>1, <1>3, <1>4, <1>6 DEF JInv, RunIsCurrent, users, IInv, RunIsFinalized
<1>9. c \notin hasty => ~InSync(c)'
  BY <1>1, <1>3, <1>4, <1>6 DEF InSync
<1>10. Exists(c)'
  BY <1>3, <1>4 DEF Exists
<1>11. run # NoRun /\ run.op = "sync" /\ run.cluster = c /\ c \notin hasty
         /\ objects'[c].spec = run.spec => objects[c].spec = run.spec
  BY <1>6 DEF JInv, RunIsCurrent
<1>12. c \notin hasty =>
         /\ objects'[c].last.usage = "worker" => Reachable(c)
         /\ objects'[c].last.type = "virtual" => secret[c] # "none"
  BY <1>1, <1>3, <1>4, <1>6 DEF JInv, SyncedIsKept
<1> QED BY <1>1, <1>3, <1>5, <1>7, <1>8, <1>9, <1>10, <1>11, <1>12, ObjectStepJ

LEMMA PruneObjectJ ==
  ASSUME IInv, JInv, NEW c \in Clusters, PruneObject(c)
  PROVE  JInv'
<1>1. /\ Live(c) /\ git[c] = NoSpec /\ Dependents(c) = {}
      /\ UNCHANGED <<users, store, run>>
  BY DEF PruneObject
<1>2. objects \in [Clusters -> Object]
  BY DEF IInv, TypeOK
<1>3. CASE objects[c].finalizer
  <2> DEFINE o == [objects[c] EXCEPT !.phase = "deleting"]
  <2>1. objects' = [objects EXCEPT ![c] = o]
    BY <1>3 DEF PruneObject
  <2>2. /\ objects'[c] = o
        /\ \A d \in Clusters \ {c} : objects'[d] = objects[d]
    BY <1>2, <2>1
  <2>3. o.phase = "deleting" /\ o.spec = objects[c].spec /\ o.last = objects[c].last
    BY <1>2 DEF Object
  <2> HIDE DEF o
  <2>4. SpecsAreAllowed' /\ ChangesSettle' /\ RunIsCurrent'
    BY <1>1, <2>2, <2>3
    DEF JInv, SpecsAreAllowed, ChangesSettle, RunIsCurrent, IInv, RunIsFinalized, Exists,
        Live, users
  <2>5. ~InSync(c)' /\ ~Live(c)'
    BY <2>2, <2>3 DEF InSync, Live
  <2> QED BY <1>1, <2>2, <2>3, <2>4, <2>5, ObjectStepJ
<1>4. CASE ~objects[c].finalizer
  <2>1. objects' = [objects EXCEPT ![c] = NoObject]
    BY <1>4 DEF PruneObject
  <2>2. /\ objects'[c] = NoObject
        /\ \A d \in Clusters \ {c} : objects'[d] = objects[d]
    BY <1>2, <2>1
  <2>3. NoObject.phase = "none" /\ NoObject.spec = NoSpec /\ NoObject.last = NoSpec
    BY DEF NoObject
  <2>4. run # NoRun => run.cluster \in Clusters \ {c}
    BY <1>4 DEF IInv, RunIsFinalized, Finalized
  <2>5. SpecsAreAllowed' /\ ChangesSettle'
    BY <1>1, <2>2, <2>3, <2>4 DEF JInv, SpecsAreAllowed, ChangesSettle, Exists, users
  <2>6. RunIsCurrent'
    BY <1>1, <2>2, <2>4 DEF JInv, RunIsCurrent, users
  <2>7. ~InSync(c)' /\ ~Live(c)'
    BY <2>2, <2>3 DEF InSync, Live
  <2> QED BY <1>1, <2>2, <2>4, <2>5, <2>6, <2>7, ObjectStepJ
<1> QED BY <1>3, <1>4

\* Concatenations of sequences that are written out.
LEMMA SameCalls ==
  ASSUME NEW a \in Seq(Calls), NEW b \in Seq(Calls), Len(a) = Len(b),
         \A i \in 1 .. Len(a) : a[i] = b[i]
  PROVE  a = b
  BY SeqEqual, Zenon

WorkerCalls == <<"createAuth", "createRole", "grantTenant", "grantCluster">>
HostCalls == <<"disableAuth", "revokeCluster">>
VirtualSync == <<"createSecret", "checkSecret", "createAuth", "createRole", "grantTenant",
                 "grantCluster", "saveStatus">>
PhysicalSync == <<"checkSecret", "createAuth", "createRole", "grantTenant", "grantCluster",
                  "saveStatus">>
HostSync == <<"checkSecret", "disableAuth", "revokeCluster", "saveStatus">>
NewHostSync == <<"checkSecret", "saveStatus">>
LeaveSync == <<"deleteSecret", "saveStatus">>

LEMMA Concatenations ==
  /\ <<"deleteSecret">> \o <<>> \o <<"saveStatus">> = LeaveSync
  /\ <<"createSecret", "checkSecret">> \o WorkerCalls \o <<"saveStatus">> = VirtualSync
  /\ <<"checkSecret">> \o WorkerCalls \o <<"saveStatus">> = PhysicalSync
  /\ <<"checkSecret">> \o HostCalls \o <<"saveStatus">> = HostSync
  /\ <<"checkSecret">> \o <<>> \o <<"saveStatus">> = NewHostSync
<1>1. <<"deleteSecret">> \o <<>> \o <<"saveStatus">> = LeaveSync
  <2> DEFINE a == <<"deleteSecret">> \o <<>> \o <<"saveStatus">>
  <2>1. a \in Seq(Calls) /\ LeaveSync \in Seq(Calls)
    BY DEF LeaveSync, Calls
  <2>2. Len(a) = Len(LeaveSync)
    BY DEF LeaveSync
  <2>3. \A i \in 1 .. Len(a) : a[i] = LeaveSync[i]
    BY DEF LeaveSync
  <2> HIDE DEF a
  <2>4. a = LeaveSync
    BY <2>1, <2>2, <2>3, SameCalls
  <2> QED BY <2>4 DEF a
<1>2. <<"createSecret", "checkSecret">> \o WorkerCalls \o <<"saveStatus">> = VirtualSync
  <2> DEFINE a == <<"createSecret", "checkSecret">> \o WorkerCalls \o <<"saveStatus">>
  <2>1. a \in Seq(Calls) /\ VirtualSync \in Seq(Calls)
    BY DEF WorkerCalls, VirtualSync, Calls
  <2>2. Len(a) = Len(VirtualSync)
    BY DEF WorkerCalls, VirtualSync
  <2>3. \A i \in 1 .. Len(a) : a[i] = VirtualSync[i]
    BY DEF WorkerCalls, VirtualSync
  <2> HIDE DEF a
  <2>4. a = VirtualSync
    BY <2>1, <2>2, <2>3, SameCalls
  <2> QED BY <2>4 DEF a
<1>3. <<"checkSecret">> \o WorkerCalls \o <<"saveStatus">> = PhysicalSync
  <2> DEFINE a == <<"checkSecret">> \o WorkerCalls \o <<"saveStatus">>
  <2>1. a \in Seq(Calls) /\ PhysicalSync \in Seq(Calls)
    BY DEF WorkerCalls, PhysicalSync, Calls
  <2>2. Len(a) = Len(PhysicalSync)
    BY DEF WorkerCalls, PhysicalSync
  <2>3. \A i \in 1 .. Len(a) : a[i] = PhysicalSync[i]
    BY DEF WorkerCalls, PhysicalSync
  <2> HIDE DEF a
  <2>4. a = PhysicalSync
    BY <2>1, <2>2, <2>3, SameCalls
  <2> QED BY <2>4 DEF a
<1>4. <<"checkSecret">> \o HostCalls \o <<"saveStatus">> = HostSync
  <2> DEFINE a == <<"checkSecret">> \o HostCalls \o <<"saveStatus">>
  <2>1. a \in Seq(Calls) /\ HostSync \in Seq(Calls)
    BY DEF HostCalls, HostSync, Calls
  <2>2. Len(a) = Len(HostSync)
    BY DEF HostCalls, HostSync
  <2>3. \A i \in 1 .. Len(a) : a[i] = HostSync[i]
    BY DEF HostCalls, HostSync
  <2> HIDE DEF a
  <2>4. a = HostSync
    BY <2>1, <2>2, <2>3, SameCalls
  <2> QED BY <2>4 DEF a
<1>5. <<"checkSecret">> \o <<>> \o <<"saveStatus">> = NewHostSync
  <2> DEFINE a == <<"checkSecret">> \o <<>> \o <<"saveStatus">>
  <2>1. a \in Seq(Calls) /\ NewHostSync \in Seq(Calls)
    BY DEF NewHostSync, Calls
  <2>2. Len(a) = Len(NewHostSync)
    BY DEF NewHostSync
  <2>3. \A i \in 1 .. Len(a) : a[i] = NewHostSync[i]
    BY DEF NewHostSync
  <2> HIDE DEF a
  <2>4. a = NewHostSync
    BY <2>1, <2>2, <2>3, SameCalls
  <2> QED BY <2>4 DEF a
<1> QED BY <1>1, <1>2, <1>3, <1>4, <1>5

\* A sync has the calls of its course.
LEMMA SyncPlanCourse ==
  ASSUME NEW s \in Spec_, NEW last, s.type = "virtual" => s.usage = "worker"
  PROVE  LET plan == SyncPlan(s, last)
         IN /\ LeavesHost(s, last) => plan = LeaveSync
            /\ ~LeavesHost(s, last) /\ s.usage = "worker" =>
                 plan = IF s.type = "virtual" THEN VirtualSync ELSE PhysicalSync
            /\ ~LeavesHost(s, last) /\ s.usage = "host" => plan \in {HostSync, NewHostSync}
<1>1. CASE LeavesHost(s, last)
  <2>1. s.type # "virtual" /\ SyncSecret(s, last) = <<"deleteSecret">>
    BY <1>1 DEF SyncSecret, LeavesHost
  <2>2. SyncPlan(s, last) = <<"deleteSecret">> \o <<>> \o <<"saveStatus">>
    BY <1>1, <2>1 DEF SyncPlan
  <2> QED BY <1>1, <2>2, Concatenations
<1>2. CASE s.type = "virtual"
  <2>1. ~LeavesHost(s, last) /\ SyncSecret(s, last) = <<"createSecret", "checkSecret">>
    BY <1>2 DEF SyncSecret, LeavesHost
  <2>2. SyncPlan(s, last) = <<"createSecret", "checkSecret">> \o WorkerCalls \o <<"saveStatus">>
    BY <1>2, <2>1 DEF SyncPlan, SyncAuth, WorkerCalls
  <2> QED BY <1>2, <2>1, <2>2, Concatenations
<1>3. CASE s.type = "physical" /\ s.usage = "worker" /\ ~LeavesHost(s, last)
  <2>1. SyncPlan(s, last) = <<"checkSecret">> \o WorkerCalls \o <<"saveStatus">>
    BY <1>3 DEF SyncPlan, SyncAuth, SyncSecret, WorkerCalls
  <2> QED BY <1>3, <2>1, Concatenations
<1>4. CASE s.type = "physical" /\ s.usage = "host" /\ ~LeavesHost(s, last)
  <2>1. \/ SyncPlan(s, last) = <<"checkSecret">> \o HostCalls \o <<"saveStatus">>
        \/ SyncPlan(s, last) = <<"checkSecret">> \o <<>> \o <<"saveStatus">>
    BY <1>4, Zenon DEF SyncPlan, SyncAuth, SyncSecret, DeleteAuth, HostCalls
  <2> QED BY <1>4, <2>1, Concatenations
<1>5. s.type \in {"physical", "virtual"} /\ s.usage \in {"host", "worker"}
  BY DEF Spec_
<1> QED BY <1>1, <1>2, <1>3, <1>4, <1>5

LEMMA WorkerCourseCalls ==
  ASSUME NEW q \in WorkerCourse
  PROVE  /\ Head(q) \in {"createSecret", "checkSecret", "createAuth", "createRole",
                         "grantTenant", "grantCluster", "saveStatus"}
         /\ Head(q) = "saveStatus" => Tail(q) = <<>>
         /\ Head(q) # "saveStatus" => Tail(q) \in WorkerCourse
         /\ Head(q) = "createSecret" => Head(Tail(q)) = "checkSecret"
         /\ Head(q) = "checkSecret" => Head(Tail(q)) = "createAuth"
         /\ Head(q) = "createAuth" => Head(Tail(q)) = "createRole"
         /\ Head(q) = "createRole" => Head(Tail(q)) = "grantTenant"
         /\ Head(q) = "grantTenant" => Head(Tail(q)) = "grantCluster"
         /\ Head(q) = "grantCluster" => Head(Tail(q)) = "saveStatus"
<1>1. CASE q = <<"createSecret", "checkSecret", "createAuth", "createRole",
                   "grantTenant", "grantCluster", "saveStatus">>
  BY <1>1 DEF WorkerCourse
<1>2. CASE q = <<"checkSecret", "createAuth", "createRole",
                   "grantTenant", "grantCluster", "saveStatus">>
  BY <1>2 DEF WorkerCourse
<1>3. CASE q = <<"createAuth", "createRole",
                   "grantTenant", "grantCluster", "saveStatus">>
  BY <1>3 DEF WorkerCourse
<1>4. CASE q = <<"createRole", "grantTenant", "grantCluster", "saveStatus">>
  BY <1>4 DEF WorkerCourse
<1>5. CASE q = <<"grantTenant", "grantCluster", "saveStatus">>
  BY <1>5 DEF WorkerCourse
<1>6. CASE q = <<"grantCluster", "saveStatus">>
  BY <1>6 DEF WorkerCourse
<1>7. CASE q = <<"saveStatus">>
  BY <1>7 DEF WorkerCourse
<1> QED BY <1>1, <1>2, <1>3, <1>4, <1>5, <1>6, <1>7 DEF WorkerCourse

LEMMA HostCourseCalls ==
  ASSUME NEW q \in HostCourse
  PROVE  /\ Head(q) \in {"checkSecret", "disableAuth", "revokeCluster", "saveStatus"}
         /\ Head(q) = "saveStatus" => Tail(q) = <<>>
         /\ Head(q) # "saveStatus" => Tail(q) \in HostCourse
<1>1. CASE q = <<"checkSecret", "disableAuth", "revokeCluster", "saveStatus">>
  BY <1>1 DEF HostCourse
<1>2. CASE q = <<"disableAuth", "revokeCluster", "saveStatus">>
  BY <1>2 DEF HostCourse
<1>3. CASE q = <<"revokeCluster", "saveStatus">>
  BY <1>3 DEF HostCourse
<1>4. CASE q = <<"checkSecret", "saveStatus">>
  BY <1>4 DEF HostCourse
<1>5. CASE q = <<"saveStatus">>
  BY <1>5 DEF HostCourse
<1> QED BY <1>1, <1>2, <1>3, <1>4, <1>5 DEF HostCourse

LEMMA LeaveCourseCalls ==
  ASSUME NEW q \in LeaveCourse
  PROVE  /\ Head(q) \in {"deleteSecret", "saveStatus"}
         /\ Head(q) = "saveStatus" => Tail(q) = <<>>
         /\ Head(q) # "saveStatus" => Tail(q) \in LeaveCourse
<1>1. CASE q = <<"deleteSecret", "saveStatus">>
  BY <1>1 DEF LeaveCourse
<1>2. CASE q = <<"saveStatus">>
  BY <1>2 DEF LeaveCourse
<1> QED BY <1>1, <1>2 DEF LeaveCourse

\* A clean-up only takes away what the sync of this change was to make.
LEMMA CleanPlanCourse ==
  ASSUME run.last \in Spec_ \cup {NoSpec}, run.spec \in Spec_
  PROVE  CleanPlan(run.spec, run.last) \in Seq(CleanCalls)
<1>0. <<>> \in Seq(CleanCalls)
  BY SMT
<1>1. CASE run.last = NoSpec
  <2>1. CleanPlan(run.spec, run.last) = <<>> \o <<>>
    BY <1>1, Zenon DEF CleanPlan, CleanCluster, IsNewSecret, IsNewAuth
  <2> QED BY <1>0, <2>1, Concat
<1>2. CASE run.last # NoSpec
  <2>1. run.spec # NoSpec /\ run.last \in Spec_
    BY <1>2, NoSpecIsNone
  <2>2. /\ IsNewSecret(run.last, run.spec) <=> run.last.type = "virtual" /\ run.spec.type # "virtual"
        /\ IsNewAuth(run.last, run.spec) <=> run.last.usage = "worker" /\ run.spec.usage # "worker"
    BY <1>2, <2>1, Zenon DEF IsNewSecret, IsNewAuth
  <2>3. run.spec.type \in {"physical", "virtual"} /\ run.spec.usage \in {"host", "worker"}
    BY DEF Spec_
  <2>4. (IF IsNewSecret(run.last, run.spec) THEN DeleteSecret(run.last) ELSE <<>>)
          \in Seq(CleanCalls)
    <3>1. CASE IsNewSecret(run.last, run.spec)
      <4>1. "deleteSecret" \in CleanCalls
        BY <2>2, <2>3, <3>1 DEF CleanCalls, Leaving, LeavesHost
      <4>2. DeleteSecret(run.last) = <<"deleteSecret">>
        BY <1>2 DEF DeleteSecret
      <4>3. <<"deleteSecret">> \in Seq(CleanCalls)
        BY <4>1
      <4> QED BY <3>1, <4>2, <4>3
    <3> QED BY <1>0, <3>1
  <2>5. (IF IsNewAuth(run.last, run.spec) THEN DeleteAuth(run.last) ELSE <<>>)
          \in Seq(CleanCalls)
    <3>1. CASE IsNewAuth(run.last, run.spec)
      <4>1. "disableAuth" \in CleanCalls /\ "revokeCluster" \in CleanCalls
        BY <2>2, <2>3, <3>1 DEF CleanCalls
      <4>2. DeleteAuth(run.last) = <<"disableAuth", "revokeCluster">>
        BY <1>2 DEF DeleteAuth
      <4>3. <<"disableAuth", "revokeCluster">> \in Seq(CleanCalls)
        BY <4>1
      <4> QED BY <3>1, <4>2, <4>3
    <3> QED BY <1>0, <3>1
  <2> QED BY <2>4, <2>5, Concat DEF CleanPlan, CleanCluster
<1> QED BY <1>1, <1>2

LEMMA CourseStarts ==
  /\ LeaveSync \in LeaveCourse
  /\ VirtualSync \in WorkerCourse /\ Head(VirtualSync) = "createSecret"
  /\ PhysicalSync \in WorkerCourse /\ Head(PhysicalSync) = "checkSecret"
  /\ HostSync \in HostCourse /\ NewHostSync \in HostCourse
<1>1. LeaveSync \in LeaveCourse /\ VirtualSync \in WorkerCourse /\ PhysicalSync \in WorkerCourse
      /\ HostSync \in HostCourse /\ NewHostSync \in HostCourse
  BY Zenon DEF LeaveSync, LeaveCourse, VirtualSync, WorkerCourse, PhysicalSync,
               HostSync, NewHostSync, HostCourse
<1>2. Head(VirtualSync) = "createSecret" /\ Head(PhysicalSync) = "checkSecret"
  BY DEF VirtualSync, PhysicalSync
<1> QED BY <1>1, <1>2

\* A reconcile begins, or is refused: only its own object gets a finalizer.
LEMMA ObserveJ ==
  ASSUME IInv, JInv, UNCHANGED <<users, store>>,
         \A d \in Clusters : /\ objects'[d].phase = objects[d].phase
                             /\ objects'[d].spec = objects[d].spec
                             /\ objects'[d].last = objects[d].last,
         run' # NoRun => /\ run'.spec \in Specs[run'.cluster]
                         /\ run'.last \in Specs[run'.cluster] \cup {NoSpec},
         RunIsCurrent', RunIsOnCourse', AuthProgress', HostProgress', GuestsAreUnsynced'
  PROVE  JInv'
<1> USE DEF users, store
<1>1. SpecsAreAllowed'
  BY DEF JInv, SpecsAreAllowed
<1>2. ChangesSettle'
  BY DEF JInv, ChangesSettle, Exists
<1>3. SyncedIsKept'
  BY DEF JInv, SyncedIsKept, Live, Reachable
<1>4. HostOutlivesGuests'
  <2> SUFFICES ASSUME NEW d \in Clusters \ hasty, InSync(d)', objects'[d].spec.type = "virtual"
               PROVE  /\ objects'[objects'[d].spec.host].phase # "none"
                      /\ secret[objects'[d].spec.host] # "none"
    BY DEF HostOutlivesGuests, Exists
  <2>1. InSync(d) /\ objects[d].spec.type = "virtual" /\ Live(d)
    BY DEF InSync, Live
  <2>2. objects[d].spec.host \in Clusters
    BY <2>1, SpecFacts DEF JInv, SpecsAreAllowed
  <2>3. Exists(objects[d].spec.host) /\ secret[objects[d].spec.host] # "none"
    BY <2>1 DEF JInv, HostOutlivesGuests
  <2> QED BY <2>2, <2>3 DEF Exists
<1> QED BY <1>1, <1>2, <1>3, <1>4 DEF JInv

LEMMA ReconcileJ ==
  ASSUME IInv, JInv, NEW c \in Clusters, Reconcile(c)
  PROVE  JInv'
<1> DEFINE plan == SyncPlan(objects[c].spec, objects[c].last)
<1>1. /\ run = NoRun /\ Live(c) /\ UNCHANGED <<users, store>>
      /\ objects' = [objects EXCEPT ![c].finalizer = TRUE]
      /\ \/ UNCHANGED run
         \/ /\ objects[c].last # NoSpec => MayChange(c, objects[c].last, objects[c].spec)
            /\ Start(c, "sync", plan)
  BY DEF Reconcile
<1>2. /\ objects \in [Clusters -> Object] /\ objects[c].spec \in Spec_
      /\ objects[c].spec \in Specs[c] /\ objects[c].last \in Specs[c] \cup {NoSpec}
  BY <1>1, NoSpecIsNone
  DEF IInv, TypeOK, HistoryIsFinalized, Exists, Live, JInv, SpecsAreAllowed
<1>3. \A d \in Clusters : /\ objects'[d].phase = objects[d].phase
                          /\ objects'[d].spec = objects[d].spec
                          /\ objects'[d].last = objects[d].last
  BY <1>1, <1>2 DEF Object
<1>4. CASE UNCHANGED run
  <2>1. RunIsCurrent' /\ RunIsOnCourse' /\ AuthProgress' /\ HostProgress' /\ GuestsAreUnsynced'
    BY <1>1, <1>4 DEF RunIsCurrent, RunIsOnCourse, AuthProgress, HostProgress, GuestsAreUnsynced
  <2> QED BY <1>1, <1>3, <1>4, <2>1, ObserveJ
<1>5. CASE /\ objects[c].last # NoSpec => MayChange(c, objects[c].last, objects[c].spec)
           /\ Start(c, "sync", plan)
  <2>1. plan \in Seq(Calls) /\ plan # <<>>
    BY SyncPlanCalls DEF SyncCalls
  <2> HIDE DEF plan
  <2>2. /\ run' # NoRun /\ run'.cluster = c /\ run'.op = "sync" /\ run'.calls = plan
        /\ run'.spec = objects[c].spec /\ run'.last = objects[c].last
    BY <1>5, <2>1, StartFacts DEF IInv
  <2>3. Leaving' <=> LeavesHost(objects[c].spec, objects[c].last)
    BY <2>2 DEF Leaving
  <2>4. /\ Leaving' => plan \in LeaveCourse
        /\ ~Leaving' /\ objects[c].spec.usage = "worker" =>
             plan \in WorkerCourse /\ Head(plan) \in {"createSecret", "checkSecret"}
        /\ ~Leaving' /\ objects[c].spec.usage = "host" => plan \in HostCourse
        /\ objects[c].spec.type = "virtual" => Head(plan) = "createSecret"
    <3>1. objects[c].spec.type = "virtual" =>
            objects[c].spec.usage = "worker" /\ ~LeavesHost(objects[c].spec, objects[c].last)
      BY <1>2, SpecFacts DEF LeavesHost
    <3> QED BY <1>2, <2>3, <3>1, SyncPlanCourse, CourseStarts DEF plan
  <2>5. objects[c].spec.usage \in {"host", "worker"}
    BY <1>2 DEF Spec_
  <2>6. RunIsCurrent'
    BY <1>3, <2>2 DEF RunIsCurrent
  <2>7. RunIsOnCourse'
    BY <2>2, <2>4, <2>5 DEF RunIsOnCourse
  <2>8. AuthProgress'
    BY <2>2, <2>4 DEF AuthProgress
  <2>9. HostProgress'
    BY <2>2, <2>4 DEF HostProgress
  <2>10. GuestsAreUnsynced'
    <3>1. Leaving' => Dependents(c) = {}
      <4>1. Leaving' => objects[c].last # NoSpec /\ objects[c].last # objects[c].spec
        BY <2>3, SpecFacts DEF LeavesHost
      <4> QED BY <1>5, <4>1 DEF MayChange
    <3>2. ASSUME NEW d \in Clusters, Guest(d)', objects'[d].spec.host = c
          PROVE  d \in Dependents(c)
      BY <1>3, <3>2 DEF Dependents, Guest, InSync, Live, Exists
    <3> QED BY <1>1, <2>2, <3>1, <3>2 DEF GuestsAreUnsynced
  <2> QED BY <1>1, <1>2, <1>3, <2>2, <2>6, <2>7, <2>8, <2>9, <2>10, ObserveJ
<1> QED BY <1>1, <1>4, <1>5

LEMMA ReconcileDeletedJ ==
  ASSUME IInv, JInv, NEW c \in Clusters, ReconcileDeleted(c)
  PROVE  JInv'
<1> DEFINE plan == DeletePlan(objects[c].last)
<1>1. /\ Dependents(c) = {} /\ objects[c].phase = "deleting" /\ UNCHANGED <<users, objects, store>>
      /\ Start(c, "delete", plan)
  BY DEF ReconcileDeleted
<1>2. plan \in Seq(Calls) /\ plan # <<>>
  BY DeletePlanCalls, DeleteTailCalls
<1> HIDE DEF plan
<1>3. /\ run' # NoRun /\ run'.cluster = c /\ run'.op = "delete"
      /\ run'.spec = objects[c].spec /\ run'.last = objects[c].last
  BY <1>1, <1>2, StartFacts DEF IInv
<1>4. objects[c].spec \in Specs[c] /\ objects[c].last \in Specs[c] \cup {NoSpec}
  BY <1>1, NoSpecIsNone DEF IInv, HistoryIsFinalized, Exists, JInv, SpecsAreAllowed
<1>5. RunIsCurrent' /\ RunIsOnCourse' /\ AuthProgress' /\ HostProgress'
  BY <1>3 DEF RunIsCurrent, RunIsOnCourse, AuthProgress, HostProgress
<1>6. GuestsAreUnsynced'
  <2>1. ASSUME NEW d \in Clusters, Guest(d)', objects'[d].spec.host = c
        PROVE  d \in Dependents(c)
    BY <1>1, <2>1 DEF Dependents, Guest, InSync, Live, Exists
  <2> QED BY <1>1, <1>3, <2>1 DEF GuestsAreUnsynced
<1> QED BY <1>1, <1>3, <1>4, <1>5, <1>6, ObserveJ

\* What each call changes for its cluster.
LEMMA CallEffects ==
  ASSUME IInv, run # NoRun, NEW c, c = run.cluster, NEW call \in Calls, Effect(call)
  PROVE  /\ call \notin {"saveStatus", "removeFinalizer"} => objects' = objects
         /\ call = "saveStatus" => objects'[c].last = run.spec
         /\ call \notin {"createSecret", "deleteSecret"} => secret' = secret
         /\ call = "createSecret" => secret'[c] = "vcluster"
         /\ call \notin {"createAuth", "createRole", "grantTenant", "disableAuth"} =>
              auth' = auth
         /\ call = "createAuth" =>
              auth'[c].config = secret[c] /\ auth'[c].parts = auth[c].parts
         /\ call = "createRole" =>
              auth'[c].config = auth[c].config /\ auth'[c].parts = auth[c].parts \cup {"role"}
         /\ call = "grantTenant" =>
              auth'[c].config = auth[c].config /\ auth'[c].parts = auth[c].parts \cup {"tenant"}
         /\ call \notin {"grantCluster", "revokeCluster"} => access' = access
         /\ call = "grantCluster" => access' = access \cup {c}
<1>1. /\ c \in Clusters /\ secret \in [Clusters -> Kubeconfigs] /\ auth \in [Clusters -> Auth]
      /\ objects \in [Clusters -> Object]
  BY RunningFacts DEF IInv, TypeOK
<1>2. call \notin {"saveStatus", "removeFinalizer"} => objects' = objects
  BY DEF Effect, Calls
<1>3. call = "saveStatus" => objects'[c].last = run.spec
  BY <1>1 DEF Effect, Object
<1>4. /\ call \notin {"createSecret", "deleteSecret"} => secret' = secret
      /\ call = "createSecret" => secret'[c] = "vcluster"
  BY <1>1 DEF Effect, Calls
<1>5. call \notin {"createAuth", "createRole", "grantTenant", "disableAuth"} => auth' = auth
  BY DEF Effect, Calls
<1>6. call = "createAuth" => auth'[c].config = secret[c] /\ auth'[c].parts = auth[c].parts
  <2>1. call = "createAuth" => auth' = [auth EXCEPT ![c].config = secret[c]]
    BY DEF Effect
  <2> QED BY <1>1, <2>1 DEF Auth
<1>7. call = "createRole" =>
        auth'[c].config = auth[c].config /\ auth'[c].parts = auth[c].parts \cup {"role"}
  <2>1. call = "createRole" => auth' = [auth EXCEPT ![c].parts = @ \cup {"role"}]
    BY DEF Effect
  <2> QED BY <1>1, <2>1 DEF Auth
<1>8. call = "grantTenant" =>
        auth'[c].config = auth[c].config /\ auth'[c].parts = auth[c].parts \cup {"tenant"}
  <2>1. call = "grantTenant" => auth' = [auth EXCEPT ![c].parts = @ \cup {"tenant"}]
    BY DEF Effect
  <2> QED BY <1>1, <2>1 DEF Auth
<1>9. /\ call \notin {"grantCluster", "revokeCluster"} => access' = access
      /\ call = "grantCluster" => access' = access \cup {c}
  BY DEF Effect, Calls
<1> QED BY <1>2, <1>3, <1>4, <1>5, <1>6, <1>7, <1>8, <1>9

\* Which call is next tells what the reconcile is for.
LEMMA NextCallFacts ==
  ASSUME IInv, JInv, run # NoRun, NEW call, call = Head(run.calls)
  PROVE  /\ call = "saveStatus" => run.op = "sync" /\ Tail(run.calls) = <<>>
         /\ call = "removeFinalizer" => run.op = "delete" /\ Tail(run.calls) = <<>>
         /\ call = "deleteSecret" => run.op = "delete" \/ Leaving
         /\ call \in {"disableAuth", "revokeCluster"} =>
              run.op = "delete" \/ run.spec.usage = "host"
         /\ run.op = "sync" /\ ~Leaving /\ run.spec.usage = "worker" => run.calls \in WorkerCourse
         /\ run.op = "sync" =>
              \/ Leaving /\ run.calls \in LeaveCourse
              \/ ~Leaving /\ run.spec.usage = "worker" /\ run.calls \in WorkerCourse
              \/ ~Leaving /\ run.spec.usage = "host" /\ run.calls \in HostCourse
<1>1. /\ run.calls # <<>> /\ run.op \in {"sync", "clean", "delete"}
      /\ run.op = "delete" => run.calls \in DeleteTails
      /\ run.op # "delete" => call # "removeFinalizer"
  BY RunningFacts DEF IInv, RunIsFinalized
<1>2. CASE run.op = "delete"
  BY <1>1, <1>2, DeleteTailCalls
<1>3. CASE run.op = "clean"
  <2>1. call \in CleanCalls
    BY <1>1, <1>3, HeadTail DEF JInv, RunIsOnCourse
  <2> QED BY <1>1, <1>3, <2>1 DEF CleanCalls
<1>4. CASE run.op = "sync"
  <2>1. \/ Leaving /\ run.calls \in LeaveCourse
        \/ ~Leaving /\ run.spec.usage = "worker" /\ run.calls \in WorkerCourse
        \/ ~Leaving /\ run.spec.usage = "host" /\ run.calls \in HostCourse
    BY <1>4 DEF JInv, RunIsOnCourse
  <2> QED BY <1>1, <1>4, <2>1, WorkerCourseCalls, HostCourseCalls, LeaveCourseCalls
<1> QED BY <1>1, <1>2, <1>3, <1>4

\* A call has, or has not, taken effect, and the reconcile ends or goes on.
LEMMA WorkStepJ ==
  ASSUME IInv, JInv, run # NoRun, NEW call, call = Head(run.calls), UNCHANGED users,
         UNCHANGED <<store, objects>> \/ (Effect(call) /\ ~Refused(call)),
         call \in {"saveStatus", "removeFinalizer"} => run' = NoRun,
         run' # NoRun =>
           /\ run'.cluster = run.cluster /\ run'.spec = run.spec /\ run'.last = run.last
           /\ run'.op \in {"sync", "clean", "delete"}
           /\ run'.op = "delete" <=> run.op = "delete"
           /\ run'.op = "sync" => /\ run.op = "sync" /\ run'.calls = Tail(run.calls)
                                  /\ Effect(call) /\ ~Refused(call)
           /\ run'.op = "clean" => run'.calls \in Seq(CleanCalls)
  PROVE  JInv'
<1> USE DEF users, store
<1> DEFINE c == run.cluster
           host == run.spec.host
<1>1. /\ c \in Clusters /\ run.spec \in Spec_ /\ call \in Calls /\ Exists(c)
      /\ run.op # "delete" => call # "removeFinalizer" /\ run.op \in {"sync", "clean"}
      /\ run.op = "delete" => objects[c].phase = "deleting"
      /\ run.spec \in Specs[c] /\ run.last \in Specs[c] \cup {NoSpec}
  BY RunningFacts DEF IInv, RunIsFinalized, Finalized, JInv, SpecsAreAllowed
<1>2. /\ \A d \in Clusters \ {c} :
           /\ secret'[d] = secret[d] /\ auth'[d] = auth[d] /\ objects'[d] = objects[d]
           /\ d \in access' <=> d \in access
      /\ auth' \in [Clusters -> Auth]
  BY <1>1, EffectFacts DEF IInv, TypeOK
<1>3. \/ call = "removeFinalizer" /\ run.op = "delete" /\ objects'[c] = NoObject
      \/ /\ objects'[c].phase = objects[c].phase
         /\ objects'[c].spec = objects[c].spec
         /\ \/ objects'[c].last = objects[c].last
            \/ call = "saveStatus" /\ objects'[c].last = run.spec /\ run.op = "sync"
  <2>1. CASE UNCHANGED <<store, objects>>
    BY <2>1
  <2>2. CASE Effect(call) /\ call = "removeFinalizer"
    BY <1>1, <2>2, EffectFacts
  <2>3. CASE Effect(call) /\ call = "saveStatus"
    BY <1>1, <2>3, EffectFacts, CallEffects, NextCallFacts
  <2>4. CASE Effect(call) /\ call \notin {"saveStatus", "removeFinalizer"}
    BY <1>1, <2>4, CallEffects
  <2> QED BY <2>1, <2>2, <2>3, <2>4
<1>4. run' # NoRun => UNCHANGED objects
  BY <1>1, CallEffects
<1>5. NoObject.phase = "none" /\ NoObject.spec = NoSpec /\ NoObject.last = NoSpec
  BY DEF NoObject
<1>6. c \notin hasty /\ run.op # "delete" =>
        /\ objects[c].last = run.last
        /\ objects[c].spec # run.spec => objects[c].last = run.spec
  BY DEF JInv, RunIsCurrent
<1>7. run' # NoRun => (Leaving' <=> Leaving) /\ CleanCalls' = CleanCalls
  BY DEF Leaving, CleanCalls
<1> HIDE DEF c, host
<1>8. SpecsAreAllowed'
  <2>1. \A d \in Clusters : /\ objects'[d].spec \in Specs[d] \cup {NoSpec}
                            /\ objects'[d].last \in Specs[d] \cup {NoSpec}
    <3> TAKE d \in Clusters
    <3>1. CASE d # c
      BY <1>2, <3>1 DEF JInv, SpecsAreAllowed
    <3>2. CASE d = c
      BY <1>1, <1>3, <1>5, <3>2 DEF JInv, SpecsAreAllowed
    <3> QED BY <3>1, <3>2
  <2>2. run' # NoRun => /\ run'.spec \in Specs[run'.cluster]
                        /\ run'.last \in Specs[run'.cluster] \cup {NoSpec}
    BY <1>1 DEF c
  <2> QED BY <2>1, <2>2 DEF JInv, SpecsAreAllowed
<1>9. ChangesSettle'
  <2> SUFFICES ASSUME NEW d \in Clusters \ hasty
               PROVE  /\ saving[d] # NoSpec =>
                           IF objects'[d].phase # "none"
                           THEN git[d] = objects'[d].spec /\ objects'[d].last = git[d]
                           ELSE git[d] = NoSpec
                      /\ objects'[d].phase # "none" =>
                           objects'[d].spec \in {git[d], objects'[d].last}
    BY DEF ChangesSettle, Exists
  <2>1. CASE d # c
    BY <1>2, <2>1 DEF JInv, ChangesSettle, Exists
  <2>2. CASE d = c /\ run.op = "delete"
    <3>1. git[c] = NoSpec /\ saving[c] = NoSpec
      BY <1>1, <2>2 DEF IInv, SettledHasHistory, Exists
    <3>2. objects'[c] = NoObject \/ (objects'[c].spec = objects[c].spec
                                       /\ objects'[c].last = objects[c].last)
      BY <1>3, <2>2
    <3> QED BY <1>1, <1>5, <2>2, <3>1, <3>2 DEF JInv, ChangesSettle, Exists
  <2>3. CASE d = c /\ run.op # "delete"
    BY <1>1, <1>3, <1>6, <2>3 DEF JInv, ChangesSettle, Exists
  <2> QED BY <2>1, <2>2, <2>3
<1>10. RunIsCurrent'
  BY <1>4, <1>6 DEF RunIsCurrent, c
<1>11. RunIsOnCourse'
  <2>1. run' # NoRun /\ run'.op = "sync" =>
          \/ Leaving /\ run'.calls \in LeaveCourse
          \/ ~Leaving /\ run.spec.usage = "worker" /\ run'.calls \in WorkerCourse
          \/ ~Leaving /\ run.spec.usage = "host" /\ run'.calls \in HostCourse
    BY <1>1, NextCallFacts, WorkerCourseCalls, HostCourseCalls, LeaveCourseCalls
  <2> QED BY <1>7, <2>1 DEF RunIsOnCourse
<1>12. AuthProgress'
  <2> SUFFICES ASSUME run' # NoRun, run'.op = "sync", ~Leaving, run.spec.usage = "worker"
               PROVE  LET next == Head(run'.calls)
                      IN /\ next \in {"createRole", "grantTenant", "grantCluster", "saveStatus"} =>
                              auth'[c].config # "none"
                         /\ next \in {"grantTenant", "grantCluster", "saveStatus"} =>
                              "role" \in auth'[c].parts
                         /\ next \in {"grantCluster", "saveStatus"} => "tenant" \in auth'[c].parts
                         /\ next = "saveStatus" => c \in access'
    BY <1>7 DEF AuthProgress, c
  <2>1. run.op = "sync" /\ run'.calls = Tail(run.calls) /\ Effect(call) /\ ~Refused(call)
    OBVIOUS
  <2>2. run.calls \in WorkerCourse /\ call # "saveStatus"
    BY <2>1, NextCallFacts
  <2>3. call = "createAuth" => secret[c] # "none"
    BY <2>1 DEF Refused, c
  <2>4. /\ call \in {"createRole", "grantTenant", "grantCluster"} => auth[c].config # "none"
        /\ call \in {"grantTenant", "grantCluster"} => "role" \in auth[c].parts
        /\ call = "grantCluster" => "tenant" \in auth[c].parts
    BY <2>1 DEF JInv, AuthProgress, c
  <2>5. /\ call = "createAuth" => auth'[c].config = secret[c]
        /\ call = "createRole" =>
             auth'[c].config = auth[c].config /\ auth'[c].parts = auth[c].parts \cup {"role"}
        /\ call = "grantTenant" =>
             auth'[c].config = auth[c].config /\ auth'[c].parts = auth[c].parts \cup {"tenant"}
        /\ call = "grantCluster" => auth' = auth /\ access' = access \cup {c}
    BY <1>1, <2>1, CallEffects DEF c
  <2>6. /\ call \in {"createSecret", "checkSecret", "createAuth", "createRole",
                     "grantTenant", "grantCluster"}
        /\ call = "createSecret" => Head(run'.calls) = "checkSecret"
        /\ call = "checkSecret" => Head(run'.calls) = "createAuth"
        /\ call = "createAuth" => Head(run'.calls) = "createRole"
        /\ call = "createRole" => Head(run'.calls) = "grantTenant"
        /\ call = "grantTenant" => Head(run'.calls) = "grantCluster"
        /\ call = "grantCluster" => Head(run'.calls) = "saveStatus"
    BY <2>1, <2>2, WorkerCourseCalls
  <2> QED BY <2>3, <2>4, <2>5, <2>6
<1>13. HostProgress'
  <2> SUFFICES ASSUME run' # NoRun, run'.op = "sync", c \notin hasty,
                      run.spec.type = "virtual", Head(run'.calls) # "createSecret",
                      objects'[c].spec = run.spec
               PROVE  /\ objects'[host].phase # "none" /\ secret'[host] # "none"
                      /\ secret'[c] # "none"
    BY DEF HostProgress, c, host, Exists
  <2>1. run.op = "sync" /\ Effect(call) /\ ~Refused(call) /\ UNCHANGED objects
    BY <1>4
  <2>2. ~Leaving /\ host \in Clusters /\ host # c /\ run.spec.usage = "worker"
    BY <1>1, SpecFacts DEF Leaving, LeavesHost, host
  <2>3. run.calls \in WorkerCourse
    BY <2>1, <2>2, NextCallFacts
  <2>4. CASE call = "createSecret"
    <3>1. objects[host].phase # "none" /\ secret[host] # "none"
      BY <2>1, <2>4 DEF Refused, Exists, host
    <3>2. secret'[c] = "vcluster"
      BY <1>1, <2>1, <2>4, CallEffects DEF c
    <3> QED BY <1>2, <2>1, <2>2, <3>1, <3>2
  <2>5. CASE call # "createSecret"
    <3>1. Exists(host) /\ secret[host] # "none" /\ secret[c] # "none"
      BY <2>1, <2>5 DEF JInv, HostProgress, c, host
    <3>2. UNCHANGED secret
      BY <1>1, <2>1, <2>3, <2>5, CallEffects, WorkerCourseCalls
    <3> QED BY <2>1, <3>1, <3>2 DEF Exists
  <2> QED BY <2>4, <2>5
<1>14. GuestsAreUnsynced'
  BY <1>4, <1>7 DEF JInv, GuestsAreUnsynced, Guest, InSync, Live
<1>15. SyncedIsKept'
  <2> SUFFICES ASSUME NEW d \in Clusters \ hasty, objects'[d].phase = "live"
               PROVE  /\ objects'[d].last.usage = "worker" /\ objects'[d].spec.usage = "worker" =>
                           Reachable(d)'
                      /\ objects'[d].last.type = "virtual" /\ objects'[d].spec.type = "virtual" =>
                           secret'[d] # "none"
    BY DEF SyncedIsKept, Live
  <2>1. CASE d # c
    BY <1>2, <2>1 DEF JInv, SyncedIsKept, Live, Reachable
  <2>2. d = c => run.op # "delete" /\ call # "removeFinalizer" /\ objects[c].phase = "live"
    BY <1>1, <1>3, <1>5
  <2>3. d = c /\ objects[c].last.usage = "worker" /\ objects[c].spec.usage = "worker" =>
          Reachable(c) /\ run.spec.usage = "worker"
    BY <1>6, <2>2 DEF JInv, SyncedIsKept, Live
  <2>4. CASE d = c /\ call = "saveStatus"
    <3>1. /\ UNCHANGED <<secret, auth, access>>
          /\ objects'[c].spec = objects[c].spec
          /\ objects'[c].last \in {objects[c].last, run.spec}
      BY <1>1, <1>3, <2>2, <2>4, CallEffects DEF c
    <3>2. run.op = "sync"
      BY <2>4, NextCallFacts
    <3>3. run.spec.usage = "worker" /\ objects[c].spec.usage = "worker" => Reachable(c)
      <4>1. CASE Leaving
        <5>1. run.last.usage = "worker"
          BY <1>1, <4>1, SpecFacts DEF Leaving, LeavesHost
        <5> QED BY <1>6, <2>2, <2>3, <2>4, <5>1
      <4>2. CASE ~Leaving /\ run.spec.usage = "worker"
        <5>1. /\ auth[c].config # "none" /\ "role" \in auth[c].parts
              /\ "tenant" \in auth[c].parts /\ c \in access
          BY <2>4, <3>2, <4>2 DEF JInv, AuthProgress, c
        <5>2. auth[c].parts \subseteq {"role", "tenant"}
          BY <1>1 DEF IInv, TypeOK, Auth
        <5> QED BY <5>1, <5>2 DEF Reachable
      <4> QED BY <4>1, <4>2
    <3>4. run.spec.type = "virtual" /\ objects[c].spec.type = "virtual" => secret[c] # "none"
      <4>1. CASE objects[c].spec = run.spec
        BY <2>4, <3>2, <4>1 DEF JInv, HostProgress, c
      <4>2. CASE objects[c].spec # run.spec
        BY <1>6, <2>2, <2>4, <4>2 DEF JInv, SyncedIsKept, Live
      <4> QED BY <4>1, <4>2
    <3>5. /\ objects'[c].last.usage = "worker" /\ objects'[c].spec.usage = "worker" => Reachable(c)
          /\ objects'[c].last.type = "virtual" /\ objects'[c].spec.type = "virtual" =>
               secret'[c] # "none"
      BY <2>2, <2>4, <3>1, <3>3, <3>4 DEF JInv, SyncedIsKept, Live
    <3> QED BY <2>4, <3>1, <3>5 DEF Reachable
  <2>5. CASE d = c /\ call # "saveStatus"
    <3>1. objects'[c].spec = objects[c].spec /\ objects'[c].last = objects[c].last
      BY <1>3, <2>2, <2>5
    <3>2. Reachable(c) /\ run.spec.usage = "worker" =>
            /\ auth'[c].config # "none" /\ auth'[c].parts = {"role", "tenant"}
            /\ c \in access'
      <4> SUFFICES ASSUME Reachable(c), run.spec.usage = "worker", Effect(call), ~Refused(call)
                   PROVE  /\ auth'[c].config # "none" /\ auth'[c].parts = {"role", "tenant"}
                          /\ c \in access'
        BY DEF Reachable
      <4>1. call \notin {"disableAuth", "revokeCluster"}
        BY <2>2, <2>5, NextCallFacts
      <4>2. call = "createAuth" => secret[c] # "none"
        BY DEF Refused, c
      <4>3. access' = access \/ access' = access \cup {c}
        BY <1>1, <4>1, CallEffects DEF c
      <4>4. /\ call \notin {"createAuth", "createRole", "grantTenant"} => auth' = auth
            /\ call = "createAuth" =>
                 auth'[c].config = secret[c] /\ auth'[c].parts = auth[c].parts
            /\ call \in {"createRole", "grantTenant"} =>
                 /\ auth'[c].config = auth[c].config
                 /\ \/ auth'[c].parts = auth[c].parts \cup {"role"}
                    \/ auth'[c].parts = auth[c].parts \cup {"tenant"}
        BY <1>1, <4>1, CallEffects DEF c
      <4> QED BY <4>2, <4>3, <4>4 DEF Reachable
    <3>3. objects[c].last.type = "virtual" /\ objects[c].spec.type = "virtual" => secret'[c] # "none"
      <4> SUFFICES ASSUME objects[c].last.type = "virtual", objects[c].spec.type = "virtual"
                   PROVE  secret'[c] # "none"
        OBVIOUS
      <4>1. secret[c] # "none"
        BY <2>2, <2>5 DEF JInv, SyncedIsKept, Live
      <4>2. ~Leaving
        BY <1>6, <2>2, <2>5 DEF Leaving, LeavesHost
      <4>3. call # "deleteSecret"
        BY <2>2, <2>5, <4>2, NextCallFacts
      <4>4. secret' = secret \/ secret'[c] = "vcluster"
        BY <1>1, <4>3, CallEffects DEF c
      <4> QED BY <4>1, <4>4
    <3> QED BY <2>3, <2>5, <3>1, <3>2, <3>3 DEF Reachable
  <2> QED BY <2>1, <2>4, <2>5
<1>16. HostOutlivesGuests'
  <2> SUFFICES ASSUME NEW d \in Clusters \ hasty, NEW h, h = objects'[d].spec.host,
                      InSync(d)', objects'[d].spec.type = "virtual"
               PROVE  objects'[h].phase # "none" /\ secret'[h] # "none"
    BY DEF HostOutlivesGuests, Exists
  <2>1. /\ objects'[d].phase = "live" /\ objects'[d].last = objects'[d].spec
        /\ h \in Clusters /\ h # d
    BY <1>8, SpecFacts DEF SpecsAreAllowed, InSync, Live
  <2>2. CASE d # c
    <3>1. InSync(d) /\ Guest(d) /\ objects'[d] = objects[d]
      BY <1>2, <2>1, <2>2 DEF InSync, Live, Guest
    <3>2. Exists(h) /\ secret[h] # "none"
      BY <3>1 DEF JInv, HostOutlivesGuests, Guest
    <3>3. h = c => run.op # "delete" /\ ~Leaving
      BY <3>1 DEF JInv, GuestsAreUnsynced, c
    <3>4. h = c => call # "removeFinalizer" /\ call # "deleteSecret"
      BY <3>3, NextCallFacts
    <3>5. h = c => secret' = secret \/ secret'[c] = "vcluster"
      BY <1>1, <3>4, CallEffects DEF c
    <3> QED BY <1>2, <1>3, <2>1, <3>2, <3>4, <3>5 DEF Exists
  <2>3. CASE d = c
    <3>1. objects'[h] = objects[h] /\ secret'[h] = secret[h]
      BY <1>2, <2>1, <2>3
    <3>2. CASE InSync(c) /\ objects[c].spec.type = "virtual" /\ objects[c].spec.host = h
      BY <2>3, <3>1, <3>2 DEF JInv, HostOutlivesGuests, Exists
    <3>3. CASE call = "saveStatus" /\ run.op = "sync" /\ objects[c].spec = run.spec
               /\ objects[c].spec.type = "virtual" /\ objects[c].spec.host = h
      BY <2>3, <3>1, <3>3 DEF JInv, HostProgress, Exists, c
    <3> QED BY <1>3, <1>5, <2>1, <2>3, <3>2, <3>3 DEF InSync, Live
  <2> QED BY <2>2, <2>3
<1> QED BY <1>8, <1>9, <1>10, <1>11, <1>12, <1>13, <1>14, <1>15, <1>16 DEF JInv

LEMMA CallJ ==
  ASSUME IInv, JInv, Call
  PROVE  JInv'
<1>1. /\ run # NoRun /\ ~Refused(Head(run.calls)) /\ Effect(Head(run.calls))
      /\ run' = Continue(run, run.op, Tail(run.calls)) /\ UNCHANGED users
  BY DEF Call
<1>2. /\ run.op \in {"sync", "clean", "delete"} /\ Tail(run.calls) \in Seq(Calls)
      /\ run.op = "clean" => Tail(run.calls) \in Seq(CleanCalls)
  BY <1>1, RunningFacts, HeadTail DEF JInv, RunIsOnCourse
<1>3. /\ run' # NoRun => /\ run'.cluster = run.cluster /\ run'.spec = run.spec
                         /\ run'.last = run.last
                         /\ run'.op = run.op /\ run'.calls = Tail(run.calls)
      /\ Tail(run.calls) = <<>> => run' = NoRun
  BY <1>1, <1>2, ContinueFacts
<1>4. Head(run.calls) \in {"saveStatus", "removeFinalizer"} => run' = NoRun
  BY <1>1, <1>3, NextCallFacts
<1> QED BY <1>1, <1>2, <1>3, <1>4, WorkStepJ

LEMMA AfterErrorJ ==
  ASSUME IInv, JInv, run # NoRun, AfterError
  PROVE  /\ Head(run.calls) \in {"saveStatus", "removeFinalizer"} => run' = NoRun
         /\ run' # NoRun => /\ run'.cluster = run.cluster /\ run'.spec = run.spec
                            /\ run'.last = run.last /\ run.op # "delete" /\ run'.op = "clean"
                            /\ run'.calls \in Seq(CleanCalls)
<1>1. CASE run.op = "sync" /\ Head(run.calls) # "saveStatus"
  <2>1. /\ CleanPlan(run.spec, run.last) \in Seq(CleanCalls)
        /\ CleanPlan(run.spec, run.last) \in Seq(Calls)
    BY CleanPlanCourse, CleanPlanCalls, RunningFacts DEF SyncCalls
  <2>2. Head(run.calls) # "removeFinalizer"
    BY <1>1, RunningFacts
  <2> QED BY <1>1, <2>1, <2>2, ContinueFacts DEF AfterError
<1>2. CASE run.op = "clean"
  <2>1. Tail(run.calls) \in Seq(CleanCalls) /\ Tail(run.calls) \in Seq(Calls)
    BY <1>2, RunningFacts, HeadTail DEF JInv, RunIsOnCourse
  <2>2. Head(run.calls) \notin {"saveStatus", "removeFinalizer"}
    BY <1>2, NextCallFacts
  <2> QED BY <1>2, <2>1, <2>2, ContinueFacts DEF AfterError
<1>3. CASE run.op # "clean" /\ ~(run.op = "sync" /\ Head(run.calls) # "saveStatus")
  BY <1>3 DEF AfterError
<1> QED BY <1>1, <1>2, <1>3

LEMMA ErrorJ ==
  ASSUME IInv, JInv, CallRefused \/ CallFails
  PROVE  JInv'
<1>1. /\ run # NoRun /\ AfterError /\ UNCHANGED users
      /\ UNCHANGED <<store, objects>> \/ (Effect(Head(run.calls)) /\ ~Refused(Head(run.calls)))
  BY DEF CallRefused, CallFails
<1> QED BY <1>1, AfterErrorJ, WorkStepJ

LEMMA CrashJ ==
  ASSUME IInv, JInv, Crash
  PROVE  JInv'
  BY WorkStepJ DEF Crash

-----------------------------------------------------------------------------
(* Theorems. *)

LEMMA StepIInv == IInv /\ [Next]_vars => IInv'
<1> SUFFICES ASSUME IInv, [Next]_vars PROVE IInv'
  OBVIOUS
<1>1. ASSUME NEW c \in Clusters, NEW s \in Specs[c], SaveKubeconfig(c, s) \/ PushVirtual(c, s)
      PROVE  IInv'
  BY <1>1, SaveKubeconfigIInv, PushVirtualIInv
<1>2. ASSUME NEW c \in Clusters, PushCluster(c) \/ GiveUp(c) \/ RemoveCluster(c)
      PROVE  IInv'
  BY <1>2, PushClusterIInv, GiveUpIInv, RemoveClusterIInv
<1>3. ASSUME NEW c \in Clusters, Apply(c)
      PROVE  IInv'
  BY <1>3, CreateObjectIInv, UpdateObjectIInv, PruneObjectIInv DEF Apply
<1>4. ASSUME NEW c \in Clusters, Observe(c)
      PROVE  IInv'
  BY <1>4, ReconcileIInv, ReconcileDeletedIInv DEF Observe
<1>5. CASE Proceed
  BY <1>5, CallIInv, CallRefusedIInv DEF Proceed
<1>6. CASE CallFails \/ Crash
  BY <1>6, CallFailsIInv, CrashIInv
<1>7. CASE UNCHANGED vars
  BY <1>7 DEF vars, users, store, IInv, TypeOK, HistoryIsFinalized, RunIsFinalized,
              SettledHasHistory, DeletionProgress, NothingLeftBehind, Finalized, Exists,
              Gone, Unreachable
<1> QED BY <1>1, <1>2, <1>3, <1>4, <1>5, <1>6, <1>7 DEF Next

\* IInv is an invariant of the specification, whatever its constants are.
THEOREM Inductive == Spec => []IInv
<1> QED BY InitIInv, StepIInv, PTL DEF Spec

\* Every variable keeps its type, a reconcile in progress has calls left, and an
\* object that is being deleted has its finalizer.
THEOREM TypeCorrect == Spec => []TypeOK
<1>1. IInv => TypeOK
  BY DEF IInv
<1> QED BY <1>1, Inductive, PTL

\* A cluster that is gone has left nothing in the secret store, unless it was
\* changed before it had settled: the controller's clean-up by the history.
THEOREM DeletionIsClean == Spec => []NothingLeftBehind
<1>1. IInv => NothingLeftBehind
  BY DEF IInv
<1> QED BY <1>1, Inductive, PTL

LEMMA StepJInv == IInv /\ JInv /\ [Next]_vars => JInv'
<1> SUFFICES ASSUME IInv, JInv, [Next]_vars PROVE JInv'
  OBVIOUS
<1>1. ASSUME NEW c \in Clusters, NEW s \in Specs[c], SaveKubeconfig(c, s) \/ PushVirtual(c, s)
      PROVE  JInv'
  BY <1>1, SaveKubeconfigJ, PushVirtualJ
<1>2. ASSUME NEW c \in Clusters, PushCluster(c) \/ GiveUp(c) \/ RemoveCluster(c)
      PROVE  JInv'
  BY <1>2, PushClusterJ, GiveUpJ, RemoveClusterJ
<1>3. ASSUME NEW c \in Clusters, Apply(c)
      PROVE  JInv'
  BY <1>3, CreateObjectJ, UpdateObjectJ, PruneObjectJ DEF Apply
<1>4. ASSUME NEW c \in Clusters, Observe(c)
      PROVE  JInv'
  BY <1>4, ReconcileJ, ReconcileDeletedJ DEF Observe
<1>5. CASE Proceed \/ CallFails \/ Crash
  BY <1>5, CallJ, ErrorJ, CrashJ DEF Proceed
<1>6. CASE UNCHANGED vars
  <2>1. UNCHANGED <<users, store, objects, run>>
    BY <1>6 DEF vars
  <2>2. RunIsCurrent' /\ RunIsOnCourse' /\ AuthProgress' /\ HostProgress' /\ GuestsAreUnsynced'
    BY <2>1 DEF JInv, RunIsCurrent, RunIsOnCourse, AuthProgress, HostProgress,
                GuestsAreUnsynced, Leaving, CleanCalls, Guest, InSync, Live, Exists, users, store
  <2> QED BY <2>1, <2>2, ObserveJ DEF JInv, SpecsAreAllowed
<1> QED BY <1>1, <1>2, <1>3, <1>4, <1>5, <1>6 DEF Next

THEOREM InductiveJ == Spec => []JInv
<1> QED BY InitJInv, StepJInv, Inductive, PTL DEF Spec

\* A worker cluster whose definition has been synced has its auth mount with all
\* its grants, whatever sync or clean-up is on the way and wherever it fails.
THEOREM SyncedWorkersStayReachable == Spec => []WorkerStaysReachable
<1>1. JInv => WorkerStaysReachable
  <2> SUFFICES ASSUME JInv, NEW c \in Clusters \ hasty, InSync(c), objects[c].spec.usage = "worker"
               PROVE  Reachable(c) /\ (objects[c].spec.type = "virtual" => secret[c] # "none")
    BY DEF WorkerStaysReachable
  <2> QED BY DEF JInv, SyncedIsKept, InSync
<1> QED BY <1>1, InductiveJ, PTL

\* A virtual cluster that has been synced has its host with a kubeconfig: no
\* deletion or change of the host gets past the dependents it has looked for.
THEOREM SyncedGuestsHaveTheirHost == Spec => []HostOutlivesGuests
<1>1. JInv => HostOutlivesGuests
  BY DEF JInv
<1> QED BY <1>1, InductiveJ, PTL

=============================================================================
