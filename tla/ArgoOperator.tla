---------------------------- MODULE ArgoOperator ----------------------------
(***************************************************************************)
(* The argo-operator (src/app/argo-operator): two controllers, one for     *)
(* CodeRepos and one for Clusters, copy a secret of the vault into an      *)
(* entry of Argo CD.  The entry is found by the address (the repository's  *)
(* URL, the cluster's API server); the operator remembers in the object's  *)
(* status the address and the version of the secret it wrote last, and     *)
(* compares them with what it finds on every pass.                         *)
(*                                                                         *)
(* One object of one kind is followed.  Its spec, its secret and the keys  *)
(* that the repository or the cluster accepts change under the worker; the *)
(* worker's calls fail, and the operator is killed, between any two steps. *)
(* Argo CD tells a connection that fails from one that works only for an   *)
(* entry it watches (a cluster that no application uses is not); of any    *)
(* other it says "Unknown", and the operator takes that for a valid one.   *)
(***************************************************************************)
EXTENDS Naturals, FiniteSets

CONSTANTS
    Addrs,       \* addresses an object can name
    MaxVersion,  \* versions the secret reaches in the vault
    MaxEdits,    \* bound: creations, moves and deletions of the object
    MaxAborts    \* bound: failed validations and calls, crashes, entries
                 \* that Argo CD stops watching

NoAddr == "none"

ASSUME ArgoAssumption == /\ NoAddr \notin Addrs
                         /\ MaxVersion \in Nat \ {0}
                         /\ MaxEdits \in Nat
                         /\ MaxAborts \in Nat

VARIABLES
    kind,       \* the controller that is followed
    object,     \* the resource: phase, address, finalizer and status
    vault,      \* newest version of the secret
    accepted,   \* versions of the key that the other side accepts
    entry,      \* Argo CD: version of the key under each address, 0 for none
    watched,    \* Argo CD knows the state of the connection to the object's
                \* address; otherwise it reports "Unknown"
    worker,     \* the reconciliation in progress
    queued,     \* the object is in the controller's work queue
    edits, aborts,
    unfollowed, \* history: addresses whose entry no status accounts for
    doubtful    \* history: the status vouches for a key that was not written

argoVars == <<kind, object, vault, accepted, entry, watched, worker, queued,
              edits, aborts, unfollowed, doubtful>>

Unsynced == [addr |-> NoAddr, id |-> 0]
Absent == [phase |-> "absent", addr |-> NoAddr, held |-> FALSE,
           status |-> Unsynced]
Idle == [pc |-> "idle", snap |-> Absent, seen |-> 0, key |-> 0, id |-> 0,
         kept |-> FALSE]

Statuses == [addr: Addrs \cup {NoAddr}, id: 0 .. MaxVersion]
Objects == [phase: {"absent", "live", "deleting"}, addr: Addrs \cup {NoAddr},
            held: BOOLEAN, status: Statuses]
Workers ==
    [pc: {"idle", "data", "version", "drop", "save", "record", "remove",
          "release"},
     snap: Objects, seen: 0 .. MaxEdits, key: 0 .. MaxVersion,
     id: 0 .. MaxVersion, kept: BOOLEAN]

ArgoTypeOK ==
    /\ kind \in {"coderepo", "cluster"}
    /\ object \in Objects
    /\ vault \in 1 .. MaxVersion
    /\ accepted \subseteq 1 .. MaxVersion
    /\ entry \in [Addrs -> 0 .. MaxVersion]
    /\ watched \in BOOLEAN
    /\ worker \in Workers
    /\ queued \in BOOLEAN
    /\ edits \in 0 .. MaxEdits
    /\ aborts \in 0 .. MaxAborts
    /\ unfollowed \subseteq Addrs \cup {NoAddr}
    /\ doubtful \in BOOLEAN

ArgoInit ==
    /\ kind \in {"coderepo", "cluster"}
    /\ object = Absent
    /\ vault = 1
    /\ accepted = {1}
    /\ entry = [a \in Addrs |-> 0]
    /\ watched = FALSE
    /\ worker = Idle
    /\ queued = FALSE
    /\ edits = 0 /\ aborts = 0
    /\ unfollowed = {}
    /\ doubtful = FALSE

-----------------------------------------------------------------------------
(***************************************************************************)
(* The world around the operator.  The api-server adds a key to GitLab     *)
(* before it stores the secret, so the newest version is accepted.         *)
(***************************************************************************)
argoOnly == <<entry, worker, unfollowed, doubtful, kind>>

\* A change of the spec or a deletion changes the generation, so the event
\* passes the controllers' filter.
Edit(o) ==
    /\ edits < MaxEdits
    /\ edits' = edits + 1
    /\ object' = o
    /\ queued' = TRUE
    /\ UNCHANGED <<vault, accepted, aborts, argoOnly>>

\* Argo CD may watch the entry of a newly named address or not.
CreateObject(a) ==
    /\ object.phase = "absent"
    /\ Edit([Absent EXCEPT !.phase = "live", !.addr = a])
    /\ watched' \in BOOLEAN
MoveObject(a) ==
    /\ object.phase = "live" /\ object.addr # a
    /\ Edit([object EXCEPT !.addr = a])
    /\ watched' \in BOOLEAN
DeleteObject ==
    /\ object.phase = "live"
    /\ UNCHANGED watched
    /\ Edit(IF object.held THEN [object EXCEPT !.phase = "deleting"] ELSE Absent)

RotateSecret ==
    /\ vault < MaxVersion
    /\ vault' = vault + 1
    /\ accepted' = accepted \cup {vault + 1}
    /\ UNCHANGED <<object, watched, queued, edits, aborts, argoOnly>>

RevokeKey ==
    /\ \E v \in accepted \ {vault} : accepted' = accepted \ {v}
    /\ UNCHANGED <<object, vault, watched, queued, edits, aborts, argoOnly>>

\* A first application uses the entry, or the last one is taken away.
WatchEntry ==
    /\ object.phase = "live"
    /\ \/ ~watched /\ UNCHANGED aborts
       \/ watched /\ aborts < MaxAborts /\ aborts' = aborts + 1
    /\ watched' = ~watched
    /\ UNCHANGED <<object, vault, accepted, queued, edits, argoOnly>>

ArgoWorld ==
    \/ \E a \in Addrs : CreateObject(a) \/ MoveObject(a)
    \/ DeleteObject
    \/ RotateSecret
    \/ RevokeKey
    \/ WatchEntry

-----------------------------------------------------------------------------
(***************************************************************************)
(* A reconciliation.                                                       *)
(***************************************************************************)
world == <<kind, vault, accepted, watched, edits>>

\* The status names another address than the spec: isCodeRepoChange compares
\* the recorded URL, isClusterChange the recorded spec.
Moved(o) == o.status # Unsynced /\ o.status.addr # o.addr

\* isSecretChange: only when a version has been recorded.
SecretChanged(o, id) == o.status # Unsynced /\ o.status.id # id

\* getClusterInfo, getRepository: the connection counts as invalid unless its
\* status is "Successful" or "Unknown".
Invalid(a) == watched /\ entry[a] \notin accepted

\* Mutants: a version is not compared, or the connection is not looked at.
MustWriteUnlessValid(o, id) == entry[o.addr] = 0 \/ Invalid(o.addr)
MustWriteUnlessThere(o, id) ==
    entry[o.addr] = 0 \/ (~Moved(o) /\ SecretChanged(o, id))

\* saveCodeRepo, saveChangesCluster, saveClusterFromSecretChange and
\* regularSaveCluster write the same entries: a missing one, one whose
\* connection is invalid, and, unless the address moved, any one whose secret
\* has another version.
MustWrite(o, id) ==
    \/ entry[o.addr] = 0
    \/ Invalid(o.addr)
    \/ ~Moved(o) /\ SecretChanged(o, id)

\* Reconcile reads the object and makes sure of its finalizer.  One that fails
\* its validation is tried again later, and has got no finalizer from this
\* pass; the bound says that it passes in the end.
StartReconcile ==
    /\ worker.pc = "idle" /\ queued
    /\ \/ /\ object.phase = "live"
          /\ object' = [object EXCEPT !.held = TRUE]
          /\ worker' = [Idle EXCEPT !.pc = "data", !.snap = object',
                                    !.seen = edits]
          /\ queued' = FALSE /\ UNCHANGED aborts
       \/ /\ object.phase = "live"
          /\ aborts < MaxAborts /\ aborts' = aborts + 1
          /\ UNCHANGED <<object, worker, queued>>
       \/ /\ object.phase = "deleting"
          /\ worker' = [Idle EXCEPT !.pc = "remove", !.snap = object,
                                    !.seen = edits]
          /\ queued' = FALSE /\ UNCHANGED <<object, aborts>>
       \/ /\ object.phase = "absent"
          /\ queued' = FALSE /\ UNCHANGED <<object, worker, aborts>>
    /\ UNCHANGED <<world, entry, unfollowed, doubtful>>

\* GetSecret reads the newest data of the secret ...
ReadData ==
    /\ worker.pc = "data"
    /\ worker' = [worker EXCEPT !.pc = "version", !.key = vault]
    /\ UNCHANGED <<world, object, entry, queued, aborts, unfollowed, doubtful>>

\* ... and then the list of its versions, whose last one becomes the ID.
ReadVersion ==
    /\ worker.pc = "version"
    /\ worker' = [worker EXCEPT
          !.id = vault,
          !.pc = IF kind = "coderepo" /\ Moved(worker.snap) THEN "drop"
                                                            ELSE "save"]
    /\ UNCHANGED <<world, object, entry, queued, aborts, unfollowed, doubtful>>

\* The entry of the recorded address goes: before the new one is written for
\* a code repository, after it for a cluster.  A missing entry is no error.
DropOldEntry ==
    /\ worker.pc = "drop"
    /\ entry' = [entry EXCEPT ![worker.snap.status.addr] = 0]
    /\ worker' = [worker EXCEPT !.pc = IF kind = "coderepo" THEN "save"
                                                            ELSE "record"]
    /\ UNCHANGED <<world, object, queued, aborts, unfollowed, doubtful>>

\* A pass that found nothing to write ends; the controllers ask to be called
\* again after the reconcile period.
FinishPass == worker' = Idle /\ queued' = TRUE

WriteEntry ==
    /\ worker.pc = "save"
    /\ \/ MustWrite(worker.snap, worker.id)
       \/ kind = "cluster"   \* any error of the query leads to an upsert
    /\ entry' = [entry EXCEPT ![worker.snap.addr] = worker.key]
    /\ unfollowed' = unfollowed \cup {worker.snap.addr}
    /\ worker' = [worker EXCEPT
          !.pc = IF kind = "cluster" /\ Moved(worker.snap) THEN "drop"
                                                           ELSE "record"]
    /\ UNCHANGED <<world, object, queued, aborts, doubtful>>

KeepEntry ==
    /\ worker.pc = "save"
    /\ ~MustWrite(worker.snap, worker.id)
    /\ IF kind = "cluster" /\ Moved(worker.snap)
       THEN /\ worker' = [worker EXCEPT !.pc = "drop", !.kept = TRUE]
            /\ UNCHANGED queued
       ELSE FinishPass
    /\ UNCHANGED <<world, object, entry, aborts, unfollowed, doubtful>>

\* What was written is recorded.  The CodeRepo controller updates the object
\* it read, so a change made since is a conflict; the Cluster controller reads
\* the object again.
CanRecord ==
    IF kind = "coderepo" THEN edits = worker.seen ELSE object.phase # "absent"
RecordSync ==
    /\ worker.pc = "record"
    /\ IF CanRecord
       THEN /\ object' = [object EXCEPT !.status = [addr |-> worker.snap.addr,
                                                    id |-> worker.id]]
            /\ unfollowed' = unfollowed \ {worker.snap.addr}
            /\ doubtful' = (worker.key # worker.id \/ worker.kept)
       ELSE UNCHANGED <<object, unfollowed, doubtful>>
    /\ FinishPass
    /\ UNCHANGED <<world, entry, aborts>>

\* Mutants: the entry of the spec's address is removed for both kinds; an entry
\* that is gone already makes the deletion fail.
RemoveEntryOfSpec ==
    /\ worker.pc = "remove"
    /\ entry' = [entry EXCEPT ![worker.snap.addr] = 0]
    /\ worker' = [worker EXCEPT !.pc = "release"]
    /\ UNCHANGED <<world, object, queued, aborts, unfollowed, doubtful>>
RemoveEntryThere ==
    /\ worker.pc = "remove"
    /\ IF \E a \in Addrs : a = worker.snap.status.addr /\ entry[a] # 0
       THEN /\ entry' = [entry EXCEPT ![worker.snap.status.addr] = 0]
            /\ worker' = [worker EXCEPT !.pc = "release"]
            /\ UNCHANGED queued
       ELSE FinishPass /\ UNCHANGED entry
    /\ UNCHANGED <<world, object, aborts, unfollowed, doubtful>>

\* The deletion removes the entry of the recorded URL, if there is one, or of
\* the cluster's present API server ...
RemoveEntry ==
    /\ worker.pc = "remove"
    /\ LET a == IF kind = "coderepo" THEN worker.snap.status.addr
                                     ELSE worker.snap.addr
       IN entry' = [b \in Addrs |-> IF b = a THEN 0 ELSE entry[b]]
    /\ worker' = [worker EXCEPT !.pc = "release"]
    /\ UNCHANGED <<world, object, queued, aborts, unfollowed, doubtful>>

\* ... and then the finalizer, with which the object goes.
ReleaseObject ==
    /\ worker.pc = "release"
    /\ object' = Absent
    /\ worker' = Idle
    /\ doubtful' = FALSE
    /\ unfollowed' = unfollowed \cup
          (IF kind = "cluster" /\ Moved(worker.snap)
           THEN {worker.snap.status.addr} ELSE {})
    /\ UNCHANGED <<world, entry, queued, aborts>>

\* A failed call or a crash ends the pass; the object is tried again.
AbortPass ==
    /\ worker.pc # "idle"
    /\ aborts < MaxAborts
    /\ aborts' = aborts + 1
    /\ FinishPass
    /\ UNCHANGED <<world, object, entry, unfollowed, doubtful>>

\* DeleteFinalizerAndUpdateStatus drops the error of the Update when the
\* status can be written: the object leaves the queue with its finalizer.
SwallowError ==
    /\ worker.pc = "release" /\ kind = "coderepo"
    /\ aborts < MaxAborts
    /\ aborts' = aborts + 1
    /\ worker' = Idle
    /\ UNCHANGED <<world, object, entry, queued, unfollowed, doubtful>>

\* A restart of the idle operator queues every object again, also one whose
\* error was swallowed.
RestartOperator ==
    /\ worker.pc = "idle" /\ object.phase # "absent" /\ ~queued
    /\ queued' = TRUE
    /\ UNCHANGED <<world, object, entry, worker, aborts, unfollowed, doubtful>>

PassStep ==
    \/ StartReconcile \/ ReadData \/ ReadVersion \/ DropOldEntry
    \/ WriteEntry \/ KeepEntry \/ RecordSync
    \/ RemoveEntry \/ ReleaseObject

ArgoNext == ArgoWorld \/ PassStep \/ AbortPass \/ SwallowError \/ RestartOperator
ArgoSpec == ArgoInit /\ [][ArgoNext]_argoVars /\ WF_argoVars(PassStep)

-----------------------------------------------------------------------------
\* Once the object is gone Argo CD holds no entry of it, with two exceptions:
\* an entry that was written and could not be recorded, and the entry of a
\* cluster that moved and was deleted before the move was synchronised.  The
\* deletion of a CodeRepo follows its status and that of a Cluster its spec
\* (coderepo_controller.go:80, cluster_controller.go:96); neither both.
NothingLeftInArgo ==
    object.phase = "absent" =>
        \A a \in Addrs : entry[a] # 0 => a \in unfollowed

\* However spec, secret and keys changed, and whatever calls failed: a live
\* object ends with an entry whose key the other side accepts.  The exceptions
\* need a connection that Argo CD reports as "Unknown", which the operator
\* takes for valid (cluster.go:57, repository.go:36), so that only the versions
\* could tell, and a status that keeps it from comparing them, or lets the
\* comparison miss a key that was never written.
ServedInArgo ==
    <>[](object.phase = "live" =>
            \/ \E v \in accepted : entry[object.addr] = v
            \/ ~watched /\ (object.status = Unsynced \/ Moved(object) \/ doubtful))

\* The entry of a live object ends with the newest key.  The exceptions are
\* the states in which nobody compares versions as long as the old key works:
\* nothing recorded, another address recorded, or a version recorded for data
\* read before it (GetSecret), or for an entry kept (saveChangesCluster).
NewestKeyArrives ==
    <>[](object.phase = "live" =>
            \/ entry[object.addr] = vault
            \/ object.status = Unsynced \/ Moved(object)
            \/ doubtful)

\* A deletion comes to its end, also when the entry is already gone, unless
\* the error of removing the finalizer was swallowed (finalizer.go:53) and the
\* operator is not restarted.  (An object that is being deleted stays so until
\* it is gone: one that never ends would not be out of this phase again.)
Stuck == object.phase = "deleting" /\ worker.pc = "idle" /\ ~queued
DeletionEnds == []<>(object.phase # "deleting" \/ Stuck)
=============================================================================
