--------------------------- MODULE PlatformProofs ---------------------------
(***************************************************************************)
(* Theorems about the Platform and its parts, for any values of the        *)
(* constants.  Those of the api-server's keys and grants have a module of  *)
(* their own (KeyProofs); here are those of the argo-operator and of the   *)
(* base-operator, and what follows for the platform: its steps are steps   *)
(* of one part each (StepsAreOfParts), so the invariants of the parts      *)
(* are invariants of the platform.                                         *)
(***************************************************************************)
EXTENDS Platform, KeyProofs, SequenceTheorems, TLAPS

-----------------------------------------------------------------------------
(***************************************************************************)
(* The argo-operator.  Every entry of Argo CD that is not counted as       *)
(* unfollowed lies under the address in the object's status                *)
(* (EntriesAreFollowed).  A pass writes to another address only after, or  *)
(* before, it has removed what lies under the recorded one (PassIsTidy); the *)
(* status it has read stays that of the object until it ends, as nobody    *)
(* else writes it.                                                         *)
(***************************************************************************)
EntriesAreFollowed ==
    \A a \in Addrs : entry[a] # 0 =>
        \/ a \in unfollowed
        \/ object.phase # "absent" /\ object.status.addr = a

\* An object without a finalizer has never been reconciled, and goes at once.
UnheldIsUnsynced ==
    \/ object.held
    \/ object.status = Unsynced /\ object.phase # "deleting"

\* The address a deletion clears.
ClearedAddr == IF kind = "coderepo" THEN worker.snap.status.addr ELSE worker.snap.addr

PassIsTidy ==
    /\ worker.pc # "idle" => /\ object.phase # "absent" /\ object.held
                             /\ worker.snap.status = object.status
    /\ worker.pc \in {"save", "record"} /\ Moved(worker.snap) =>
          \/ kind = "cluster" /\ worker.pc = "save"
          \/ \A a \in Addrs : a = worker.snap.status.addr => entry[a] = 0
    /\ worker.pc = "release" => \A a \in Addrs : a = ClearedAddr => entry[a] = 0

ArgoInv == ArgoTypeOK /\ EntriesAreFollowed /\ UnheldIsUnsynced /\ PassIsTidy

-----------------------------------------------------------------------------
LEMMA ConstantsTyped ==
  /\ Unsynced \in Statuses /\ Absent \in Objects /\ Idle \in Workers
  /\ Absent.phase = "absent" /\ Absent.status = Unsynced /\ ~Absent.held
  /\ Idle.pc = "idle" /\ Unsynced.addr = NoAddr
<1>1. Unsynced \in Statuses /\ Unsynced.addr = NoAddr
  BY ArgoAssumption DEF Unsynced, Statuses
<1>2. Absent \in Objects /\ Absent.phase = "absent" /\ Absent.status = Unsynced
      /\ ~Absent.held
  BY <1>1 DEF Absent, Objects
<1>3. Idle \in Workers /\ Idle.pc = "idle"
  <2>1. 0 \in 0 .. MaxEdits /\ 0 \in 0 .. MaxVersion
    BY ArgoAssumption
  <2> QED
    BY <1>2, <2>1 DEF Idle, Workers
<1> QED
  BY <1>1, <1>2, <1>3

LEMMA InitArgoInv == ArgoInit => ArgoInv
<1> SUFFICES ASSUME ArgoInit PROVE ArgoInv
  OBVIOUS
<1>1. ArgoTypeOK
  <2>1. /\ 0 \in 0 .. MaxVersion /\ 0 \in 0 .. MaxEdits /\ 0 \in 0 .. MaxAborts
        /\ 1 \in 1 .. MaxVersion
    BY ArgoAssumption
  <2> QED
    BY <2>1, ConstantsTyped DEF ArgoInit, ArgoTypeOK
<1>2. EntriesAreFollowed /\ UnheldIsUnsynced /\ PassIsTidy
  BY ConstantsTyped
  DEF ArgoInit, EntriesAreFollowed, UnheldIsUnsynced, PassIsTidy
<1> QED
  BY <1>1, <1>2 DEF ArgoInv

\* The object of an edit: what it may be, and that the pass in progress still
\* finds its status.
LEMMA EditKeeps ==
  ASSUME ArgoInv, NEW o \in Objects, Edit(o), watched' \in BOOLEAN,
         object.phase = "absent" =>
            o.phase = "live" /\ o.status = Unsynced,
         object.phase # "absent" /\ object.held =>
            o.phase # "absent" /\ o.held /\ o.status = object.status,
         ~object.held => o.status = Unsynced /\ o.phase # "deleting"
  PROVE  ArgoInv'
<1>1. edits' \in 0 .. MaxEdits
  BY ArgoAssumption DEF Edit, ArgoInv, ArgoTypeOK
<1>2. ArgoTypeOK'
  BY <1>1 DEF Edit, argoOnly, ArgoInv, ArgoTypeOK
<1>3. EntriesAreFollowed'
  BY ConstantsTyped, ArgoAssumption
  DEF Edit, argoOnly, ArgoInv, EntriesAreFollowed, UnheldIsUnsynced
<1>4. UnheldIsUnsynced'
  <2>1. object' = o
    BY DEF Edit
  <2>2. CASE ~object.held
    BY <2>1, <2>2, Zenon DEF UnheldIsUnsynced
  <2>3. CASE object.held /\ object.phase = "absent"
    BY <2>1, <2>3 DEF UnheldIsUnsynced
  <2>4. CASE object.held /\ object.phase # "absent"
    <3>1. o.held
      BY <2>4
    <3> QED
      BY <2>1, <3>1, Zenon DEF UnheldIsUnsynced
  <2> QED
    BY <2>2, <2>3, <2>4
<1>5. PassIsTidy'
  BY DEF Edit, argoOnly, ArgoInv, PassIsTidy, Moved, ClearedAddr
<1> QED
  BY <1>2, <1>3, <1>4, <1>5 DEF ArgoInv

LEMMA WorldKeepsArgoInv == ArgoInv /\ ArgoWorld => ArgoInv'
<1> SUFFICES ASSUME ArgoInv, ArgoWorld PROVE ArgoInv'
  OBVIOUS
<1>0. object \in Objects /\ ArgoTypeOK
  BY DEF ArgoInv, ArgoTypeOK
<1>1. ASSUME NEW a \in Addrs, CreateObject(a) PROVE ArgoInv'
  <2> DEFINE o == [Absent EXCEPT !.phase = "live", !.addr = a]
  <2>1. o \in Objects /\ o.phase = "live" /\ o.status = Unsynced
    BY ConstantsTyped DEF Objects
  <2>2. object.phase = "absent" /\ Edit(o) /\ watched' \in BOOLEAN
    BY <1>1 DEF CreateObject
  <2> QED
    BY <2>1, <2>2, EditKeeps
<1>2. ASSUME NEW a \in Addrs, MoveObject(a) PROVE ArgoInv'
  <2> DEFINE o == [object EXCEPT !.addr = a]
  <2>1. o \in Objects /\ o.phase = object.phase /\ o.status = object.status
        /\ o.held = object.held
    BY <1>0 DEF Objects
  <2>2. object.phase = "live" /\ Edit(o) /\ watched' \in BOOLEAN
    BY <1>2 DEF MoveObject
  <2> QED
    BY <2>1, <2>2, EditKeeps DEF ArgoInv, UnheldIsUnsynced
<1>3. CASE DeleteObject /\ object.held
  <2> DEFINE o == [object EXCEPT !.phase = "deleting"]
  <2>1. o \in Objects /\ o.phase = "deleting" /\ o.status = object.status
        /\ o.held = object.held
    BY <1>0 DEF Objects
  <2>2. object.phase = "live" /\ Edit(o) /\ watched' \in BOOLEAN
    BY <1>0, <1>3 DEF DeleteObject, ArgoTypeOK
  <2> QED
    BY <1>3, <2>1, <2>2, EditKeeps
<1>4. CASE DeleteObject /\ ~object.held
  <2>1. object.phase = "live" /\ Edit(Absent) /\ watched' \in BOOLEAN
    BY <1>0, <1>4 DEF DeleteObject, ArgoTypeOK
  <2> QED
    BY <1>4, <2>1, ConstantsTyped, EditKeeps
<1>5. CASE RotateSecret
  <2>1. vault' \in 1 .. MaxVersion /\ accepted' \subseteq 1 .. MaxVersion
    BY <1>0, <1>5, ArgoAssumption DEF RotateSecret, ArgoTypeOK
  <2> QED
    BY <1>0, <1>5, <2>1
    DEF RotateSecret, argoOnly, ArgoInv, ArgoTypeOK, EntriesAreFollowed,
        UnheldIsUnsynced, PassIsTidy, Moved, ClearedAddr
<1>6. CASE RevokeKey
  <2>1. accepted' \subseteq 1 .. MaxVersion
    BY <1>0, <1>6 DEF RevokeKey, ArgoTypeOK
  <2> QED
    BY <1>0, <1>6, <2>1
    DEF RevokeKey, argoOnly, ArgoInv, ArgoTypeOK, EntriesAreFollowed,
        UnheldIsUnsynced, PassIsTidy, Moved, ClearedAddr
<1>7. CASE WatchEntry
  <2>1. watched' \in BOOLEAN /\ aborts' \in 0 .. MaxAborts
    BY <1>0, <1>7, ArgoAssumption DEF WatchEntry, ArgoTypeOK
  <2> QED
    BY <1>0, <1>7, <2>1
    DEF WatchEntry, argoOnly, ArgoInv, ArgoTypeOK, EntriesAreFollowed,
        UnheldIsUnsynced, PassIsTidy, Moved, ClearedAddr
<1> QED
  BY <1>1, <1>2, <1>3, <1>4, <1>5, <1>6, <1>7 DEF ArgoWorld

\* Steps that only end the pass, or queue the object.
LEMMA EndOfPassKeeps ==
  ASSUME ArgoInv, worker' = Idle \/ worker' = worker, queued' \in BOOLEAN,
         aborts' \in 0 .. MaxAborts,
         UNCHANGED <<world, object, entry, unfollowed, doubtful>>
  PROVE  ArgoInv'
<1>1. ArgoTypeOK'
  BY ConstantsTyped DEF ArgoInv, ArgoTypeOK, world
<1>2. EntriesAreFollowed' /\ UnheldIsUnsynced'
  BY DEF ArgoInv, EntriesAreFollowed, UnheldIsUnsynced
<1>3. PassIsTidy'
  BY ConstantsTyped DEF ArgoInv, PassIsTidy, Moved, ClearedAddr, world
<1> QED
  BY <1>1, <1>2, <1>3 DEF ArgoInv

\* A worker that goes on from what it has read.
LEMMA WorkerTyped ==
  ASSUME ArgoTypeOK,
         NEW pc \in {"data", "version", "drop", "save", "record", "release"}
  PROVE  /\ [worker EXCEPT !.pc = pc] \in Workers
         /\ [worker EXCEPT !.pc = pc].pc = pc
         /\ [worker EXCEPT !.pc = pc].snap = worker.snap
         /\ [worker EXCEPT !.pc = pc].id = worker.id
         /\ worker.snap \in Objects
         /\ worker.snap.status \in Statuses
  BY DEF ArgoTypeOK, Workers, Objects

LEMMA PassKeepsArgoInv == ArgoInv /\ PassStep => ArgoInv'
<1> SUFFICES ASSUME ArgoInv, PassStep PROVE ArgoInv'
  OBVIOUS
<1> USE DEF world
<1>0. ArgoTypeOK /\ object \in Objects /\ worker \in Workers /\ worker.snap \in Objects
      /\ worker.snap.status \in Statuses /\ object.status \in Statuses
  BY DEF ArgoInv, ArgoTypeOK, Workers, Objects
<1>1. CASE StartReconcile
  <2>1. CASE object.phase = "live" /\ ~UNCHANGED worker
    <3>0. /\ object' = [object EXCEPT !.held = TRUE]
          /\ worker' = [Idle EXCEPT !.pc = "data", !.snap = object', !.seen = edits]
          /\ ~queued' /\ UNCHANGED <<world, entry, aborts, unfollowed, doubtful>>
      BY <1>1, <2>1 DEF StartReconcile
    <3>1. /\ object' \in Objects /\ object'.held /\ object'.phase = "live"
          /\ object'.status = object.status
      BY <1>0, <2>1, <3>0 DEF Objects
    <3>2. edits \in 0 .. MaxEdits
      BY <1>0 DEF ArgoTypeOK
    <3>3. /\ worker' \in Workers /\ worker'.pc = "data" /\ worker'.snap = object'
      BY <3>0, <3>1, <3>2, ConstantsTyped DEF Workers
    <3>4. ArgoTypeOK'
      <4>1. queued' \in BOOLEAN
        BY <1>1, <2>1 DEF StartReconcile
      <4> QED
        BY <1>0, <3>0, <3>1, <3>3, <4>1 DEF ArgoTypeOK
    <3>5. EntriesAreFollowed' /\ UnheldIsUnsynced'
      BY <2>1, <3>0, <3>1 DEF ArgoInv, EntriesAreFollowed, UnheldIsUnsynced
    <3>6. PassIsTidy'
      BY <3>0, <3>1, <3>3 DEF PassIsTidy
    <3> QED
      BY <3>4, <3>5, <3>6 DEF ArgoInv
  <2>2. CASE object.phase = "deleting"
    <3>1. edits \in 0 .. MaxEdits
      BY <1>0 DEF ArgoTypeOK
    <3>2. /\ worker' \in Workers /\ worker'.pc = "remove" /\ worker'.snap = object
          /\ object' = object
      BY <1>0, <1>1, <2>2, <3>1, ConstantsTyped DEF StartReconcile, Workers
    <3>3. ArgoTypeOK'
      BY <1>0, <1>1, <3>2 DEF StartReconcile, ArgoTypeOK
    <3>4. EntriesAreFollowed' /\ UnheldIsUnsynced'
      BY <1>1, <3>2 DEF StartReconcile, ArgoInv, EntriesAreFollowed, UnheldIsUnsynced
    <3>5. PassIsTidy'
      BY <1>1, <2>2, <3>2 DEF StartReconcile, ArgoInv, UnheldIsUnsynced, PassIsTidy
    <3> QED
      BY <3>3, <3>4, <3>5 DEF ArgoInv
  <2>3. CASE object.phase = "absent"
    <3>1. /\ UNCHANGED <<object, worker, aborts>> /\ queued' = FALSE
          /\ UNCHANGED <<world, entry, unfollowed, doubtful>>
      BY <1>1, <2>3 DEF StartReconcile
    <3>2. aborts' \in 0 .. MaxAborts
      BY <1>0, <3>1 DEF ArgoTypeOK
    <3> QED
      BY <3>1, <3>2, EndOfPassKeeps
  <2>4. CASE object.phase = "live" /\ UNCHANGED worker
    <3>1. worker.pc = "idle"
      BY <1>1 DEF StartReconcile
    <3>2. \/ UNCHANGED object /\ aborts < MaxAborts /\ aborts' = aborts + 1 /\ UNCHANGED queued
          \/ worker' = [Idle EXCEPT !.pc = "data", !.snap = object', !.seen = edits]
      BY <1>1, <2>4 DEF StartReconcile
    <3>3. [Idle EXCEPT !.pc = "data", !.snap = object', !.seen = edits].pc = "data"
      BY DEF Idle
    <3>4. worker' # [Idle EXCEPT !.pc = "data", !.snap = object', !.seen = edits]
      <4>1. worker'.pc = "idle"
        BY <2>4, <3>1
      <4> QED
        BY <3>3, <4>1
    <3>5. UNCHANGED object /\ aborts < MaxAborts /\ aborts' = aborts + 1 /\ UNCHANGED queued
      BY <3>2, <3>4
    <3>6. UNCHANGED object /\ aborts' \in 0 .. MaxAborts /\ queued' \in BOOLEAN
      BY <1>0, <3>5, ArgoAssumption DEF ArgoTypeOK
    <3>7. UNCHANGED <<world, entry, unfollowed, doubtful>>
      BY <1>1 DEF StartReconcile
    <3> QED
      BY <2>4, <3>6, <3>7, EndOfPassKeeps
  <2> QED
    BY <1>1, <2>1, <2>2, <2>3, <2>4 DEF StartReconcile
<1>2. CASE ReadData
  <2>1. worker' \in Workers /\ worker'.pc = "version" /\ worker'.snap = worker.snap
    <3>1. vault \in 0 .. MaxVersion
      BY <1>0, ArgoAssumption DEF ArgoTypeOK
    <3> QED
      BY <1>0, <1>2, <3>1 DEF ReadData, Workers
  <2> QED
    BY <1>0, <1>2, <2>1
    DEF ReadData, ArgoInv, ArgoTypeOK, EntriesAreFollowed, UnheldIsUnsynced, PassIsTidy
<1>3. CASE ReadVersion
  <2>1. /\ worker' \in Workers /\ worker'.snap = worker.snap
        /\ worker'.pc = IF kind = "coderepo" /\ Moved(worker.snap) THEN "drop"
                                                                   ELSE "save"
    <3>1. vault \in 0 .. MaxVersion
      BY <1>0, ArgoAssumption DEF ArgoTypeOK
    <3> QED
      BY <1>0, <1>3, <3>1 DEF ReadVersion, Workers
  <2>2. kind \in {"coderepo", "cluster"}
    BY <1>0 DEF ArgoTypeOK
  <2> QED
    BY <1>0, <1>3, <2>1, <2>2
    DEF ReadVersion, ArgoInv, ArgoTypeOK, EntriesAreFollowed, UnheldIsUnsynced,
        PassIsTidy, Moved
<1>4. CASE DropOldEntry
  <2>1. /\ worker' \in Workers /\ worker'.snap = worker.snap
        /\ worker'.pc \in {"save", "record"} /\ UNCHANGED <<kind, object, unfollowed>>
    BY <1>0, <1>4 DEF DropOldEntry, Workers
  <2>2. /\ entry \in [Addrs -> 0 .. MaxVersion] /\ entry' \in [Addrs -> 0 .. MaxVersion]
        /\ \A a \in Addrs : entry'[a] = IF a = worker.snap.status.addr THEN 0 ELSE entry[a]
    <3>1. 0 \in 0 .. MaxVersion
      BY ArgoAssumption
    <3> QED
      BY <1>0, <1>4, <3>1 DEF DropOldEntry, ArgoTypeOK
  <2>3. ArgoTypeOK'
    BY <1>0, <1>4, <2>1, <2>2 DEF DropOldEntry, ArgoTypeOK
  <2>4. EntriesAreFollowed' /\ UnheldIsUnsynced'
    BY <2>1, <2>2 DEF ArgoInv, EntriesAreFollowed, UnheldIsUnsynced
  <2>5. PassIsTidy'
    BY <1>4, <2>1, <2>2 DEF DropOldEntry, ArgoInv, PassIsTidy
  <2> QED
    BY <2>3, <2>4, <2>5 DEF ArgoInv
<1>5. CASE WriteEntry
  <2>1. /\ worker' \in Workers /\ worker'.snap = worker.snap
        /\ worker'.pc = IF kind = "cluster" /\ Moved(worker.snap) THEN "drop"
                                                                  ELSE "record"
        /\ UNCHANGED <<kind, object>>
    BY <1>0, <1>5 DEF WriteEntry, Workers
  <2>2. worker.key \in 0 .. MaxVersion
    BY <1>0 DEF Workers
  <2>3. /\ entry \in [Addrs -> 0 .. MaxVersion] /\ entry' \in [Addrs -> 0 .. MaxVersion]
        /\ \A a \in Addrs : a # worker.snap.addr => entry'[a] = entry[a]
    BY <1>0, <1>5, <2>2 DEF WriteEntry, ArgoTypeOK
  <2>4. /\ unfollowed \subseteq unfollowed'
        /\ worker.snap.addr \in unfollowed' 
    BY <1>5 DEF WriteEntry
  <2>5. unfollowed' \subseteq Addrs \cup {NoAddr}
    BY <1>0, <1>5 DEF WriteEntry, ArgoTypeOK, Objects
  <2>6. ArgoTypeOK'
    BY <1>0, <1>5, <2>1, <2>3, <2>5 DEF WriteEntry, ArgoTypeOK
  <2>7. EntriesAreFollowed' /\ UnheldIsUnsynced'
    BY <2>1, <2>3, <2>4 DEF ArgoInv, EntriesAreFollowed, UnheldIsUnsynced
  <2>8. PassIsTidy'
    BY <1>5, <2>1, <2>3 DEF WriteEntry, ArgoInv, PassIsTidy, Moved
  <2> QED
    BY <2>6, <2>7, <2>8 DEF ArgoInv
<1>6. CASE KeepEntry
  <2>1. CASE kind = "cluster" /\ Moved(worker.snap)
    <3>1. worker' \in Workers /\ worker'.pc = "drop" /\ worker'.snap = worker.snap
      BY <1>0, <1>6, <2>1 DEF KeepEntry, Workers
    <3> QED
      BY <1>0, <1>6, <2>1, <3>1
      DEF KeepEntry, ArgoInv, ArgoTypeOK, EntriesAreFollowed, UnheldIsUnsynced,
          PassIsTidy
  <2>2. CASE ~(kind = "cluster" /\ Moved(worker.snap))
    BY <1>0, <1>6, <2>2, EndOfPassKeeps DEF KeepEntry, FinishPass, ArgoTypeOK
  <2> QED
    BY <2>1, <2>2
<1>7. CASE RecordSync
  <2>1. CASE ~CanRecord
    BY <1>0, <1>7, <2>1, EndOfPassKeeps DEF RecordSync, FinishPass, ArgoTypeOK
  <2>2. CASE CanRecord
    <3> DEFINE st == [addr |-> worker.snap.addr, id |-> worker.id]
    <3>1. st \in Statuses
      BY <1>0 DEF Objects, Workers, Statuses
    <3>2. /\ object' \in Objects /\ object'.status = st /\ object'.held = object.held
          /\ object'.phase = object.phase /\ object.held /\ object.phase # "absent"
      BY <1>0, <1>7, <2>2, <3>1 DEF RecordSync, Objects, ArgoInv, PassIsTidy
    <3>3. worker' \in Workers /\ worker'.pc = "idle" /\ queued' = TRUE
      BY <1>7, ConstantsTyped DEF RecordSync, FinishPass
    <3>4. doubtful' \in BOOLEAN /\ unfollowed' = unfollowed \ {worker.snap.addr}
      BY <1>0, <1>7, <2>2 DEF RecordSync, Workers
    <3>5. ArgoTypeOK'
      BY <1>0, <1>7, <3>2, <3>3, <3>4 DEF RecordSync, ArgoTypeOK
    <3>6. EntriesAreFollowed'
      <4> SUFFICES ASSUME NEW a \in Addrs, entry[a] # 0, a \notin unfollowed,
                          a # worker.snap.addr
                   PROVE  FALSE
        BY <1>7, <3>2, <3>4 DEF RecordSync, EntriesAreFollowed
      <4>1. object.status.addr = a /\ worker.snap.status = object.status
        BY <1>7 DEF RecordSync, ArgoInv, EntriesAreFollowed, PassIsTidy
      <4>2. Moved(worker.snap)
        BY <4>1, ConstantsTyped, ArgoAssumption DEF Moved
      <4> QED
        BY <1>7, <4>1, <4>2 DEF RecordSync, ArgoInv, PassIsTidy
    <3>7. UnheldIsUnsynced' /\ PassIsTidy'
      <4>1. object'.held
        BY <3>2, Zenon
      <4>2. UnheldIsUnsynced'
        BY <4>1, Zenon DEF UnheldIsUnsynced
      <4>3. PassIsTidy'
        BY <3>3 DEF PassIsTidy
      <4> QED
        BY <4>2, <4>3
    <3> QED
      BY <3>5, <3>6, <3>7 DEF ArgoInv
  <2> QED
    BY <2>1, <2>2
<1>8. CASE RemoveEntry
  <2>1. /\ worker' \in Workers /\ worker'.snap = worker.snap /\ worker'.pc = "release"
        /\ UNCHANGED <<kind, object, unfollowed>> /\ ClearedAddr' = ClearedAddr
    BY <1>0, <1>8, WorkerTyped DEF RemoveEntry, ClearedAddr
  <2>2. /\ entry \in [Addrs -> 0 .. MaxVersion] /\ entry' \in [Addrs -> 0 .. MaxVersion]
        /\ \A a \in Addrs : entry'[a] = IF a = ClearedAddr THEN 0 ELSE entry[a]
    BY <1>0, <1>8, ArgoAssumption DEF RemoveEntry, ArgoTypeOK, ClearedAddr
  <2>3. ArgoTypeOK'
    BY <1>0, <1>8, <2>1, <2>2 DEF RemoveEntry, ArgoTypeOK
  <2>4. EntriesAreFollowed' /\ UnheldIsUnsynced'
    BY <2>1, <2>2 DEF ArgoInv, EntriesAreFollowed, UnheldIsUnsynced
  <2>5. PassIsTidy'
    BY <1>8, <2>1, <2>2 DEF RemoveEntry, ArgoInv, PassIsTidy
  <2> QED
    BY <2>3, <2>4, <2>5 DEF ArgoInv
<1>9. CASE ReleaseObject
  <2>1. /\ object' = Absent /\ worker' = Idle /\ entry' = entry
        /\ unfollowed \subseteq unfollowed'
        /\ kind = "cluster" /\ Moved(worker.snap) => worker.snap.status.addr \in unfollowed'
    BY <1>9 DEF ReleaseObject
  <2>2. EntriesAreFollowed'
    <3> SUFFICES ASSUME NEW a \in Addrs, entry[a] # 0 PROVE a \in unfollowed'
      BY <2>1 DEF EntriesAreFollowed
    <3>1. a # ClearedAddr
      BY <1>9 DEF ReleaseObject, ArgoInv, PassIsTidy
    <3>2. a \in unfollowed \/ worker.snap.status.addr = a
      BY <1>9 DEF ReleaseObject, ArgoInv, EntriesAreFollowed, PassIsTidy
    <3>3. ASSUME worker.snap.status.addr = a PROVE a \in unfollowed'
      <4>1. kind = "cluster" /\ a # worker.snap.addr
        BY <1>0, <3>1, <3>3 DEF ClearedAddr, ArgoTypeOK
      <4>2. Moved(worker.snap)
        BY <3>3, <4>1, ConstantsTyped, ArgoAssumption DEF Moved
      <4> QED
        BY <2>1, <3>3, <4>1, <4>2
    <3> QED
      BY <2>1, <3>2, <3>3
  <2>3. unfollowed' \subseteq Addrs \cup {NoAddr}
    BY <1>0, <1>9 DEF ReleaseObject, ArgoTypeOK, Statuses
  <2>4. ArgoTypeOK'
    BY <1>0, <1>9, <2>1, <2>3, ConstantsTyped DEF ReleaseObject, ArgoTypeOK
  <2>5. UnheldIsUnsynced' /\ PassIsTidy'
    BY <2>1, ConstantsTyped DEF UnheldIsUnsynced, PassIsTidy
  <2> QED
    BY <2>2, <2>4, <2>5 DEF ArgoInv
<1> QED
  BY <1>1, <1>2, <1>3, <1>4, <1>5, <1>6, <1>7, <1>8, <1>9 DEF PassStep

LEMMA NextArgoInv == ArgoInv /\ [ArgoNext]_argoVars => ArgoInv'
<1> SUFFICES ASSUME ArgoInv, [ArgoNext]_argoVars PROVE ArgoInv'
  OBVIOUS
<1>0. ArgoTypeOK
  BY DEF ArgoInv
<1>1. CASE AbortPass \/ SwallowError \/ RestartOperator
  <2>1. aborts' \in 0 .. MaxAborts
    BY <1>0, <1>1, ArgoAssumption
    DEF AbortPass, SwallowError, RestartOperator, ArgoTypeOK
  <2> QED
    BY <1>0, <1>1, <2>1, EndOfPassKeeps
    DEF AbortPass, SwallowError, RestartOperator, FinishPass, ArgoTypeOK, world
<1>2. CASE UNCHANGED argoVars
  BY <1>0, <1>2, EndOfPassKeeps DEF argoVars, ArgoTypeOK, world
<1> QED
  BY <1>1, <1>2, WorldKeepsArgoInv, PassKeepsArgoInv DEF ArgoNext

LEMMA NothingInArgoFollows == ArgoInv => NothingLeftInArgo
  BY DEF ArgoInv, EntriesAreFollowed, NothingLeftInArgo

\* Once the object is gone Argo CD holds no entry of it, other than one that was
\* written and not recorded, or that of a cluster deleted on the move: whatever
\* addresses it had, and wherever passes failed or were killed.
THEOREM NoEntryIsLeft == ArgoSpec => []NothingLeftInArgo
  BY NothingInArgoFollows, InitArgoInv, NextArgoInv, PTL DEF ArgoSpec

\* Every state the operator and its surroundings reach is well typed.
THEOREM ArgoTypeCorrect == ArgoSpec => []ArgoTypeOK
<1>1. ArgoInv => ArgoTypeOK
  BY DEF ArgoInv
<1> QED
  BY <1>1, InitArgoInv, NextArgoInv, PTL DEF ArgoSpec

-----------------------------------------------------------------------------
(***************************************************************************)
(* The base-operator, for any set of groups and paths, any page size, any  *)
(* number of passes at a time, of changes in GitLab and of failures.       *)
(***************************************************************************)
\* Types.
LEMMA NotListingIsTyped == NotListing \in Listings
  BY DEF NotListing, Listings, MaybePath

LEMMA PagesCover ==
  ASSUME NEW n \in Nat
  PROVE  /\ Pages(n) \in Nat
         /\ n <= Pages(n) * PageSize
         /\ Pages(n) = 0 => n = 0
<1> DEFINE m == n + PageSize - 1
<1>1. PageSize \in Nat /\ PageSize >= 1 /\ m \in Nat
  BY BaseAssumption
<1>2. m \div PageSize \in Nat /\ m % PageSize \in 0 .. PageSize - 1
  BY <1>1, SMT
<1>3. m = PageSize * (m \div PageSize) + (m % PageSize)
  BY <1>1, SMT
<1> QED
  BY <1>1, <1>2, <1>3, SMT DEF Pages

LEMMA ProjectsAdded ==
  ASSUME NEW s \in Seq(Groups), NEW g \in Groups
  PROVE  <<g>> \o s \in Seq(Groups)
  BY ConcatProperties

LEMMA ProjectsRemoved ==
  ASSUME NEW s \in Seq(Groups), NEW i \in DOMAIN s
  PROVE  SubSeq(s, 1, i - 1) \o SubSeq(s, i + 1, Len(s)) \in Seq(Groups)
<1>1. SubSeq(s, 1, i - 1) \in Seq(Groups) /\ SubSeq(s, i + 1, Len(s)) \in Seq(Groups)
  BY SubSeqProperties
<1> QED
  BY <1>1, ConcatProperties

LEMMA InitTyped == BaseInit => BaseTypeOK
<1> SUFFICES ASSUME BaseInit PROVE BaseTypeOK
  OBVIOUS
<1>1. path \in [Groups -> Paths]
  BY BaseAssumption DEF BaseInit
<1>2. projects \in Seq(Groups)
  BY SMT DEF BaseInit
<1>3. products \in [Groups -> Products]
  BY DEF BaseInit, Products, NoProduct, MaybePath, Phases
<1>4. coderepos \in [Groups -> CodeRepos] /\ apps \in [Groups -> Apps]
  BY DEF BaseInit, CodeRepos, Apps, Nothing, MaybePath, Phases
<1>5. passes \in [Groups -> Passes]
  BY DEF BaseInit, Passes, NoPass, MaybePath
<1> QED
  BY <1>1, <1>2, <1>3, <1>4, <1>5, NotListingIsTyped, BaseAssumption
  DEF BaseInit, BaseTypeOK, Phases

\* What a pass does to its own record.
LEMMA PassTyped ==
  ASSUME BaseTypeOK, NEW g \in Groups
  PROVE  /\ NoPass \in Passes
         /\ [passes EXCEPT ![g] = NoPass] \in [Groups -> Passes]
         /\ Retry(g) => passes' \in [Groups -> Passes] /\ due' \subseteq Groups
         /\ \A pc \in {"idle", "namespace", "coderepo", "app", "dropapp", "waitapp",
                       "dropnamespace", "waitnamespace", "release"} :
               Continue(g, pc) => passes' \in [Groups -> Passes]
<1>1. NoPass \in Passes
  BY DEF NoPass, Passes, MaybePath
<1>2. \A pc \in {"idle", "namespace", "coderepo", "app", "dropapp", "waitapp",
                 "dropnamespace", "waitnamespace", "release"} :
        [passes[g] EXCEPT !.pc = pc] \in Passes
  BY DEF BaseTypeOK, Passes
<1> QED
  BY <1>1, <1>2 DEF BaseTypeOK, Retry, Continue

LEMMA NextTyped == BaseTypeOK /\ [BaseNext]_baseVars => BaseTypeOK'
<1> SUFFICES ASSUME BaseTypeOK, [BaseNext]_baseVars PROVE BaseTypeOK'
  OBVIOUS
<1> USE DEF gitlabState, objects, providerSide
<1>1. ASSUME NEW g \in Groups, AddProject(g) \/ RemoveProject(g) PROVE BaseTypeOK'
  <2>1. CASE AddProject(g)
    <3>1. projects' \in Seq(Groups)
      BY <2>1, ProjectsAdded DEF AddProject, BaseTypeOK
    <3>2. listing' \in Listings
      BY <2>1 DEF AddProject, Race, BaseTypeOK, Listings
    <3>3. changes' \in 0 .. MaxChanges
      BY <2>1, BaseAssumption DEF AddProject, Change, BaseTypeOK
    <3> QED
      BY <2>1, <3>1, <3>2, <3>3 DEF AddProject, Change, BaseTypeOK
  <2>2. CASE RemoveProject(g)
    <3>1. projects' \in Seq(Groups)
      BY <2>2, ProjectsRemoved DEF RemoveProject, BaseTypeOK
    <3>2. listing' \in Listings
      BY <2>2 DEF RemoveProject, Race, BaseTypeOK, Listings
    <3>3. changes' \in 0 .. MaxChanges
      BY <2>2, BaseAssumption DEF RemoveProject, Change, BaseTypeOK
    <3> QED
      BY <2>2, <3>1, <3>2, <3>3 DEF RemoveProject, Change, BaseTypeOK
  <2> QED
    BY <1>1, <2>1, <2>2
<1>2. ASSUME NEW g \in Groups, NEW p \in Paths, RenameGroup(g, p) PROVE BaseTypeOK'
  BY <1>2, BaseAssumption DEF RenameGroup, Change, BaseTypeOK
<1>3. CASE CountProjects
  <2>1. Hosted \subseteq Groups
    BY DEF Hosted, BaseTypeOK
  <2>2. Pages(Len(projects)) \in Nat
    BY PagesCover DEF BaseTypeOK
  <2>3. listing' \in Listings
    BY <1>3, <2>1, <2>2, NotListingIsTyped DEF CountProjects, Listings
  <2> QED
    BY <1>3, <2>3 DEF CountProjects, BaseTypeOK
<1>4. CASE ListPage
  <2> DEFINE f == [g \in Groups |-> IF g \in Page(listing.page) THEN path[g]
                                                               ELSE listing.found[g]]
  <2>1. f \in [Groups -> MaybePath]
    BY DEF BaseTypeOK, Listings, MaybePath
  <2>2. listing.page + 1 \in Nat \ {0}
    BY DEF BaseTypeOK, Listings
  <2>3. listing' = [listing EXCEPT !.found = f, !.page = listing.page + 1,
                       !.pc = IF listing.page = listing.pages THEN "compare"
                                                              ELSE "pages"]
    BY <1>4 DEF ListPage
  <2>4. listing' \in Listings
    BY <2>1, <2>2, <2>3 DEF BaseTypeOK, Listings
  <2> QED
    BY <1>4, <2>4 DEF ListPage, BaseTypeOK
<1>5. CASE Compare
  <2>1. listing' \in Listings
    BY <1>5 DEF Compare, Listings, BaseTypeOK
  <2> QED
    BY <1>5, <2>1 DEF Compare, BaseTypeOK
<1>6. ASSUME NEW g \in Groups, ApplyProduct(g) PROVE BaseTypeOK'
  <2>0. products[g] \in Products /\ listing.found[g] \in MaybePath
    BY DEF BaseTypeOK, Listings
  <2>1. products' \in [Groups -> Products]
    <3>1. CASE CreateProduct(g)
      <4>1. [phase |-> "live", path |-> listing.found[g], held |-> FALSE] \in Products
        BY <2>0 DEF Products, Phases
      <4> QED
        BY <3>1, <4>1 DEF CreateProduct, BaseTypeOK
    <3>2. CASE UpdateProduct(g)
      <4>1. [products[g] EXCEPT !.path = listing.found[g]] \in Products
        BY <2>0 DEF Products
      <4> QED
        BY <3>2, <4>1 DEF UpdateProduct, BaseTypeOK
    <3>3. CASE DeleteProduct(g)
      <4>1. /\ NoProduct \in Products
            /\ [products[g] EXCEPT !.phase = "deleting"] \in Products
        BY <2>0 DEF Products, NoProduct, MaybePath, Phases
      <4> QED
        BY <3>3, <4>1 DEF DeleteProduct, BaseTypeOK
    <3>4. CASE ProductGone(g)
      BY <3>4 DEF ProductGone, BaseTypeOK
    <3> QED
      BY <1>6, <3>1, <3>2, <3>3, <3>4 DEF ApplyProduct
  <2>2. listing' \in Listings
    BY <1>6 DEF ApplyProduct, Listings, BaseTypeOK
  <2> QED
    BY <1>6, <2>1, <2>2 DEF ApplyProduct, BaseTypeOK
<1>7. CASE EndListing \/ AbortListing
  BY <1>7, NotListingIsTyped, BaseAssumption DEF EndListing, AbortListing, BaseTypeOK
<1>8. ASSUME NEW g \in Groups, StartPass(g) PROVE BaseTypeOK'
  <2>0. products[g] \in Products
    BY DEF BaseTypeOK
  <2>1. products' \in [Groups -> Products]
    <3>1. [products[g] EXCEPT !.held = products[g].phase # "absent"] \in Products
      BY <2>0 DEF Products
    <3> QED
      BY <1>8, <3>1 DEF StartPass, BaseTypeOK
  <2>2. passes' \in [Groups -> Passes]
    <3>1. [path |-> products[g].path,
           pc |-> CASE products[g].phase = "live" -> "namespace"
                    [] products[g].phase = "deleting" -> "dropapp"
                    [] OTHER -> "idle"] \in Passes
      BY <2>0 DEF Products, Passes
    <3> QED
      BY <1>8, <3>1 DEF StartPass, BaseTypeOK
  <2> QED
    BY <1>8, <2>1, <2>2 DEF StartPass, BaseTypeOK
<1>9. ASSUME NEW g \in Groups, SyncNamespace(g) PROVE BaseTypeOK'
  BY <1>9, PassTyped DEF SyncNamespace, BaseTypeOK, Phases
<1>10. ASSUME NEW g \in Groups, SyncCodeRepo(g) PROVE BaseTypeOK'
  <2>1. [phase |-> "live", path |-> passes[g].path] \in CodeRepos
    BY DEF BaseTypeOK, CodeRepos, Passes, Phases
  <2> QED
    BY <1>10, <2>1, PassTyped DEF SyncCodeRepo, BaseTypeOK
<1>11. ASSUME NEW g \in Groups, SyncArgoApp(g) PROVE BaseTypeOK'
  <2>1. [phase |-> "live", path |-> passes[g].path] \in Apps
    BY DEF BaseTypeOK, Apps, Passes, Phases
  <2> QED
    BY <1>11, <2>1, PassTyped DEF SyncArgoApp, BaseTypeOK
<1>12. ASSUME NEW g \in Groups, DeleteArgoApp(g) PROVE BaseTypeOK'
  <2>1. [apps[g] EXCEPT !.phase = "deleting"] \in Apps
    BY DEF BaseTypeOK, Apps, Phases
  <2> QED
    BY <1>12, <2>1, PassTyped DEF DeleteArgoApp, BaseTypeOK
<1>13. ASSUME NEW g \in Groups, WaitForApp(g) \/ WaitForNamespace(g) PROVE BaseTypeOK'
  BY <1>13, PassTyped DEF WaitForApp, WaitForNamespace, BaseTypeOK
<1>14. ASSUME NEW g \in Groups, DeleteNamespace(g) PROVE BaseTypeOK'
  BY <1>14, PassTyped DEF DeleteNamespace, BaseTypeOK, Phases
<1>15. ASSUME NEW g \in Groups, ReleaseProduct(g) PROVE BaseTypeOK'
  <2>1. NoProduct \in Products
    BY DEF Products, NoProduct, MaybePath, Phases
  <2>2. /\ coderepos[g] \in CodeRepos
        /\ [coderepos[g] EXCEPT !.phase = "orphan"] \in CodeRepos
        /\ [coderepos[g] EXCEPT !.phase = coderepos[g].phase] \in CodeRepos
    BY DEF BaseTypeOK, CodeRepos, Phases
  <2>3. CASE products[g].path = passes[g].path
    <3>1. coderepos' \in [Groups -> CodeRepos]
      BY <1>15, <2>2, <2>3 DEF ReleaseProduct, BaseTypeOK
    <3> QED
      BY <1>15, <2>1, <2>3, <3>1, PassTyped DEF ReleaseProduct, BaseTypeOK
  <2>4. CASE products[g].path # passes[g].path
    BY <1>15, <2>4, PassTyped DEF ReleaseProduct, BaseTypeOK
  <2> QED
    BY <2>3, <2>4
<1>16. ASSUME NEW g \in Groups, AbortProductPass(g) PROVE BaseTypeOK'
  BY <1>16, PassTyped, BaseAssumption DEF AbortProductPass, BaseTypeOK
<1>17. ASSUME NEW g \in Groups, AppEnds(g) PROVE BaseTypeOK'
  <2>1. Nothing \in Apps
    BY DEF Apps, Nothing, MaybePath, Phases
  <2> QED
    BY <1>17, <2>1 DEF AppEnds, cluster, BaseTypeOK
<1>18. ASSUME NEW g \in Groups, NamespaceEnds(g) PROVE BaseTypeOK'
  BY <1>18 DEF NamespaceEnds, cluster, BaseTypeOK, Phases
<1>19. ASSUME NEW g \in Groups, CodeRepoEnds(g) PROVE BaseTypeOK'
  <2>1. Nothing \in CodeRepos /\ [coderepos[g] EXCEPT !.phase = "deleting"] \in CodeRepos
    BY DEF BaseTypeOK, CodeRepos, Nothing, MaybePath, Phases
  <2> QED
    BY <1>19, <2>1 DEF CodeRepoEnds, cluster, BaseTypeOK
<1>20. CASE UNCHANGED baseVars
  BY <1>20 DEF baseVars, BaseTypeOK
<1> QED
  BY <1>1, <1>2, <1>3, <1>4, <1>5, <1>6, <1>7, <1>8, <1>9, <1>10, <1>11, <1>12,
     <1>13, <1>14, <1>15, <1>16, <1>17, <1>18, <1>19, <1>20
  DEF BaseNext, ListingStep, ProductStep

\* Every state the operator and its surroundings reach is well typed.
THEOREM BaseTypeCorrect == BaseSpec => []BaseTypeOK
<1> QED
  BY InitTyped, NextTyped, PTL DEF BaseSpec

-----------------------------------------------------------------------------
(***************************************************************************)
(* Nothing is left of a product.  A product without the finalizer has had  *)
(* no pass, so it has nothing in the cluster; one with it goes only with   *)
(* the last step of a pass, which has found application and namespace gone *)
(* and is the only one that could have made them again.                    *)
(***************************************************************************)
Erasing == {"dropapp", "waitapp", "dropnamespace", "waitnamespace", "release"}

Bare(g) ==
    namespaces[g] = "absent" /\ apps[g].phase = "absent" /\ passes[g].pc = "idle"

ProductInv(g) ==
    /\ products[g].phase = "absent" => Bare(g)
    /\ products[g].phase = "live" => products[g].held \/ Bare(g)
    /\ products[g].phase = "deleting" => products[g].held
    /\ passes[g].pc \in {"coderepo", "app"} => namespaces[g] = "live"
    /\ passes[g].pc \in Erasing => products[g].phase = "deleting"
    /\ passes[g].pc \in {"dropnamespace", "waitnamespace", "release"} =>
          apps[g].phase = "absent"
    /\ passes[g].pc = "release" => namespaces[g] = "absent"
    /\ namespaces[g] = "deleting" => apps[g].phase = "absent"

\* The listing creates only products that are not there.
NewAreAbsent ==
    \A g \in listing.new \cap listing.todo : products[g].phase = "absent"

ClusterInv == BaseTypeOK /\ NewAreAbsent /\ \A g \in Groups : ProductInv(g)

LEMMA InitClusterInv == BaseInit => ClusterInv
  BY InitTyped
  DEF BaseInit, ClusterInv, NewAreAbsent, NotListing, ProductInv, Bare, NoProduct,
      Nothing, NoPass, Erasing

\* Steps that touch neither products nor anything of theirs.
LEMMA RestKeepsClusterInv ==
  ASSUME ClusterInv, BaseTypeOK', NewAreAbsent',
         UNCHANGED <<products, namespaces, apps, passes>>
  PROVE  ClusterInv'
  BY DEF ClusterInv, ProductInv, Bare

\* Steps of a product's pass, and what they begin, touch that product only.
LEMMA OneProductIsTouched ==
  ASSUME ClusterInv, BaseTypeOK', NewAreAbsent', NEW g \in Groups, ProductInv(g)',
         \A h \in Groups \ {g} :
            /\ products'[h] = products[h] /\ namespaces'[h] = namespaces[h]
            /\ apps'[h] = apps[h] /\ passes'[h] = passes[h]
  PROVE  ClusterInv'
<1>1. ASSUME NEW h \in Groups \ {g} PROVE ProductInv(h)'
  BY <1>1 DEF ClusterInv, ProductInv, Bare
<1> QED
  BY <1>1 DEF ClusterInv

LEMMA NextClusterInv == ClusterInv /\ [BaseNext]_baseVars => ClusterInv'
<1> SUFFICES ASSUME ClusterInv, [BaseNext]_baseVars PROVE ClusterInv'
  OBVIOUS
<1> USE DEF gitlabState, objects, providerSide
<1>0. BaseTypeOK /\ BaseTypeOK'
  BY NextTyped DEF ClusterInv
<1>1. ASSUME NEW g \in Groups,
             AddProject(g) \/ RemoveProject(g) \/ \E p \in Paths : RenameGroup(g, p)
      PROVE ClusterInv'
  <2>1. listing'.new = listing.new /\ listing'.todo = listing.todo
    BY <1>0, <1>1 DEF AddProject, RemoveProject, RenameGroup, Race, BaseTypeOK, Listings
  <2> QED
    BY <1>0, <1>1, <2>1, RestKeepsClusterInv
    DEF AddProject, RemoveProject, RenameGroup, Change, ClusterInv, NewAreAbsent
<1>2. CASE CountProjects \/ EndListing \/ AbortListing
  <2>1. listing'.new = {}
    <3>1. NotListing.new = {}
      BY DEF NotListing
    <3> QED
      BY <1>2, <3>1, NotListingIsTyped
      DEF CountProjects, EndListing, AbortListing, Listings
  <2> QED
    BY <1>0, <1>2, <2>1, RestKeepsClusterInv
    DEF CountProjects, EndListing, AbortListing, NewAreAbsent
<1>3. CASE ListPage
  <2>1. listing'.new = listing.new /\ listing'.todo = listing.todo
    BY <1>0, <1>3 DEF ListPage, BaseTypeOK, Listings
  <2> QED
    BY <1>0, <1>3, <2>1, RestKeepsClusterInv DEF ListPage, ClusterInv, NewAreAbsent
<1>4. CASE Compare
  <2>1. listing'.new = {g \in Groups : Found(g) /\ ~Present(g)}
    BY <1>0, <1>4 DEF Compare, BaseTypeOK, Listings
  <2> QED
    BY <1>0, <1>4, <2>1, RestKeepsClusterInv DEF Compare, NewAreAbsent, Present
<1>5. ASSUME NEW g \in Groups, ApplyProduct(g) PROVE ClusterInv'
  <2>1. listing'.new = listing.new /\ listing'.todo = listing.todo \ {g}
    BY <1>0, <1>5 DEF ApplyProduct, BaseTypeOK, Listings
  <2>2. \A h \in Groups \ {g} : products'[h] = products[h]
    BY <1>0, <1>5
    DEF ApplyProduct, CreateProduct, UpdateProduct, DeleteProduct, ProductGone, BaseTypeOK
  <2>3. NewAreAbsent'
    BY <1>0, <2>1, <2>2 DEF ClusterInv, NewAreAbsent, BaseTypeOK, Listings
  <2>4. ProductInv(g)
    BY DEF ClusterInv
  <2>5. ProductInv(g)'
    <3>1. CASE CreateProduct(g)
      <4>1. Bare(g)
        BY <1>5, <3>1, <2>4 DEF ApplyProduct, CreateProduct, ClusterInv, NewAreAbsent, ProductInv
      <4>2. products'[g].phase = "live"
        BY <1>0, <3>1 DEF CreateProduct, BaseTypeOK
      <4> QED
        BY <1>5, <4>1, <4>2 DEF ApplyProduct, ProductInv, Bare, Erasing
    <3>2. CASE UpdateProduct(g)
      <4>1. products'[g].phase = products[g].phase /\ products'[g].held = products[g].held
        BY <1>0, <3>2 DEF UpdateProduct, BaseTypeOK, Products
      <4> QED
        BY <1>5, <2>4, <4>1 DEF ApplyProduct, ProductInv, Bare
    <3>3. CASE DeleteProduct(g)
      <4>1. CASE products[g].held
        <5>1. products'[g].phase = "deleting" /\ products'[g].held
          BY <1>0, <3>3, <4>1 DEF DeleteProduct, BaseTypeOK, Products
        <5> QED
          BY <1>5, <2>4, <5>1 DEF ApplyProduct, ProductInv, Bare
      <4>2. CASE ~products[g].held
        <5>1. products'[g].phase = "absent"
          BY <1>0, <3>3, <4>2 DEF DeleteProduct, BaseTypeOK, NoProduct
        <5>2. Bare(g)
          BY <2>4, <3>3, <4>2 DEF DeleteProduct, ProductInv
        <5> QED
          BY <1>5, <5>1, <5>2 DEF ApplyProduct, ProductInv, Bare, Erasing
      <4> QED
        BY <4>1, <4>2
    <3>4. CASE ProductGone(g)
      BY <1>5, <2>4, <3>4 DEF ApplyProduct, ProductGone, ProductInv, Bare
    <3> QED
      BY <1>5, <3>1, <3>2, <3>3, <3>4 DEF ApplyProduct
  <2> QED
    BY <1>0, <1>5, <2>2, <2>3, <2>5, OneProductIsTouched DEF ApplyProduct
<1>6. ASSUME NEW g \in Groups, StartPass(g) PROVE ClusterInv'
  <2>1. /\ products'[g].phase = products[g].phase
        /\ products[g].phase # "absent" => products'[g].held
        /\ \A h \in Groups \ {g} : products'[h] = products[h] /\ passes'[h] = passes[h]
    BY <1>0, <1>6 DEF StartPass, BaseTypeOK, Products
  <2>2. passes'[g].pc = CASE products[g].phase = "live" -> "namespace"
                          [] products[g].phase = "deleting" -> "dropapp"
                          [] OTHER -> "idle"
    BY <1>0, <1>6 DEF StartPass, BaseTypeOK
  <2>3. ProductInv(g) /\ products[g].phase \in Phases
    BY <1>0 DEF ClusterInv, BaseTypeOK, Products
  <2>4. ProductInv(g)'
    BY <1>6, <2>1, <2>2, <2>3 DEF StartPass, ProductInv, Bare, Erasing, Phases
  <2>5. NewAreAbsent'
    BY <1>0, <1>6, <2>1 DEF StartPass, ClusterInv, NewAreAbsent, BaseTypeOK, Listings
  <2> QED
    BY <1>0, <1>6, <2>1, <2>4, <2>5, OneProductIsTouched DEF StartPass
<1>7. ASSUME NEW g \in Groups,
             \/ SyncNamespace(g) \/ SyncCodeRepo(g) \/ SyncArgoApp(g)
             \/ DeleteArgoApp(g) \/ WaitForApp(g) \/ DeleteNamespace(g)
             \/ WaitForNamespace(g) \/ AbortProductPass(g)
             \/ AppEnds(g) \/ NamespaceEnds(g) \/ CodeRepoEnds(g)
      PROVE ClusterInv'
  <2>1. products' = products /\ listing' = listing
    BY <1>7
    DEF SyncNamespace, SyncCodeRepo, SyncArgoApp, DeleteArgoApp, WaitForApp,
        DeleteNamespace, WaitForNamespace, AbortProductPass, AppEnds, NamespaceEnds,
        CodeRepoEnds, cluster
  <2>2. NewAreAbsent'
    BY <2>1 DEF ClusterInv, NewAreAbsent
  <2>3. \A h \in Groups \ {g} : /\ namespaces'[h] = namespaces[h]
                               /\ apps'[h] = apps[h] /\ passes'[h] = passes[h]
    BY <1>0, <1>7
    DEF SyncNamespace, SyncCodeRepo, SyncArgoApp, DeleteArgoApp, WaitForApp,
        DeleteNamespace, WaitForNamespace, AbortProductPass, AppEnds, NamespaceEnds,
        CodeRepoEnds, cluster, Retry, Continue, BaseTypeOK
  <2>4. ProductInv(g)
    BY DEF ClusterInv
  <2>5. Retry(g) => passes'[g].pc = "idle"
    BY <1>0 DEF Retry, NoPass, BaseTypeOK
  <2>6. \A pc : Continue(g, pc) => passes'[g].pc = pc
    BY <1>0 DEF Continue, BaseTypeOK, Passes
  <2>7. ProductInv(g)'
    <3>1. CASE SyncNamespace(g)
      BY <1>0, <2>1, <2>4, <2>5, <2>6, <3>1
      DEF SyncNamespace, ProductInv, Bare, Erasing, BaseTypeOK
    <3>2. CASE SyncCodeRepo(g)
      BY <1>0, <2>1, <2>4, <2>5, <2>6, <3>2
      DEF SyncCodeRepo, ProductInv, Bare, Erasing, BaseTypeOK
    <3>3. CASE SyncArgoApp(g)
      <4>1. passes'[g].pc = "idle" /\ namespaces[g] = "live"
        BY <1>0, <2>4, <2>5, <3>3 DEF SyncArgoApp, ProductInv, NoPass, BaseTypeOK
      <4> QED
        BY <2>1, <2>4, <3>3, <4>1 DEF SyncArgoApp, ProductInv, Bare, Erasing
    <3>4. CASE DeleteArgoApp(g)
      <4>1. apps[g].phase = "absent" => apps'[g].phase = "absent"
        BY <1>0, <3>4 DEF DeleteArgoApp, BaseTypeOK
      <4> QED
        BY <2>1, <2>4, <2>6, <3>4, <4>1 DEF DeleteArgoApp, ProductInv, Bare, Erasing
    <3>5. CASE WaitForApp(g)
      BY <2>1, <2>4, <2>5, <2>6, <3>5 DEF WaitForApp, ProductInv, Bare, Erasing
    <3>6. CASE DeleteNamespace(g)
      <4>1. namespaces'[g] \in {"absent", "deleting"}
        BY <1>0, <3>6 DEF DeleteNamespace, BaseTypeOK
      <4> QED
        BY <2>1, <2>4, <2>6, <3>6, <4>1 DEF DeleteNamespace, ProductInv, Bare, Erasing
    <3>7. CASE WaitForNamespace(g)
      BY <2>1, <2>4, <2>5, <2>6, <3>7 DEF WaitForNamespace, ProductInv, Bare, Erasing
    <3>8. CASE AbortProductPass(g)
      BY <2>1, <2>4, <2>5, <3>8 DEF AbortProductPass, ProductInv, Bare, Erasing
    <3>9. CASE AppEnds(g)
      <4>1. apps'[g].phase = "absent"
        BY <1>0, <3>9 DEF AppEnds, Nothing, BaseTypeOK
      <4> QED
        BY <2>1, <2>4, <3>9, <4>1 DEF AppEnds, cluster, ProductInv, Bare, Erasing
    <3>10. CASE NamespaceEnds(g)
      <4>1. namespaces'[g] = "absent"
        BY <1>0, <3>10 DEF NamespaceEnds, BaseTypeOK
      <4> QED
        BY <2>1, <2>4, <3>10, <4>1 DEF NamespaceEnds, cluster, ProductInv, Bare, Erasing
    <3>11. CASE CodeRepoEnds(g)
      BY <2>4, <3>11 DEF CodeRepoEnds, cluster, ProductInv, Bare
    <3> QED
      BY <1>7, <3>1, <3>2, <3>3, <3>4, <3>5, <3>6, <3>7, <3>8, <3>9, <3>10, <3>11
  <2> QED
    BY <1>0, <2>1, <2>2, <2>3, <2>7, OneProductIsTouched
<1>8. ASSUME NEW g \in Groups, ReleaseProduct(g) PROVE ClusterInv'
  <2>1. CASE products[g].path # passes[g].path
    <3>1. UNCHANGED products /\ listing' = listing /\ passes'[g].pc = "idle"
      BY <1>0, <1>8, <2>1 DEF ReleaseProduct, Retry, NoPass, BaseTypeOK
    <3>2. NewAreAbsent'
      BY <3>1 DEF ClusterInv, NewAreAbsent
    <3>3. \A h \in Groups \ {g} : passes'[h] = passes[h]
      BY <1>0, <1>8, <2>1 DEF ReleaseProduct, Retry, BaseTypeOK
    <3>4. ProductInv(g)'
      BY <1>8, <3>1 DEF ReleaseProduct, ClusterInv, ProductInv, Bare, Erasing
    <3> QED
      BY <1>0, <1>8, <3>1, <3>2, <3>3, <3>4, OneProductIsTouched DEF ReleaseProduct
  <2>2. CASE products[g].path = passes[g].path
    <3>1. /\ products'[g].phase = "absent" /\ passes'[g].pc = "idle"
          /\ \A h \in Groups \ {g} : products'[h] = products[h] /\ passes'[h] = passes[h]
      BY <1>0, <1>8, <2>2 DEF ReleaseProduct, NoPass, NoProduct, BaseTypeOK
    <3>2. NewAreAbsent'
      BY <1>0, <1>8, <3>1 DEF ReleaseProduct, ClusterInv, NewAreAbsent, BaseTypeOK, Listings
    <3>3. ProductInv(g)'
      BY <1>8, <3>1 DEF ReleaseProduct, ClusterInv, ProductInv, Bare, Erasing
    <3> QED
      BY <1>0, <1>8, <3>1, <3>2, <3>3, OneProductIsTouched DEF ReleaseProduct
  <2> QED
    BY <2>1, <2>2
<1>9. CASE UNCHANGED baseVars
  BY <1>0, <1>9, RestKeepsClusterInv DEF baseVars, ClusterInv, NewAreAbsent
<1> QED
  BY <1>1, <1>2, <1>3, <1>4, <1>5, <1>6, <1>7, <1>8, <1>9
  DEF BaseNext, ListingStep, ProductStep

LEMMA NothingLeftFollows == ClusterInv => NothingLeftOfProduct
  BY DEF ClusterInv, ProductInv, Bare, NothingLeftOfProduct

\* Nothing of a product that is gone stays in the cluster, and its namespace
\* never goes before its application: whatever passes were killed or failed,
\* however often the product was moved, deleted and made again meanwhile.
THEOREM DeletionIsComplete == BaseSpec => []NothingLeftOfProduct
<1> QED
  BY InitClusterInv, NextClusterInv, NothingLeftFollows, PTL DEF BaseSpec

-----------------------------------------------------------------------------
(***************************************************************************)
(* Only products that were lost are deleted.  While no project comes or    *)
(* goes, the pages seen so far hold a prefix of GitLab's list, and the     *)
(* last of them reaches its end.                                           *)
(***************************************************************************)
Complete == \A g \in listing.counted : Found(g)

ListingInv ==
    /\ listing.pc = "pages" => listing.page <= listing.pages
    /\ listing.pc = "pages" /\ ~listing.raced =>
          /\ listing.counted = Hosted
          /\ listing.pages = Pages(Len(projects))
          /\ \A i \in DOMAIN projects :
                i <= (listing.page - 1) * PageSize => Found(projects[i])
    /\ listing.pc \in {"compare", "apply"} /\ ~listing.raced => Complete

LEMMA InitListingInv == BaseInit => ListingInv
  BY DEF BaseInit, ListingInv, NotListing

LEMMA NextListingInv ==
  BaseTypeOK /\ ListingInv /\ [BaseNext]_baseVars => ListingInv'
<1> SUFFICES ASSUME BaseTypeOK, ListingInv, [BaseNext]_baseVars PROVE ListingInv'
  OBVIOUS
<1> USE DEF gitlabState, objects, providerSide
<1>1. ASSUME NEW g \in Groups, AddProject(g) \/ RemoveProject(g) PROVE ListingInv'
  <2>1. /\ listing'.pc = listing.pc /\ listing'.page = listing.page
        /\ listing'.pages = listing.pages /\ listing'.found = listing.found
        /\ listing'.counted = listing.counted
        /\ ~listing'.raced => ~listing.raced /\ listing.pc # "pages"
    BY <1>1 DEF AddProject, RemoveProject, Race, BaseTypeOK, Listings
  <2> QED
    BY <2>1 DEF ListingInv, Complete, Found
<1>2. CASE CountProjects
  <2> DEFINE n == Pages(Len(projects))
  <2>1. n \in Nat /\ (n = 0 => Len(projects) = 0) /\ PageSize \in Nat
    BY PagesCover, BaseAssumption DEF BaseTypeOK
  <2>2. /\ listing'.pc = IF n = 0 THEN "compare" ELSE "pages"
        /\ listing'.pages = n /\ listing'.counted = Hosted
        /\ listing'.page = 1
    <3>1. NotListing.page = 1
      BY DEF NotListing
    <3> QED
      BY <1>2, <3>1, NotListingIsTyped DEF CountProjects, Listings
  <2>3. CASE n = 0
    <3>1. Hosted = {}
      BY <2>1, <2>3 DEF Hosted, BaseTypeOK
    <3> QED
      BY <2>2, <2>3, <3>1 DEF ListingInv, Complete
  <2>4. CASE n # 0
    <3>1. (1 - 1) * PageSize = 0
      BY <2>1
    <3>2. \A i \in DOMAIN projects : ~(i <= 0)
      BY DEF BaseTypeOK
    <3>3. UNCHANGED projects
      BY <1>2 DEF CountProjects
    <3> HIDE DEF n
    <3>4. listing'.pc = "pages" /\ listing'.page <= listing'.pages
      BY <2>1, <2>2, <2>4
    <3> QED
      BY <2>2, <3>1, <3>2, <3>3, <3>4 DEF ListingInv, Hosted, n, Pages
  <2> QED
    BY <2>3, <2>4
<1>3. CASE ListPage
  <2> DEFINE last == listing.page * PageSize
  <2>1. /\ listing'.pc = IF listing.page = listing.pages THEN "compare" ELSE "pages"
        /\ listing'.page = listing.page + 1 /\ listing'.pages = listing.pages
        /\ listing'.counted = listing.counted /\ listing'.raced = listing.raced
        /\ \A g \in Groups : listing'.found[g] =
              IF g \in Page(listing.page) THEN path[g] ELSE listing.found[g]
        /\ listing.pc = "pages" /\ UNCHANGED projects
    BY <1>3 DEF ListPage, BaseTypeOK, Listings
  <2>2. /\ listing.page \in Nat /\ listing.pages \in Nat /\ PageSize \in Nat
        /\ listing.page <= listing.pages
    BY <2>1, BaseAssumption DEF BaseTypeOK, Listings, ListingInv
  <2>3. listing.page # listing.pages => listing'.page <= listing'.pages
    BY <2>1, <2>2
  <2>4. (listing'.page - 1) * PageSize = last
    BY <2>1, <2>2
  <2>5. ASSUME ~listing.raced, NEW i \in DOMAIN projects, i <= last
        PROVE  Found(projects[i])'
    <3>1. projects[i] \in Groups /\ i \in Nat
      BY DEF BaseTypeOK
    <3>2. CASE i <= (listing.page - 1) * PageSize
      <4>1. Found(projects[i])
        BY <2>1, <2>5, <3>2 DEF ListingInv
      <4>2. \A g \in Groups : path[g] # NoPath
        BY BaseAssumption DEF BaseTypeOK
      <4> QED
        BY <2>1, <3>1, <4>1, <4>2 DEF Found
    <3>3. CASE (listing.page - 1) * PageSize < i
      <4>1. projects[i] \in Page(listing.page)
        BY <2>5, <3>3 DEF Page
      <4>2. path[projects[i]] # NoPath
        BY <3>1, BaseAssumption DEF BaseTypeOK
      <4> QED
        BY <2>1, <3>1, <4>1, <4>2 DEF Found
    <3>4. (listing.page - 1) * PageSize \in Int
      BY <2>2
    <3> QED
      BY <3>1, <3>2, <3>3, <3>4
  <2>6. CASE listing.page # listing.pages
    BY <2>1, <2>3, <2>4, <2>5, <2>6 DEF ListingInv, Hosted, Pages
  <2>7. CASE listing.page = listing.pages
    <3>1. ASSUME ~listing.raced, NEW g \in listing.counted PROVE Found(g)'
      <4>1. g \in Hosted /\ listing.page = Pages(Len(projects))
        BY <2>1, <2>7, <3>1 DEF ListingInv
      <4>2. Len(projects) <= last /\ Len(projects) \in Nat
        BY <4>1, PagesCover DEF BaseTypeOK
      <4>3. PICK i \in DOMAIN projects : g = projects[i]
        BY <4>1 DEF Hosted
      <4>4. i <= last
        BY <2>2, <4>2, <4>3 DEF BaseTypeOK
      <4> QED
        BY <2>1, <2>5, <3>1, <4>3, <4>4
    <3> QED
      BY <2>1, <2>7, <3>1 DEF ListingInv, Complete
  <2> QED
    BY <2>6, <2>7
<1>4. CASE Compare \/ \E g \in Groups : ApplyProduct(g)
  <2>1. /\ listing.pc \in {"compare", "apply"} /\ listing'.pc = "apply"
        /\ listing'.found = listing.found /\ listing'.counted = listing.counted
        /\ listing'.raced = listing.raced
    BY <1>4 DEF Compare, ApplyProduct, BaseTypeOK, Listings
  <2> QED
    BY <2>1 DEF ListingInv, Complete, Found
<1>5. CASE EndListing \/ AbortListing
  BY <1>5 DEF EndListing, AbortListing, NotListing, ListingInv
<1>6. ASSUME UNCHANGED <<projects, listing>> PROVE ListingInv'
  BY <1>6 DEF ListingInv, Complete, Found, Hosted, Pages
<1>7. ASSUME NEW g \in Groups,
             \/ \E p \in Paths : RenameGroup(g, p)
             \/ ProductStep(g) \/ AbortProductPass(g)
             \/ AppEnds(g) \/ NamespaceEnds(g) \/ CodeRepoEnds(g)
      PROVE UNCHANGED <<projects, listing>>
  BY <1>7
  DEF RenameGroup, ProductStep, StartPass, SyncNamespace, SyncCodeRepo, SyncArgoApp,
      DeleteArgoApp, WaitForApp, DeleteNamespace, WaitForNamespace, ReleaseProduct,
      AbortProductPass, AppEnds, NamespaceEnds, CodeRepoEnds, cluster
<1>8. CASE UNCHANGED baseVars
  BY <1>6, <1>8 DEF baseVars
<1> QED
  BY <1>1, <1>2, <1>3, <1>4, <1>5, <1>6, <1>7, <1>8 DEF BaseNext, ListingStep

\* No step takes a product out of "live" that its listing had counted in peace.
LEMMA StepLosesOnlyLost ==
  ASSUME ClusterInv, ListingInv, BaseNext
  PROVE  \A g \in Groups :
            products[g].phase = "live" /\ products'[g].phase # "live" =>
                g \notin listing.counted \/ listing.raced
<1> SUFFICES ASSUME NEW g \in Groups, products[g].phase = "live",
                    products'[g].phase # "live"
             PROVE  g \notin listing.counted \/ listing.raced
  OBVIOUS
<1>1. ASSUME NEW h \in Groups, ApplyProduct(h)
      PROVE  g \notin listing.counted \/ listing.raced
  <2>1. ~CreateProduct(h)
    BY <1>1 DEF ApplyProduct, CreateProduct, ClusterInv, NewAreAbsent, BaseTypeOK
  <2>2. ~UpdateProduct(h)
    BY DEF UpdateProduct, ClusterInv, BaseTypeOK, Products
  <2>3. DeleteProduct(h) /\ g = h
    BY <1>1, <2>1, <2>2
    DEF ApplyProduct, DeleteProduct, ProductGone, ClusterInv, BaseTypeOK
  <2> QED
    BY <1>1, <2>3 DEF ApplyProduct, DeleteProduct, ListingInv, Complete
<1>2. ASSUME NEW h \in Groups, StartPass(h) PROVE FALSE
  BY <1>2 DEF StartPass, ClusterInv, BaseTypeOK, Products
<1>3. ASSUME NEW h \in Groups, ReleaseProduct(h) PROVE FALSE
  <2>1. products[h].phase = "deleting"
    BY <1>3 DEF ReleaseProduct, ClusterInv, ProductInv, Erasing
  <2> QED
    BY <1>3, <2>1 DEF ReleaseProduct, ClusterInv, BaseTypeOK
<1>4. products' # products
  OBVIOUS
<1> QED
  BY <1>1, <1>2, <1>3, <1>4
  DEF BaseNext, ListingStep, ProductStep, AddProject, RemoveProject, RenameGroup,
      Change, CountProjects, ListPage, Compare, EndListing, AbortListing,
      SyncNamespace, SyncCodeRepo, SyncArgoApp, DeleteArgoApp, WaitForApp,
      DeleteNamespace, WaitForNamespace, AbortProductPass, AppEnds, NamespaceEnds,
      CodeRepoEnds, cluster

\* A product is deleted only when it was not in GitLab as the listing began, or
\* projects came or went during the listing.
THEOREM DeletedWereLost == BaseSpec => OnlyLostProductsAreDeleted
<1> DEFINE Lost == \A g \in Groups :
              products[g].phase = "live" /\ products'[g].phase # "live" =>
                  g \notin listing.counted \/ listing.raced
<1>1. ClusterInv => BaseTypeOK
  BY DEF ClusterInv
<1>2. ClusterInv /\ ListingInv /\ [BaseNext]_baseVars => [Lost]_baseVars
  BY StepLosesOnlyLost
<1> QED
  BY <1>1, <1>2, InitClusterInv, NextClusterInv, InitListingInv, NextListingInv, PTL
  DEF BaseSpec, OnlyLostProductsAreDeleted

-----------------------------------------------------------------------------
(***************************************************************************)
(* The platform.                                                           *)
(***************************************************************************)

\* A step of the platform is, to each of its parts, a step of that part or none.
LEMMA StepsAreOfParts ==
  [Next]_vars => /\ [ArgoNext]_argoVars /\ [KeysNext]_keysVars
                 /\ [GrantsNext]_grantsVars /\ [BaseNext]_baseVars
                 /\ UNCHANGED part
  BY DEF Next, vars

\* The invariants of the parts together.
PlatformInv == /\ part \in Parts
               /\ ArgoInv /\ KeysInv /\ GrantsInv /\ ClusterInv /\ ListingInv

LEMMA PlatformInvAlways == Spec => []PlatformInv
<1>1. Init => PlatformInv
  BY InitArgoInv, InitKeysInv, InitGrantsInv, InitClusterInv, InitListingInv
  DEF Init, PlatformInv
<1>2. PlatformInv /\ [Next]_vars => PlatformInv'
  <2>1. ClusterInv => BaseTypeOK
    BY DEF ClusterInv
  <2> QED
    BY <2>1, StepsAreOfParts, NextArgoInv, NextKeysInv, NextGrantsInv, NextClusterInv,
       NextListingInv DEF PlatformInv
<1> QED
  BY <1>1, <1>2, PTL DEF Spec

\* Every variable of every part keeps its type.
THEOREM TypeCorrect == Spec => []TypeOK
<1>1. PlatformInv => TypeOK
  BY DEF PlatformInv, TypeOK, ArgoInv, KeysInv, GrantsInv, ClusterInv
<1> QED
  BY <1>1, PlatformInvAlways, PTL

\* What the parts promise, all at once, of the entries in Argo CD, of the keys of the
\* repositories, of who may read whom, and of the products in the cluster.
THEOREM PartsKeepTheirPromises ==
  Spec => /\ [](/\ NothingLeftInArgo
                /\ UndisturbedSaveRepairs /\ UndisturbedDeleteErases
                /\ OnlyAllowedAreGranted /\ AllowedAreGranted
                /\ NothingLeftOfProduct)
          /\ OnlyLostProductsAreDeleted
<1> DEFINE Lost == \A g \in Groups :
              products[g].phase = "live" /\ products'[g].phase # "live" =>
                  g \notin listing.counted \/ listing.raced
<1>1. PlatformInv => /\ NothingLeftInArgo
                     /\ UndisturbedSaveRepairs /\ UndisturbedDeleteErases
                     /\ OnlyAllowedAreGranted /\ AllowedAreGranted
                     /\ NothingLeftOfProduct
  BY OnlyAllowedFollows, AllowedFollows, NothingLeftFollows, NothingInArgoFollows
  DEF PlatformInv, KeysInv
<1>2. PlatformInv /\ [Next]_vars => [Lost]_baseVars
  BY StepLosesOnlyLost, StepsAreOfParts DEF PlatformInv
<1> QED
  BY <1>1, <1>2, PlatformInvAlways, PTL DEF Spec, OnlyLostProductsAreDeleted
=============================================================================
