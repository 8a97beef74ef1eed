---------------------------- MODULE CodeRepoKeys ----------------------------
(***************************************************************************)
(* Saving and deleting a code repository in the api-server                 *)
(* (src/app/api-server/internal/biz/coderepo.go).  A save makes the GitLab *)
(* project and the CodeRepo resource, and gives the repository two deploy  *)
(* keys and an access token: each exists in GitLab under an ID, and its    *)
(* private half in the vault with that ID.  Nothing ties the two together  *)
(* but the order of the calls, and requests take no lock.                  *)
(*                                                                         *)
(* One project of GitLab is followed from its creation to its deletion.    *)
(***************************************************************************)
EXTENDS Naturals, Sequences, FiniteSets

CONSTANTS
    Savers,       \* requests that can be in progress at a time
    MaxRequests,  \* bound: requests
    MaxKeys,      \* bound: keys and tokens GitLab creates
    MaxFaults     \* bound: requests that fail without a reason of the model

ASSUME KeysAssumption == MaxRequests \in Nat /\ MaxKeys \in Nat /\ MaxFaults \in Nat

VARIABLES
    project,   \* the GitLab project: not made yet, there, or gone
    node,      \* the CodeRepo resource is in the product's repository
    gitlab,    \* IDs GitLab knows of each kind
    stored,    \* ID the vault holds of each kind, 0 for none
    request,   \* requests in progress
    made,      \* last ID GitLab gave
    requests, keyFaults,
    settled    \* history: what the last request achieved, undisturbed

keysVars == <<project, node, gitlab, stored, request, made, requests,
              keyFaults, settled>>

\* SaveCodeRepo's order: the read-write key, the read-only key, the token.
Items == <<"readwrite", "readonly", "accesstoken">>
\* DeleteCodeRepo's order for the secrets.
Secrets == <<"readonly", "readwrite", "accesstoken">>
Kinds == {Items[i] : i \in DOMAIN Items}
DeployKeyKinds == Kinds \ {"accesstoken"}
KeyIds == 1 .. MaxKeys

Free == [op |-> "none", pc |-> "free", item |-> 1, id |-> 0, todo |-> {},
         alone |-> FALSE]

Requests ==
    [op: {"none", "save", "delete"},
     pc: {"free", "node", "look", "check", "drop", "create", "store",
          "prune", "unlink", "forget", "list", "erase"},
     item: 1 .. Len(Items), id: 0 .. MaxKeys,
     todo: SUBSET (Kinds \X KeyIds), alone: BOOLEAN]

KeysTypeOK ==
    /\ project \in {"unmade", "there", "gone"}
    /\ node \in BOOLEAN
    /\ gitlab \in [Kinds -> SUBSET KeyIds]
    /\ stored \in [Kinds -> 0 .. MaxKeys]
    /\ request \in [Savers -> Requests]
    /\ made \in 0 .. MaxKeys
    /\ requests \in 0 .. MaxRequests
    /\ keyFaults \in 0 .. MaxFaults
    /\ settled \in {"none", "saved", "deleted"}

KeysInit ==
    /\ project = "unmade" /\ node = FALSE
    /\ gitlab = [k \in Kinds |-> {}]
    /\ stored = [k \in Kinds |-> 0]
    /\ request = [s \in Savers |-> Free]
    /\ made = 0 /\ requests = 0 /\ keyFaults = 0
    /\ settled = "none"

-----------------------------------------------------------------------------
Busy(s) == request[s].pc # "free"
Item(s) == Items[request[s].item]
To(s, pc) == request' = [request EXCEPT ![s].pc = pc]

\* An error of any call is returned: the request ends where it is.
Fail(s) == request' = [request EXCEPT ![s] = Free]

\* Requests are alike, so a new one takes the first place that is free.  It
\* begins with its first effect.
CanBegin == requests < MaxRequests /\ project # "gone" /\ \E s \in Savers : ~Busy(s)
Begin(op, pc) ==
    /\ requests' = requests + 1
    /\ settled' = "none"
    /\ LET s == CHOOSE t \in Savers : ~Busy(t) IN
       request' = [t \in Savers |->
          IF t = s THEN [Free EXCEPT !.op = op, !.pc = pc,
                             !.alone = \A u \in Savers : ~Busy(u)]
                   ELSE [request[t] EXCEPT !.alone = FALSE]]
    /\ UNCHANGED <<gitlab, stored, made, keyFaults>>

Succeed(s) ==
    /\ request' = [request EXCEPT ![s] = Free]
    /\ settled' = IF ~request[s].alone THEN settled
                  ELSE IF request[s].op = "save" THEN "saved" ELSE "deleted"

bounds == <<requests, keyFaults>>

\* SaveCodeRepo begins with saveRepository: the project is made or updated.
\* (One that was deleted is made anew, under another ID: another project.)
SaveRepository ==
    /\ CanBegin
    /\ project' = "there"
    /\ Begin("save", "node")
    /\ UNCHANGED node

SaveNode(s) ==
    /\ request[s].pc = "node"
    /\ node' = TRUE
    /\ To(s, "look")
    /\ UNCHANGED <<project, gitlab, stored, made, bounds, settled>>

\* Mutant: the token is taken for one more deploy key.
NextItemAlways(s) ==
    request' = [request EXCEPT ![s].pc = "look", ![s].item = @ + 1]

\* After a deploy key comes the next kind, after the token the removal of the
\* other tokens.
NextItem(s) ==
    IF Item(s) = "accesstoken" THEN To(s, "prune")
    ELSE request' = [request EXCEPT ![s].pc = "look", ![s].item = @ + 1]

Listed(s, kinds) ==
    request' = [request EXCEPT
        ![s].pc = "drop",
        ![s].todo = {e \in kinds \X KeyIds : e[2] \in gitlab[e[1]]}]

\* saveDeployKey and saveAccessToken ask the vault.  Without a secret the keys
\* of the same title are listed, to be deleted (clearDeployKeyWithSameName).
LookUpSecret(s) ==
    /\ request[s].pc = "look"
    /\ IF stored[Item(s)] # 0
       THEN request' = [request EXCEPT ![s].pc = "check",
                                       ![s].id = stored[Item(s)]]
       ELSE IF Item(s) = "accesstoken" THEN To(s, "create")
       ELSE IF project = "there" THEN Listed(s, {Item(s)})
       ELSE Fail(s)
    /\ UNCHANGED <<project, node, gitlab, stored, made, bounds, settled>>

\* Mutant: a key the vault holds is taken to be in GitLab.
CheckKeyOfVault(s) ==
    /\ request[s].pc = "check"
    /\ NextItem(s)
    /\ UNCHANGED <<project, node, gitlab, stored, made, bounds, settled>>

\* Then GitLab, for the ID the vault gave.
CheckKey(s) ==
    /\ request[s].pc = "check"
    /\ IF request[s].id \in gitlab[Item(s)] THEN NextItem(s) ELSE To(s, "create")
    /\ UNCHANGED <<project, node, gitlab, stored, made, bounds, settled>>

\* The listed keys are deleted one by one; one that is gone is an error.
DropListed(s) ==
    /\ request[s].pc = "drop"
    /\ \E e \in request[s].todo :
          IF e[2] \in gitlab[e[1]]
          THEN /\ gitlab' = [gitlab EXCEPT ![e[1]] = @ \ {e[2]}]
               /\ request' = [request EXCEPT ![s].todo = @ \ {e}]
          ELSE Fail(s) /\ UNCHANGED gitlab
    /\ UNCHANGED <<project, node, stored, made, bounds, settled>>

DropDone(s) ==
    /\ request[s].pc = "drop" /\ request[s].todo = {}
    /\ IF request[s].op = "delete" THEN To(s, "erase") /\ UNCHANGED settled
       ELSE IF Item(s) = "accesstoken" THEN Succeed(s)
       ELSE To(s, "create") /\ UNCHANGED settled
    /\ UNCHANGED <<project, node, gitlab, stored, made, bounds>>

\* A key goes to GitLab first ...
CreateInGitlab(s) ==
    /\ request[s].pc = "create"
    /\ IF project = "there"
       THEN /\ made < MaxKeys
            /\ made' = made + 1
            /\ gitlab' = [gitlab EXCEPT ![Item(s)] = @ \cup {made'}]
            /\ request' = [request EXCEPT ![s].pc = "store", ![s].id = made']
       ELSE Fail(s) /\ UNCHANGED <<made, gitlab>>
    /\ UNCHANGED <<project, node, stored, bounds, settled>>

\* ... and then to the vault.
StoreSecret(s) ==
    /\ request[s].pc = "store"
    /\ stored' = [stored EXCEPT ![Item(s)] = request[s].id]
    /\ NextItem(s)
    /\ UNCHANGED <<project, node, gitlab, made, bounds, settled>>

\* removeInvalidProjectAccessTokens keeps the token the request found or made.
PruneTokens(s) ==
    /\ request[s].pc = "prune"
    /\ IF project = "there"
       THEN request' = [request EXCEPT
                ![s].pc = "drop",
                ![s].todo = {"accesstoken"} \X
                            (gitlab["accesstoken"] \ {request[s].id})]
       ELSE Fail(s)
    /\ UNCHANGED <<project, node, gitlab, stored, made, bounds, settled>>

\* DeleteCodeRepo: without a project there is nothing to do, without the
\* resource the request is refused: also when an earlier deletion removed it
\* and failed afterwards.
FindRepository ==
    /\ CanBegin
    /\ project = "there" /\ node
    /\ Begin("delete", "unlink")
    /\ UNCHANGED <<project, node>>

RemoveNode(s) ==
    /\ request[s].pc = "unlink"
    /\ node' = FALSE
    /\ IF node THEN To(s, "forget") ELSE Fail(s)
    /\ UNCHANGED <<project, gitlab, stored, made, bounds, settled>>

\* Mutant: the deletion stops before the last secret.
RemoveSecretButLast(s) ==
    /\ request[s].pc = "forget"
    /\ stored' = [stored EXCEPT ![Secrets[request[s].item]] = 0]
    /\ IF request[s].item = Len(Secrets) - 1 THEN To(s, "list")
       ELSE request' = [request EXCEPT ![s].item = @ + 1]
    /\ UNCHANGED <<project, node, gitlab, made, bounds, settled>>

\* deleteReadOnlySecret, deleteReadWriteSecret, deleteAccessTokenSecret.
RemoveSecret(s) ==
    /\ request[s].pc = "forget"
    /\ stored' = [stored EXCEPT ![Secrets[request[s].item]] = 0]
    /\ IF request[s].item = Len(Secrets) THEN To(s, "list")
       ELSE request' = [request EXCEPT ![s].item = @ + 1]
    /\ UNCHANGED <<project, node, gitlab, made, bounds, settled>>

\* deleteDeployKeys takes every deploy key of the project.
ListDeployKeys(s) ==
    /\ request[s].pc = "list"
    /\ IF project = "there" THEN Listed(s, DeployKeyKinds) ELSE Fail(s)
    /\ UNCHANGED <<project, node, gitlab, stored, made, bounds, settled>>

RemoveRepository(s) ==
    /\ request[s].pc = "erase"
    /\ IF project = "there"
       THEN /\ project' = "gone"
            /\ gitlab' = [k \in Kinds |-> {}]
            /\ Succeed(s)
       ELSE Fail(s) /\ UNCHANGED <<project, gitlab, settled>>
    /\ UNCHANGED <<node, stored, made, bounds>>

\* A call fails for a reason of its own, or the server stops.
RequestFails(s) ==
    /\ Busy(s) /\ keyFaults < MaxFaults
    /\ keyFaults' = keyFaults + 1
    /\ Fail(s)
    /\ UNCHANGED <<project, node, gitlab, stored, made, requests, settled>>

SaveStep(s) ==
    \/ SaveNode(s) \/ LookUpSecret(s) \/ CheckKey(s)
    \/ DropListed(s) \/ DropDone(s) \/ CreateInGitlab(s) \/ StoreSecret(s)
    \/ PruneTokens(s)
DeleteStep(s) ==
    \/ RemoveNode(s) \/ RemoveSecret(s)
    \/ ListDeployKeys(s) \/ RemoveRepository(s)

KeysNext ==
    \/ SaveRepository \/ FindRepository
    \/ \E s \in Savers : SaveStep(s) \/ DeleteStep(s) \/ RequestFails(s)

KeysSpec == KeysInit /\ [][KeysNext]_keysVars

-----------------------------------------------------------------------------
\* Whatever overlapping and failed requests left behind, a save that runs
\* alone and succeeds repairs it: the resource is there, GitLab knows every key
\* the vault holds, and no token but that of the vault opens the repository.
\* (Deploy keys of an earlier failure stay: removeInvalidDeploykey has no
\* caller.)
UndisturbedSaveRepairs ==
    settled = "saved" =>
        /\ project = "there" /\ node
        /\ \A k \in Kinds : stored[k] \in gitlab[k]
        /\ gitlab["accesstoken"] = {stored["accesstoken"]}

\* A deletion that runs alone and succeeds leaves neither the resource nor a
\* secret behind, whatever state it found.
UndisturbedDeleteErases ==
    settled = "deleted" =>
        /\ project = "gone" /\ ~node
        /\ \A k \in Kinds : stored[k] = 0 /\ gitlab[k] = {}
=============================================================================
