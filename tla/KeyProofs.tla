----------------------------- MODULE KeyProofs -----------------------------
(***************************************************************************)
(* Theorems about the two kinds of request that handle keys.               *)
(*                                                                         *)
(* CodeRepoKeys: what an undisturbed save or deletion achieves, for any    *)
(* number of requests, keys and failures before it.  A request that has    *)
(* been alone so far has seen every step since it began                    *)
(* (AloneIsTheOnlyOne), so what it has done is still so.  A save has       *)
(* brought vault and GitLab together for the kinds it is done with, and    *)
(* keeps that while it works on the others (SaveIsGettingOn); a deletion   *)
(* has emptied the vault of the kinds it is done with (DeleteIsGettingOn). *)
(*                                                                         *)
(* KeyAuthorization: what an undisturbed refresh leaves open, for any      *)
(* repositories, bindings and number of requests, failures and crashes     *)
(* before it.  A request that has been alone so far knows the product's    *)
(* resources as they are, and lists every key that is enabled              *)
(* (LoneGetsOn).  What it clears depends on a cache that others have       *)
(* filled: the cache holds no key that is not enabled, unless a request    *)
(* that has revoked some is about to reset it or the server hangs          *)
(* (CacheIsFresh).                                                         *)
(***************************************************************************)
EXTENDS CodeRepoKeys, KeyAuthorization, TLAPS

-----------------------------------------------------------------------------
(* The keys of a code repository.                                          *)

Alone(s) == Busy(s) /\ request[s].alone

AloneIsTheOnlyOne == \A s, t \in Savers : Alone(s) /\ Busy(t) => s = t

SettledIsOver == settled # "none" => \A s \in Savers : ~Busy(s)

\* The kinds a save is done with.
Done(s) == {Items[i] : i \in 1 .. request[s].item - 1}
InStep(k) == stored[k] \in gitlab[k]

SavePcs == {"node", "look", "check", "drop", "create", "store", "prune"}

SaveIsGettingOn(s) ==
    LET r == request[s] IN
    /\ r.pc \in SavePcs /\ project = "there"
    /\ r.pc # "node" => node /\ \A k \in Done(s) : InStep(k)
    /\ r.pc = "node" => r.item = 1
    /\ r.pc = "check" => r.id = stored[Item(s)]
    /\ r.pc = "store" => r.id \in gitlab[Item(s)]
    /\ r.pc = "prune" => Item(s) = "accesstoken"
    /\ r.pc = "prune" \/ (r.pc = "drop" /\ Item(s) = "accesstoken") =>
          InStep("accesstoken") /\ r.id = stored["accesstoken"]
    /\ r.pc = "drop" =>
          \A e \in r.todo : e[1] = Item(s) /\ (Item(s) = "accesstoken" => e[2] # r.id)
    /\ r.pc = "drop" /\ Item(s) = "accesstoken" =>
          \A i \in gitlab["accesstoken"] : i = r.id \/ <<"accesstoken", i>> \in r.todo

Forgotten(s) == {Secrets[i] : i \in 1 .. request[s].item - 1}
DeletePcs == {"unlink", "forget", "list", "drop", "erase"}

DeleteIsGettingOn(s) ==
    LET r == request[s] IN
    /\ r.pc \in DeletePcs
    /\ r.pc # "unlink" => ~node
    /\ r.pc = "unlink" => r.item = 1
    /\ r.pc = "forget" => \A k \in Forgotten(s) : stored[k] = 0
    /\ r.pc \in {"list", "drop", "erase"} => \A k \in Kinds : stored[k] = 0

AloneGetsOn ==
    \A s \in Savers : Alone(s) =>
        \/ request[s].op = "save" /\ SaveIsGettingOn(s)
        \/ request[s].op = "delete" /\ DeleteIsGettingOn(s)

KeysInv ==
    /\ KeysTypeOK /\ AloneIsTheOnlyOne /\ SettledIsOver /\ AloneGetsOn
    /\ UndisturbedSaveRepairs /\ UndisturbedDeleteErases

-----------------------------------------------------------------------------
\* KeysTypeOK but for the request in hand.
RestTyped ==
    /\ project \in {"unmade", "there", "gone"}
    /\ node \in BOOLEAN
    /\ gitlab \in [Kinds -> SUBSET KeyIds]
    /\ stored \in [Kinds -> 0 .. MaxKeys]
    /\ made \in 0 .. MaxKeys
    /\ requests \in 0 .. MaxRequests
    /\ keyFaults \in 0 .. MaxFaults

LEMMA KindFacts ==
  /\ Kinds = {"readwrite", "readonly", "accesstoken"}
  /\ Len(Items) = 3 /\ Len(Secrets) = 3
  /\ Items[1] = "readwrite" /\ Items[2] = "readonly" /\ Items[3] = "accesstoken"
  /\ Secrets[1] = "readonly" /\ Secrets[2] = "readwrite" /\ Secrets[3] = "accesstoken"
<1>1. Len(Items) = 3 /\ Len(Secrets) = 3 /\ DOMAIN Items = 1 .. 3
  BY DEF Items, Secrets
<1>2. /\ Items[1] = "readwrite" /\ Items[2] = "readonly" /\ Items[3] = "accesstoken"
      /\ Secrets[1] = "readonly" /\ Secrets[2] = "readwrite"
      /\ Secrets[3] = "accesstoken"
  BY DEF Items, Secrets
<1>3. Kinds = {Items[i] : i \in 1 .. 3}
  BY <1>1 DEF Kinds
<1>4. \A i \in 1 .. 3 : i = 1 \/ i = 2 \/ i = 3
  OBVIOUS
<1>5. Kinds = {"readwrite", "readonly", "accesstoken"}
  BY <1>2, <1>3, <1>4
<1> QED
  BY <1>1, <1>2, <1>5

LEMMA ItemFacts ==
  ASSUME NEW i \in 1 .. 3
  PROVE  /\ Items[i] \in Kinds /\ Secrets[i] \in Kinds
         /\ Items[i] = "accesstoken" <=> i = 3
         /\ \A j \in 1 .. 3 : j # i => Items[j] # Items[i] /\ Secrets[j] # Secrets[i]
<1>1. \A j \in 1 .. 3 : j = 1 \/ j = 2 \/ j = 3
  OBVIOUS
<1> QED
  BY <1>1, KindFacts

LEMMA FreeFacts ==
  /\ Free \in Requests /\ Free.pc = "free" /\ Free.item = 1 /\ ~Free.alone
<1>1. 1 \in 1 .. Len(Items) /\ 0 \in 0 .. MaxKeys
  BY KindFacts, KeysAssumption
<1> QED
  BY <1>1 DEF Free, Requests

LEMMA InitKeysInv == KeysInit => KeysInv
<1> SUFFICES ASSUME KeysInit PROVE KeysInv
  OBVIOUS
<1>1. KeysTypeOK
  <2>1. 0 \in 0 .. MaxKeys /\ 0 \in 0 .. MaxRequests /\ 0 \in 0 .. MaxFaults
    BY KeysAssumption
  <2> QED
    BY <2>1, FreeFacts DEF KeysInit, KeysTypeOK
<1>2. \A s \in Savers : ~Busy(s)
  BY FreeFacts DEF KeysInit, Busy
<1>3. settled = "none"
  BY DEF KeysInit
<1> QED
  BY <1>1, <1>2, <1>3
  DEF KeysInv, AloneIsTheOnlyOne, SettledIsOver, AloneGetsOn, Alone,
      UndisturbedSaveRepairs, UndisturbedDeleteErases

\* A step of request s that does not end in success: nobody else is disturbed,
\* for if s is alone there is nobody else, and if not, nobody is alone.
LEMMA Advance ==
  ASSUME KeysInv, NEW s \in Savers, Busy(s), NEW r \in Requests,
         request' = [request EXCEPT ![s] = r],
         r.pc # "free" => r.op = request[s].op /\ (r.alone => request[s].alone),
         settled' = settled, RestTyped',
         Alone(s) /\ r.pc # "free" /\ r.op = "save" /\ SaveIsGettingOn(s)
            => SaveIsGettingOn(s)',
         Alone(s) /\ r.pc # "free" /\ r.op = "delete" /\ DeleteIsGettingOn(s)
            => DeleteIsGettingOn(s)'
  PROVE  KeysInv'
<1>1. request \in [Savers -> Requests] /\ settled = "none"
  BY DEF KeysInv, KeysTypeOK, SettledIsOver
<1>2. request'[s] = r /\ \A t \in Savers : t # s => request'[t] = request[t]
  BY <1>1
<1>3. KeysTypeOK'
  BY <1>1 DEF KeysTypeOK, RestTyped
<1>4. \A t \in Savers : t # s => ~Alone(t)
  BY DEF KeysInv, AloneIsTheOnlyOne
<1>5. \A t \in Savers : Alone(t)' => t = s /\ Alone(s) /\ r.pc # "free"
  BY <1>2, <1>4 DEF Alone, Busy
<1>6. AloneIsTheOnlyOne'
  <2> SUFFICES ASSUME NEW u \in Savers, NEW t \in Savers, Alone(u)', Busy(t)'
               PROVE  u = t
    BY DEF AloneIsTheOnlyOne
  <2>1. u = s /\ Alone(s)
    BY <1>5
  <2>2. t = s \/ Busy(t)
    BY <1>2 DEF Busy
  <2> QED
    BY <2>1, <2>2 DEF KeysInv, AloneIsTheOnlyOne
<1>7. AloneGetsOn'
  <2> SUFFICES ASSUME Alone(s), r.pc # "free"
               PROVE  \/ request'[s].op = "save" /\ SaveIsGettingOn(s)'
                      \/ request'[s].op = "delete" /\ DeleteIsGettingOn(s)'
    BY <1>5 DEF AloneGetsOn
  <2>1. \/ request[s].op = "save" /\ SaveIsGettingOn(s)
        \/ request[s].op = "delete" /\ DeleteIsGettingOn(s)
    BY DEF KeysInv, AloneGetsOn
  <2>2. r.op = request[s].op /\ request'[s].op = r.op
    BY <1>2
  <2> QED
    BY <2>1, <2>2
<1>8. SettledIsOver' /\ UndisturbedSaveRepairs' /\ UndisturbedDeleteErases'
  BY <1>1 DEF SettledIsOver, UndisturbedSaveRepairs, UndisturbedDeleteErases
<1> QED
  BY <1>3, <1>6, <1>7, <1>8 DEF KeysInv

LEMMA Failed ==
  ASSUME KeysInv, NEW s \in Savers, Busy(s), Fail(s), settled' = settled, RestTyped'
  PROVE  KeysInv'
BY FreeFacts, Advance DEF Fail

\* An undisturbed request succeeds: no request is left, and what it has
\* achieved is recorded.
LEMMA Finished ==
  ASSUME KeysInv, NEW s \in Savers, Busy(s), Succeed(s), RestTyped',
         Alone(s) /\ request[s].op = "save" => 
            /\ project' = "there" /\ node'
            /\ \A k \in Kinds : stored'[k] \in gitlab'[k]
            /\ gitlab'["accesstoken"] = {stored'["accesstoken"]},
         Alone(s) /\ request[s].op = "delete" =>
            /\ project' = "gone" /\ ~node'
            /\ \A k \in Kinds : stored'[k] = 0 /\ gitlab'[k] = {}
  PROVE  KeysInv'
<1>1. CASE ~request[s].alone
  BY <1>1, Failed DEF Succeed, Fail
<1>2. CASE request[s].alone
  <2>1. Alone(s)
    BY <1>2 DEF Alone
  <2>2. request \in [Savers -> Requests]
    BY DEF KeysInv, KeysTypeOK
  <2>3. request' = [request EXCEPT ![s] = Free]
    BY DEF Succeed
  <2>4. \A t \in Savers : ~Busy(t)'
    <3> SUFFICES ASSUME NEW t \in Savers PROVE ~Busy(t)'
      OBVIOUS
    <3>1. CASE t = s
      BY <2>2, <2>3, <3>1, FreeFacts DEF Busy
    <3>2. CASE t # s
      <4>1. ~Busy(t)
        BY <2>1, <3>2 DEF KeysInv, AloneIsTheOnlyOne
      <4> QED
        BY <2>2, <2>3, <3>2, <4>1 DEF Busy
    <3> QED
      BY <3>1, <3>2
  <2>5. \/ request[s].op = "save" /\ settled' = "saved"
        \/ request[s].op = "delete" /\ settled' = "deleted"
    <3>1. request[s].op \in {"save", "delete"}
      BY <2>1 DEF KeysInv, AloneGetsOn
    <3> QED
      BY <1>2, <3>1 DEF Succeed
  <2>6. KeysTypeOK'
    BY <2>2, <2>3, <2>5, FreeFacts DEF KeysTypeOK, RestTyped
  <2>7. UndisturbedSaveRepairs' /\ UndisturbedDeleteErases'
    BY <2>1, <2>5 DEF UndisturbedSaveRepairs, UndisturbedDeleteErases
  <2> QED
    BY <2>4, <2>6, <2>7
    DEF KeysInv, AloneIsTheOnlyOne, SettledIsOver, AloneGetsOn, Alone
<1> QED
  BY <1>1, <1>2

\* A new request is alone if it finds nobody, and nobody is alone any longer.
LEMMA Begun ==
  ASSUME KeysInv, CanBegin, NEW op \in {"save", "delete"}, NEW pc \in {"node", "unlink"},
         Begin(op, pc),
         project' \in {"unmade", "there", "gone"}, node' = node,
         op = "save" => pc = "node" /\ project' = "there",
         op = "delete" => pc = "unlink"
  PROVE  KeysInv'
<1>1. PICK s \in Savers : ~Busy(s) /\ s = CHOOSE t \in Savers : ~Busy(t)
  BY DEF CanBegin
<1>0. PICK first \in BOOLEAN : first = \A u \in Savers : ~Busy(u)
  OBVIOUS
<1> DEFINE r == [Free EXCEPT !.op = op, !.pc = pc, !.alone = first]
<1>2. /\ request' = [t \in Savers |->
              IF t = s THEN r ELSE [request[t] EXCEPT !.alone = FALSE]]
      /\ settled' = "none" /\ requests' = requests + 1
      /\ gitlab' = gitlab /\ stored' = stored /\ made' = made
      /\ keyFaults' = keyFaults
  BY <1>0, <1>1, Zenon DEF Begin
<1>3. /\ r \in Requests /\ r.op = op /\ r.pc = pc /\ r.item = 1
      /\ r.alone => \A u \in Savers : ~Busy(u)
  <2>1. 1 \in 1 .. Len(Items) /\ 0 \in 0 .. MaxKeys
    BY KindFacts, KeysAssumption
  <2>2. r \in Requests /\ r.op = op /\ r.pc = pc /\ r.item = 1
    BY <2>1 DEF Free, Requests
  <2>3. r.alone = first
    BY DEF Free
  <2> QED
    BY <1>0, <2>2, <2>3
<1> HIDE DEF r
<1>4. request \in [Savers -> Requests]
  BY DEF KeysInv, KeysTypeOK
<1>5. request'[s] = r /\ \A t \in Savers : t # s =>
         /\ request'[t] \in Requests /\ ~request'[t].alone
         /\ request'[t].pc = request[t].pc
  BY <1>1, <1>2, <1>4 DEF Requests
<1>6. KeysTypeOK'
  <2>1. requests' \in 0 .. MaxRequests
    BY <1>2, KeysAssumption DEF CanBegin, KeysInv, KeysTypeOK
  <2>2. request' \in [Savers -> Requests]
    <3>1. \A t \in Savers : request'[t] \in Requests
      BY <1>3, <1>5
    <3> QED
      BY <1>2, <3>1
  <2> QED
    BY <1>2, <2>1, <2>2 DEF KeysInv, KeysTypeOK
<1>7. \A t \in Savers : Alone(t)' => t = s /\ \A u \in Savers : ~Busy(u)
  BY <1>3, <1>5 DEF Alone
<1>8. AloneIsTheOnlyOne'
  BY <1>5, <1>7 DEF AloneIsTheOnlyOne, Busy
<1>9. AloneGetsOn'
  <2>1. CASE op = "save"
    <3>1. SaveIsGettingOn(s)' /\ request'[s].op = "save"
      BY <1>3, <1>5, <2>1 DEF SaveIsGettingOn, SavePcs
    <3> QED
      BY <1>7, <3>1 DEF AloneGetsOn
  <2>2. CASE op = "delete"
    <3>1. DeleteIsGettingOn(s)' /\ request'[s].op = "delete"
      BY <1>3, <1>5, <2>2 DEF DeleteIsGettingOn, DeletePcs
    <3> QED
      BY <1>7, <3>1 DEF AloneGetsOn
  <2> QED
    BY <2>1, <2>2
<1> QED
  BY <1>2, <1>6, <1>8, <1>9
  DEF KeysInv, SettledIsOver, UndisturbedSaveRepairs, UndisturbedDeleteErases

-----------------------------------------------------------------------------
\* A request one step further is a request.
Pcs == {"free", "node", "look", "check", "drop", "create", "store", "prune",
        "unlink", "forget", "list", "erase"}
Places == 1 .. 3
Ids == 0 .. MaxKeys
Todos == SUBSET (Kinds \X KeyIds)

LEMMA Updated ==
  ASSUME NEW x \in Requests, NEW pc \in Pcs
  PROVE  /\ [x EXCEPT !.pc = pc] \in Requests
         /\ \A i \in Places : [x EXCEPT !.pc = pc, !.item = i] \in Requests
         /\ \A i \in Places : [x EXCEPT !.item = i] \in Requests
         /\ \A n \in Ids : [x EXCEPT !.pc = pc, !.id = n] \in Requests
         /\ \A t \in Todos : [x EXCEPT !.pc = pc, !.todo = t] \in Requests
         /\ \A t \in Todos : [x EXCEPT !.todo = t] \in Requests
<1>1. Requests = [op: {"none", "save", "delete"}, pc: Pcs, item: Places,
                  id: Ids, todo: Todos, alone: BOOLEAN]
  BY KindFacts, Zenon DEF Requests, Pcs, Places, Ids, Todos
<1> QED
  BY <1>1

\* What a request in progress gives the proofs of its steps.
LEMMA RequestFacts ==
  ASSUME KeysInv, NEW s \in Savers
  PROVE  /\ request \in [Savers -> Requests] /\ request[s] \in Requests
         /\ request[s].item \in 1 .. 3 /\ request[s].id \in 0 .. MaxKeys
         /\ request[s].todo \in Todos /\ request[s].todo \in SUBSET (Kinds \X KeyIds)
         /\ RestTyped
         /\ Item(s) \in Kinds
         /\ Item(s) = "accesstoken" <=> request[s].item = 3
<1>1. request \in [Savers -> Requests] /\ request[s] \in Requests /\ RestTyped
  BY DEF KeysInv, KeysTypeOK, RestTyped
<1>2. /\ request[s].item \in 1 .. 3 /\ request[s].id \in 0 .. MaxKeys
      /\ request[s].todo \in SUBSET (Kinds \X KeyIds)
  BY <1>1, KindFacts DEF Requests
<1> QED
  BY <1>1, <1>2, ItemFacts DEF Item, Todos

\* The kinds done with lie before the one in hand; with the token in hand they
\* are the deploy keys.
LEMMA DoneFacts ==
  ASSUME KeysInv, NEW s \in Savers
  PROVE  /\ \A k \in Done(s) : k \in Kinds /\ k # Item(s)
         /\ request[s].item = 1 => Done(s) = {}
         /\ request[s].item = 3 => Done(s) = Kinds \ {"accesstoken"}
<1>1. request[s].item \in 1 .. 3
  BY RequestFacts
<1>2. \A i \in 1 .. request[s].item - 1 : i \in 1 .. 3 /\ i # request[s].item
  BY <1>1
<1>3. \A k \in Done(s) : k \in Kinds /\ k # Item(s)
  BY <1>1, <1>2, ItemFacts DEF Done, Item
<1>4. ASSUME request[s].item = 1 PROVE Done(s) = {}
  <2>1. 1 .. request[s].item - 1 = {}
    BY <1>4
  <2> QED
    BY <2>1 DEF Done
<1>5. ASSUME request[s].item = 3 PROVE Done(s) = Kinds \ {"accesstoken"}
  <2>1. \A i \in 1 .. request[s].item - 1 : i = 1 \/ i = 2
    BY <1>5
  <2>2. 1 \in 1 .. request[s].item - 1 /\ 2 \in 1 .. request[s].item - 1
    BY <1>5
  <2> QED
    BY <2>1, <2>2, KindFacts DEF Done
<1> QED
  BY <1>3, <1>4, <1>5

\* The next kind: what is done now includes the one that was in hand.
LEMMA NextItemFacts ==
  ASSUME KeysInv, NEW s \in Savers, NextItem(s), Item(s) # "accesstoken"
  PROVE  /\ [request[s] EXCEPT !.pc = "look", !.item = @ + 1] \in Requests
         /\ request' = [request EXCEPT ![s] =
                           [request[s] EXCEPT !.pc = "look", !.item = @ + 1]]
         /\ Done(s)' = Done(s) \cup {Item(s)}
<1>1. request[s].item \in 1 .. 2 /\ request[s].item + 1 \in 1 .. Len(Items)
  BY RequestFacts, KindFacts
<1>2. [request[s] EXCEPT !.pc = "look", !.item = @ + 1] \in Requests
  <2>1. request[s].item + 1 \in Places /\ "look" \in Pcs
    BY <1>1 DEF Places, Pcs
  <2>2. [request[s] EXCEPT !.pc = "look", !.item = @ + 1]
           = [request[s] EXCEPT !.pc = "look", !.item = request[s].item + 1]
    OBVIOUS
  <2> QED
    BY <2>1, <2>2, RequestFacts, Updated
<1>3. request' = [request EXCEPT ![s] =
                     [request[s] EXCEPT !.pc = "look", !.item = @ + 1]]
  BY DEF NextItem
<1>4. request'[s].item = request[s].item + 1
  BY <1>3, RequestFacts DEF Requests
<1>5. 1 .. request'[s].item - 1 = (1 .. request[s].item - 1) \cup {request[s].item}
  BY <1>1, <1>4
<1>6. Done(s)' = Done(s) \cup {Item(s)}
  BY <1>5 DEF Done, Item
<1> QED
  BY <1>2, <1>3, <1>6

LEMMA SaveNodeKeeps ==
  ASSUME KeysInv, NEW s \in Savers, SaveNode(s) PROVE KeysInv'
<1> DEFINE r == [request[s] EXCEPT !.pc = "look"]
<1>1. request' = [request EXCEPT ![s] = r] /\ r \in Requests
  BY RequestFacts, Updated DEF SaveNode, To, Pcs
<1>2. r.op = request[s].op /\ (r.alone => request[s].alone) /\ r.pc = "look"
  BY RequestFacts DEF Requests
<1>3. RestTyped'
  BY RequestFacts DEF SaveNode, RestTyped, bounds
<1>4. request'[s] = r
  BY <1>1, RequestFacts
<1>5. ASSUME SaveIsGettingOn(s) PROVE SaveIsGettingOn(s)'
  <2>1. request[s].item = 1 /\ r.item = 1
    BY <1>5, RequestFacts DEF SaveIsGettingOn, SaveNode, Requests
  <2>2. Done(s)' = {}
    BY <1>4, <2>1, DoneFacts DEF Done
  <2> QED
    BY <1>2, <1>4, <1>5, <2>2 DEF SaveIsGettingOn, SavePcs, SaveNode
<1>6. ~DeleteIsGettingOn(s)
  BY DEF DeleteIsGettingOn, DeletePcs, SaveNode
<1> QED
  BY <1>1, <1>2, <1>3, <1>5, <1>6, Advance DEF SaveNode, Busy

LEMMA LookUpSecretKeeps ==
  ASSUME KeysInv, NEW s \in Savers, LookUpSecret(s) PROVE KeysInv'
<1>1. Busy(s) /\ RestTyped' /\ settled' = settled
  BY RequestFacts DEF LookUpSecret, Busy, RestTyped, bounds
<1>2. ~DeleteIsGettingOn(s)
  BY DEF DeleteIsGettingOn, DeletePcs, LookUpSecret
<1>3. request[s].pc = "look" /\ UNCHANGED <<project, node, gitlab, stored>>
  BY DEF LookUpSecret
<1>4. CASE stored[Item(s)] # 0
  <2> DEFINE r == [request[s] EXCEPT !.pc = "check", !.id = stored[Item(s)]]
  <2>1. stored[Item(s)] \in 0 .. MaxKeys
    BY RequestFacts DEF RestTyped
  <2>2. r \in Requests /\ request' = [request EXCEPT ![s] = r]
    BY <1>4, <2>1, RequestFacts, Updated DEF LookUpSecret, Pcs, Ids
  <2>3. /\ r.op = request[s].op /\ (r.alone => request[s].alone)
        /\ r.pc = "check" /\ r.item = request[s].item /\ r.id = stored[Item(s)]
    BY RequestFacts DEF Requests
  <2>4. request'[s] = r
    BY <2>2, RequestFacts
  <2> HIDE DEF r
  <2>5. SaveIsGettingOn(s) => SaveIsGettingOn(s)'
    BY <1>3, <2>3, <2>4 DEF SaveIsGettingOn, SavePcs, Done, Item, InStep
  <2> QED
    BY <1>1, <1>2, <2>2, <2>3, <2>5, Advance
<1>5. CASE stored[Item(s)] = 0 /\ Item(s) = "accesstoken"
  <2> DEFINE r == [request[s] EXCEPT !.pc = "create"]
  <2>1. r \in Requests /\ request' = [request EXCEPT ![s] = r]
    BY <1>5, RequestFacts, Updated DEF Pcs, LookUpSecret, To
  <2>2. /\ r.op = request[s].op /\ (r.alone => request[s].alone)
        /\ r.pc = "create" /\ r.item = request[s].item
    BY RequestFacts DEF Requests
  <2>3. request'[s] = r
    BY <2>1, RequestFacts
  <2> HIDE DEF r
  <2>4. SaveIsGettingOn(s) => SaveIsGettingOn(s)'
    BY <1>3, <2>2, <2>3 DEF SaveIsGettingOn, SavePcs, Done, Item, InStep
  <2> QED
    BY <1>1, <1>2, <2>1, <2>2, <2>4, Advance
<1>6. CASE stored[Item(s)] = 0 /\ Item(s) # "accesstoken" /\ project = "there"
  <2> DEFINE todo == {e \in {Item(s)} \X KeyIds : e[2] \in gitlab[e[1]]}
             r == [request[s] EXCEPT !.pc = "drop", !.todo = todo]
  <2>1. todo \in Todos /\ \A e \in todo : e[1] = Item(s)
    BY RequestFacts DEF Todos
  <2>2. request' = [request EXCEPT ![s] = r]
    BY <1>6 DEF LookUpSecret, Listed
  <2> HIDE DEF todo
  <2>3. r \in Requests
    BY <2>1, RequestFacts, Updated DEF Pcs
  <2>4. /\ r.op = request[s].op /\ (r.alone => request[s].alone)
        /\ r.pc = "drop" /\ r.item = request[s].item /\ r.todo = todo
    BY RequestFacts DEF Requests
  <2>5. request'[s] = r
    BY <2>2, RequestFacts
  <2> HIDE DEF r
  <2>6. SaveIsGettingOn(s) => SaveIsGettingOn(s)'
    BY <1>3, <1>6, <2>1, <2>4, <2>5 DEF SaveIsGettingOn, SavePcs, Done, Item, InStep
  <2> QED
    BY <1>1, <1>2, <2>2, <2>3, <2>4, <2>6, Advance
<1>7. CASE stored[Item(s)] = 0 /\ Item(s) # "accesstoken" /\ project # "there"
  <2>1. Fail(s)
    BY <1>7 DEF LookUpSecret
  <2> QED
    BY <1>1, <2>1, Failed
<1> QED
  BY <1>4, <1>5, <1>6, <1>7

LEMMA CheckKeyKeeps ==
  ASSUME KeysInv, NEW s \in Savers, CheckKey(s) PROVE KeysInv'
<1>1. Busy(s) /\ RestTyped' /\ settled' = settled
  BY RequestFacts DEF CheckKey, Busy, RestTyped, bounds
<1>2. ~DeleteIsGettingOn(s)
  BY DEF DeleteIsGettingOn, DeletePcs, CheckKey
<1>3. request[s].pc = "check" /\ UNCHANGED <<project, node, gitlab, stored>>
  BY DEF CheckKey
<1>4. CASE request[s].id \in gitlab[Item(s)] /\ Item(s) # "accesstoken"
  <2> DEFINE r == [request[s] EXCEPT !.pc = "look", !.item = @ + 1]
  <2>1. /\ r \in Requests /\ request' = [request EXCEPT ![s] = r]
        /\ Done(s)' = Done(s) \cup {Item(s)}
    BY <1>4, NextItemFacts DEF CheckKey
  <2>2. /\ r.op = request[s].op /\ (r.alone => request[s].alone) /\ r.pc = "look"
    BY RequestFacts DEF Requests
  <2>3. request'[s] = r
    BY <2>1, RequestFacts
  <2> HIDE DEF r
  <2>4. SaveIsGettingOn(s) => SaveIsGettingOn(s)'
    BY <1>3, <1>4, <2>1, <2>2, <2>3 DEF SaveIsGettingOn, SavePcs, InStep
  <2> QED
    BY <1>1, <1>2, <2>1, <2>2, <2>4, Advance
<1>5. CASE request[s].id \in gitlab[Item(s)] /\ Item(s) = "accesstoken"
  <2> DEFINE r == [request[s] EXCEPT !.pc = "prune"]
  <2>1. r \in Requests /\ request' = [request EXCEPT ![s] = r]
    BY <1>5, RequestFacts, Updated DEF Pcs, CheckKey, NextItem, To
  <2>2. /\ r.op = request[s].op /\ (r.alone => request[s].alone)
        /\ r.pc = "prune" /\ r.item = request[s].item /\ r.id = request[s].id
    BY RequestFacts DEF Requests
  <2>3. request'[s] = r
    BY <2>1, RequestFacts
  <2> HIDE DEF r
  <2>4. SaveIsGettingOn(s) => SaveIsGettingOn(s)'
    BY <1>3, <1>5, <2>2, <2>3 DEF SaveIsGettingOn, SavePcs, Done, Item, InStep
  <2> QED
    BY <1>1, <1>2, <2>1, <2>2, <2>4, Advance
<1>6. CASE request[s].id \notin gitlab[Item(s)]
  <2> DEFINE r == [request[s] EXCEPT !.pc = "create"]
  <2>1. r \in Requests /\ request' = [request EXCEPT ![s] = r]
    BY <1>6, RequestFacts, Updated DEF Pcs, CheckKey, To
  <2>2. /\ r.op = request[s].op /\ (r.alone => request[s].alone)
        /\ r.pc = "create" /\ r.item = request[s].item
    BY RequestFacts DEF Requests
  <2>3. request'[s] = r
    BY <2>1, RequestFacts
  <2> HIDE DEF r
  <2>4. SaveIsGettingOn(s) => SaveIsGettingOn(s)'
    BY <1>3, <2>2, <2>3 DEF SaveIsGettingOn, SavePcs, Done, Item, InStep
  <2> QED
    BY <1>1, <1>2, <2>1, <2>2, <2>4, Advance
<1> QED
  BY <1>4, <1>5, <1>6

LEMMA DropListedKeeps ==
  ASSUME KeysInv, NEW s \in Savers, DropListed(s) PROVE KeysInv'
<1>1. PICK e \in request[s].todo :
         IF e[2] \in gitlab[e[1]]
         THEN /\ gitlab' = [gitlab EXCEPT ![e[1]] = @ \ {e[2]}]
              /\ request' = [request EXCEPT ![s].todo = @ \ {e}]
         ELSE Fail(s) /\ UNCHANGED gitlab
  BY DEF DropListed
<1>2. /\ Busy(s) /\ settled' = settled /\ request[s].pc = "drop"
      /\ UNCHANGED <<project, node, stored, made, requests, keyFaults>>
  BY DEF DropListed, Busy, bounds
<1>3. e[1] \in Kinds /\ e[2] \in KeyIds /\ e = <<e[1], e[2]>>
  BY RequestFacts
<1>4. CASE e[2] \notin gitlab[e[1]]
  <2>1. RestTyped'
    BY <1>1, <1>2, <1>4, RequestFacts DEF RestTyped
  <2> QED
    BY <1>1, <1>2, <1>4, <2>1, Failed
<1>5. CASE e[2] \in gitlab[e[1]]
  <2> DEFINE r == [request[s] EXCEPT !.todo = request[s].todo \ {e}]
  <2>1. request' = [request EXCEPT ![s] = r]
    BY <1>1, <1>5
  <2>2. r \in Requests
    <3>1. request[s].todo \ {e} \in Todos
      BY RequestFacts DEF Todos
    <3> QED
      BY <3>1, RequestFacts, Updated DEF Pcs
  <2>3. /\ r.op = request[s].op /\ (r.alone => request[s].alone)
        /\ r.pc = "drop" /\ r.item = request[s].item /\ r.id = request[s].id
        /\ r.todo = request[s].todo \ {e}
    BY <1>2, RequestFacts DEF Requests
  <2>4. request'[s] = r
    BY <2>1, RequestFacts
  <2> HIDE DEF r
  <2>5. /\ gitlab'[e[1]] = gitlab[e[1]] \ {e[2]}
        /\ \A k \in Kinds : k # e[1] => gitlab'[k] = gitlab[k]
        /\ gitlab' \in [Kinds -> SUBSET KeyIds]
    BY <1>1, <1>3, <1>5, RequestFacts DEF RestTyped
  <2>6. RestTyped'
    BY <1>2, <2>5, RequestFacts DEF RestTyped
  <2>7. DeleteIsGettingOn(s) => DeleteIsGettingOn(s)'
    BY <1>2, <2>3, <2>4 DEF DeleteIsGettingOn, DeletePcs
  <2>8. ASSUME SaveIsGettingOn(s) PROVE SaveIsGettingOn(s)'
    <3>1. e[1] = Item(s) /\ (Item(s) = "accesstoken" => e[2] # request[s].id)
      BY <1>2, <2>8 DEF SaveIsGettingOn
    <3>2. Done(s)' = Done(s) /\ Item(s)' = Item(s)
      BY <2>3, <2>4 DEF Done, Item
    <3>3. \A k \in Done(s) : InStep(k)'
      <4>1. \A k \in Done(s) : k \in Kinds /\ k # e[1] /\ InStep(k)
        BY <1>2, <2>8, <3>1, DoneFacts DEF SaveIsGettingOn
      <4> QED
        BY <1>2, <2>5, <4>1 DEF InStep
    <3>4. ASSUME Item(s) = "accesstoken"
          PROVE  /\ InStep("accesstoken")' /\ r.id = stored'["accesstoken"]
                 /\ \A i \in gitlab'["accesstoken"] :
                       i = r.id \/ <<"accesstoken", i>> \in r.todo
      <4>1. /\ InStep("accesstoken") /\ request[s].id = stored["accesstoken"]
            /\ \A i \in gitlab["accesstoken"] :
                  i = request[s].id \/ <<"accesstoken", i>> \in request[s].todo
        BY <1>2, <2>8, <3>4 DEF SaveIsGettingOn
      <4>2. InStep("accesstoken")' /\ r.id = stored'["accesstoken"]
        BY <1>2, <2>3, <2>5, <3>1, <3>4, <4>1 DEF InStep
      <4>3. ASSUME NEW i \in gitlab'["accesstoken"], i # r.id
            PROVE  <<"accesstoken", i>> \in r.todo
        <5>1. i \in gitlab["accesstoken"] /\ i # e[2]
          BY <2>5, <3>1, <3>4
        <5>2. <<"accesstoken", i>> # e
          BY <5>1
        <5> QED
          BY <2>3, <4>1, <4>3, <5>1, <5>2
      <4> QED
        BY <4>2, <4>3
    <3>5. \A d \in r.todo : d[1] = Item(s)
                            /\ (Item(s) = "accesstoken" => d[2] # r.id)
      BY <1>2, <2>3, <2>8 DEF SaveIsGettingOn
    <3>6. project' = "there" /\ node'
      BY <1>2, <2>8 DEF SaveIsGettingOn
    <3> QED
      BY <2>3, <2>4, <3>2, <3>3, <3>4, <3>5, <3>6 DEF SaveIsGettingOn, SavePcs
  <2> QED
    BY <1>2, <2>1, <2>2, <2>3, <2>6, <2>7, <2>8, Advance
<1> QED
  BY <1>4, <1>5

LEMMA DropDoneKeeps ==
  ASSUME KeysInv, NEW s \in Savers, DropDone(s) PROVE KeysInv'
<1>1. /\ Busy(s) /\ RestTyped' /\ request[s].pc = "drop" /\ request[s].todo = {}
      /\ UNCHANGED <<project, node, gitlab, stored>>
  BY RequestFacts DEF DropDone, Busy, RestTyped, bounds
<1>2. CASE request[s].op = "delete"
  <2> DEFINE r == [request[s] EXCEPT !.pc = "erase"]
  <2>1. r \in Requests /\ request' = [request EXCEPT ![s] = r] /\ settled' = settled
    BY <1>2, RequestFacts, Updated DEF Pcs, DropDone, To
  <2>2. r.op = request[s].op /\ (r.alone => request[s].alone) /\ r.pc = "erase"
    BY RequestFacts DEF Requests
  <2>3. request'[s] = r
    BY <2>1, RequestFacts
  <2> HIDE DEF r
  <2>4. DeleteIsGettingOn(s) => DeleteIsGettingOn(s)'
    BY <1>1, <2>2, <2>3 DEF DeleteIsGettingOn, DeletePcs
  <2> QED
    BY <1>1, <1>2, <2>1, <2>2, <2>4, Advance
<1>3. CASE request[s].op # "delete" /\ Item(s) = "accesstoken"
  <2>1. Succeed(s)
    BY <1>3 DEF DropDone
  <2>2. ASSUME Alone(s)
        PROVE  /\ project = "there" /\ node
               /\ \A k \in Kinds : InStep(k)
               /\ gitlab["accesstoken"] = {stored["accesstoken"]}
    <3>1. SaveIsGettingOn(s)
      BY <1>3, <2>2 DEF KeysInv, AloneGetsOn
    <3>2. Done(s) = Kinds \ {"accesstoken"}
      BY <1>3, RequestFacts, DoneFacts
    <3>3. /\ project = "there" /\ node
          /\ (\A k \in Done(s) : InStep(k)) /\ InStep("accesstoken")
          /\ request[s].id = stored["accesstoken"]
      BY <1>1, <1>3, <3>1 DEF SaveIsGettingOn
    <3>4. \A i \in gitlab["accesstoken"] : i = stored["accesstoken"]
      BY <1>1, <1>3, <3>1, <3>3 DEF SaveIsGettingOn
    <3>5. gitlab["accesstoken"] = {stored["accesstoken"]}
      BY <3>3, <3>4 DEF InStep
    <3> QED
      BY <3>2, <3>3, <3>5
  <2> QED
    BY <1>1, <1>3, <2>1, <2>2, Finished DEF InStep
<1>4. CASE request[s].op # "delete" /\ Item(s) # "accesstoken"
  <2> DEFINE r == [request[s] EXCEPT !.pc = "create"]
  <2>1. r \in Requests /\ request' = [request EXCEPT ![s] = r] /\ settled' = settled
    BY <1>4, RequestFacts, Updated DEF Pcs, DropDone, To
  <2>2. /\ r.op = request[s].op /\ (r.alone => request[s].alone)
        /\ r.pc = "create" /\ r.item = request[s].item
    BY RequestFacts DEF Requests
  <2>3. request'[s] = r
    BY <2>1, RequestFacts
  <2> HIDE DEF r
  <2>4. SaveIsGettingOn(s) => SaveIsGettingOn(s)'
    BY <1>1, <2>2, <2>3 DEF SaveIsGettingOn, SavePcs, Done, Item, InStep
  <2> QED
    BY <1>1, <1>4, <2>1, <2>2, <2>4, Advance
<1> QED
  BY <1>2, <1>3, <1>4

LEMMA CreateInGitlabKeeps ==
  ASSUME KeysInv, NEW s \in Savers, CreateInGitlab(s) PROVE KeysInv'
<1>1. /\ Busy(s) /\ settled' = settled /\ request[s].pc = "create"
      /\ UNCHANGED <<project, node, stored, requests, keyFaults>>
  BY DEF CreateInGitlab, Busy, bounds
<1>2. ~DeleteIsGettingOn(s)
  BY <1>1 DEF DeleteIsGettingOn, DeletePcs
<1>3. CASE project # "there"
  <2>1. Fail(s) /\ RestTyped'
    BY <1>1, <1>3, RequestFacts DEF CreateInGitlab, RestTyped
  <2> QED
    BY <1>1, <2>1, Failed
<1>4. CASE project = "there"
  <2> DEFINE r == [request[s] EXCEPT !.pc = "store", !.id = made']
  <2>1. /\ made < MaxKeys /\ made' = made + 1
        /\ gitlab' = [gitlab EXCEPT ![Item(s)] = @ \cup {made'}]
        /\ request' = [request EXCEPT ![s] = r]
    BY <1>4 DEF CreateInGitlab
  <2>2. made' \in KeyIds /\ made' \in Ids
    BY <2>1, KeysAssumption, RequestFacts DEF RestTyped, KeyIds, Ids
  <2>3. r \in Requests
    BY <2>2, RequestFacts, Updated DEF Pcs
  <2>4. /\ r.op = request[s].op /\ (r.alone => request[s].alone)
        /\ r.pc = "store" /\ r.item = request[s].item /\ r.id = made'
    BY RequestFacts DEF Requests
  <2>5. request'[s] = r
    BY <2>1, RequestFacts
  <2> HIDE DEF r
  <2>6. /\ gitlab'[Item(s)] = gitlab[Item(s)] \cup {made'}
        /\ \A k \in Kinds : gitlab[k] \subseteq gitlab'[k]
        /\ gitlab' \in [Kinds -> SUBSET KeyIds]
    BY <2>1, <2>2, RequestFacts DEF RestTyped
  <2>7. RestTyped'
    BY <1>1, <2>2, <2>6, RequestFacts DEF RestTyped, Ids
  <2>8. ASSUME SaveIsGettingOn(s) PROVE SaveIsGettingOn(s)'
    <3>1. Done(s)' = Done(s) /\ Item(s)' = Item(s)
      BY <2>4, <2>5 DEF Done, Item
    <3>2. \A k \in Done(s) : InStep(k)'
      <4>1. \A k \in Done(s) : k \in Kinds /\ InStep(k)
        BY <1>1, <2>8, DoneFacts DEF SaveIsGettingOn
      <4> QED
        BY <1>1, <2>6, <4>1 DEF InStep
    <3>3. project' = "there" /\ node'
      BY <1>1, <2>8 DEF SaveIsGettingOn
    <3> QED
      BY <2>4, <2>5, <2>6, <3>1, <3>2, <3>3 DEF SaveIsGettingOn, SavePcs
  <2> QED
    BY <1>1, <1>2, <2>1, <2>3, <2>4, <2>7, <2>8, Advance
<1> QED
  BY <1>3, <1>4

LEMMA StoreSecretKeeps ==
  ASSUME KeysInv, NEW s \in Savers, StoreSecret(s) PROVE KeysInv'
<1>1. /\ Busy(s) /\ settled' = settled /\ request[s].pc = "store" /\ NextItem(s)
      /\ stored' = [stored EXCEPT ![Item(s)] = request[s].id]
      /\ UNCHANGED <<project, node, gitlab, made, requests, keyFaults>>
  BY DEF StoreSecret, Busy, bounds
<1>2. ~DeleteIsGettingOn(s)
  BY <1>1 DEF DeleteIsGettingOn, DeletePcs
<1>3. /\ stored'[Item(s)] = request[s].id
      /\ \A k \in Kinds : k # Item(s) => stored'[k] = stored[k]
      /\ stored' \in [Kinds -> 0 .. MaxKeys]
  BY <1>1, RequestFacts DEF RestTyped
<1>4. RestTyped'
  BY <1>1, <1>3, RequestFacts DEF RestTyped
<1>5. ASSUME SaveIsGettingOn(s)
      PROVE  /\ \A k \in Done(s) \cup {Item(s)} : stored'[k] \in gitlab'[k]
             /\ project' = "there" /\ node'
  <2>1. \A k \in Done(s) : k \in Kinds /\ k # Item(s) /\ InStep(k)
    BY <1>1, <1>5, DoneFacts DEF SaveIsGettingOn
  <2>2. request[s].id \in gitlab[Item(s)]
    BY <1>1, <1>5 DEF SaveIsGettingOn
  <2> QED
    BY <1>1, <1>3, <1>5, <2>1, <2>2 DEF SaveIsGettingOn, InStep
<1>6. CASE Item(s) # "accesstoken"
  <2> DEFINE r == [request[s] EXCEPT !.pc = "look", !.item = @ + 1]
  <2>1. /\ r \in Requests /\ request' = [request EXCEPT ![s] = r]
        /\ Done(s)' = Done(s) \cup {Item(s)}
    BY <1>1, <1>6, NextItemFacts
  <2>2. /\ r.op = request[s].op /\ (r.alone => request[s].alone) /\ r.pc = "look"
    BY RequestFacts DEF Requests
  <2>3. request'[s] = r
    BY <2>1, RequestFacts
  <2> HIDE DEF r
  <2>4. SaveIsGettingOn(s) => SaveIsGettingOn(s)'
    BY <1>5, <2>1, <2>2, <2>3 DEF SaveIsGettingOn, SavePcs, InStep
  <2> QED
    BY <1>1, <1>2, <1>4, <2>1, <2>2, <2>4, Advance
<1>7. CASE Item(s) = "accesstoken"
  <2> DEFINE r == [request[s] EXCEPT !.pc = "prune"]
  <2>1. r \in Requests /\ request' = [request EXCEPT ![s] = r]
    BY <1>1, <1>7, RequestFacts, Updated DEF Pcs, NextItem, To
  <2>2. /\ r.op = request[s].op /\ (r.alone => request[s].alone)
        /\ r.pc = "prune" /\ r.item = request[s].item /\ r.id = request[s].id
    BY RequestFacts DEF Requests
  <2>3. request'[s] = r
    BY <2>1, RequestFacts
  <2> HIDE DEF r
  <2>4. Done(s)' = Done(s) /\ Item(s)' = Item(s)
    BY <2>2, <2>3 DEF Done, Item
  <2>5. SaveIsGettingOn(s) => SaveIsGettingOn(s)'
    BY <1>3, <1>5, <1>7, <2>2, <2>3, <2>4 DEF SaveIsGettingOn, SavePcs, InStep
  <2> QED
    BY <1>1, <1>2, <1>4, <2>1, <2>2, <2>5, Advance
<1> QED
  BY <1>6, <1>7

LEMMA PruneTokensKeeps ==
  ASSUME KeysInv, NEW s \in Savers, PruneTokens(s) PROVE KeysInv'
<1>1. /\ Busy(s) /\ RestTyped' /\ settled' = settled /\ request[s].pc = "prune"
      /\ UNCHANGED <<project, node, gitlab, stored>>
  BY RequestFacts DEF PruneTokens, Busy, RestTyped, bounds
<1>2. ~DeleteIsGettingOn(s)
  BY <1>1 DEF DeleteIsGettingOn, DeletePcs
<1>3. CASE project # "there"
  <2>1. Fail(s)
    BY <1>3 DEF PruneTokens
  <2> QED
    BY <1>1, <2>1, Failed
<1>4. CASE project = "there"
  <2> DEFINE todo == {"accesstoken"} \X (gitlab["accesstoken"] \ {request[s].id})
             r == [request[s] EXCEPT !.pc = "drop", !.todo = todo]
  <2>1. /\ todo \in Todos
        /\ \A e \in todo : e[1] = "accesstoken" /\ e[2] # request[s].id
        /\ \A i \in gitlab["accesstoken"] :
              i = request[s].id \/ <<"accesstoken", i>> \in todo
    BY RequestFacts, KindFacts DEF Todos, RestTyped
  <2>2. request' = [request EXCEPT ![s] = r]
    BY <1>4 DEF PruneTokens
  <2> HIDE DEF todo
  <2>3. r \in Requests
    BY <2>1, RequestFacts, Updated DEF Pcs
  <2>4. /\ r.op = request[s].op /\ (r.alone => request[s].alone)
        /\ r.pc = "drop" /\ r.item = request[s].item /\ r.id = request[s].id
        /\ r.todo = todo
    BY RequestFacts DEF Requests
  <2>5. request'[s] = r
    BY <2>2, RequestFacts
  <2> HIDE DEF r
  <2>6. Done(s)' = Done(s) /\ Item(s)' = Item(s)
    BY <2>4, <2>5 DEF Done, Item
  <2>7. SaveIsGettingOn(s) => SaveIsGettingOn(s)'
    BY <1>1, <2>1, <2>4, <2>5, <2>6 DEF SaveIsGettingOn, SavePcs, InStep
  <2> QED
    BY <1>1, <1>2, <2>2, <2>3, <2>4, <2>7, Advance
<1> QED
  BY <1>3, <1>4

-----------------------------------------------------------------------------
\* A deletion that goes from one list of steps to the next.
LEMMA DeletionGoesOn ==
  ASSUME KeysInv, NEW s \in Savers, Busy(s), request[s].pc \notin SavePcs,
         NEW r \in Requests, request' = [request EXCEPT ![s] = r],
         r.op = request[s].op, r.alone => request[s].alone,
         settled' = settled, RestTyped',
         DeleteIsGettingOn(s) => DeleteIsGettingOn(s)'
  PROVE  KeysInv'
<1>1. ~SaveIsGettingOn(s)
  BY DEF SaveIsGettingOn
<1> QED
  BY <1>1, Advance

LEMMA RemoveNodeKeeps ==
  ASSUME KeysInv, NEW s \in Savers, RemoveNode(s) PROVE KeysInv'
<1>1. /\ Busy(s) /\ RestTyped' /\ settled' = settled /\ request[s].pc = "unlink"
      /\ request[s].pc \notin SavePcs /\ ~node'
  BY RequestFacts DEF RemoveNode, Busy, RestTyped, bounds, SavePcs
<1>2. CASE ~node
  <2>1. Fail(s)
    BY <1>2 DEF RemoveNode
  <2> QED
    BY <1>1, <2>1, Failed
<1>3. CASE node
  <2> DEFINE r == [request[s] EXCEPT !.pc = "forget"]
  <2>1. r \in Requests /\ request' = [request EXCEPT ![s] = r]
    BY <1>3, RequestFacts, Updated DEF Pcs, RemoveNode, To
  <2>2. /\ r.op = request[s].op /\ (r.alone => request[s].alone)
        /\ r.pc = "forget" /\ r.item = request[s].item
    BY RequestFacts DEF Requests
  <2>3. request'[s] = r
    BY <2>1, RequestFacts
  <2> HIDE DEF r
  <2>4. ASSUME DeleteIsGettingOn(s) PROVE DeleteIsGettingOn(s)'
    <3>1. r.item = 1
      BY <1>1, <2>2, <2>4 DEF DeleteIsGettingOn
    <3>2. 1 .. r.item - 1 = {}
      BY <3>1
    <3>3. Forgotten(s)' = {}
      BY <2>3, <3>2 DEF Forgotten
    <3> QED
      BY <1>1, <2>2, <2>3, <3>3 DEF DeleteIsGettingOn, DeletePcs
  <2> QED
    BY <1>1, <2>1, <2>2, <2>4, DeletionGoesOn
<1> QED
  BY <1>2, <1>3

LEMMA RemoveSecretKeeps ==
  ASSUME KeysInv, NEW s \in Savers, RemoveSecret(s) PROVE KeysInv'
<1> DEFINE n == request[s].item
<1>1. /\ Busy(s) /\ settled' = settled /\ request[s].pc = "forget"
      /\ request[s].pc \notin SavePcs /\ node' = node
      /\ stored' = [stored EXCEPT ![Secrets[n]] = 0]
      /\ UNCHANGED <<project, gitlab, made, requests, keyFaults>>
  BY DEF RemoveSecret, Busy, bounds, SavePcs
<1>2. n \in 1 .. 3 /\ Secrets[n] \in Kinds
  BY RequestFacts, ItemFacts
<1>3. /\ stored'[Secrets[n]] = 0
      /\ \A k \in Kinds : stored[k] = 0 => stored'[k] = 0
      /\ stored' \in [Kinds -> 0 .. MaxKeys]
  <2>1. 0 \in 0 .. MaxKeys
    BY KeysAssumption
  <2> QED
    BY <1>1, <1>2, <2>1, RequestFacts DEF RestTyped
<1>4. RestTyped'
  BY <1>1, <1>3, RequestFacts DEF RestTyped
\* With this secret, those up to the n-th are gone.
<1>5. ASSUME DeleteIsGettingOn(s)
      PROVE  ~node' /\ \A i \in 1 .. n : stored'[Secrets[i]] = 0
  <2>1. ~node /\ \A i \in 1 .. n - 1 : stored[Secrets[i]] = 0
    BY <1>1, <1>5 DEF DeleteIsGettingOn, Forgotten
  <2>2. \A i \in 1 .. n : i \in 1 .. 3 /\ (i = n \/ i \in 1 .. n - 1)
    BY <1>2
  <2> QED
    BY <1>1, <1>3, <2>1, <2>2, ItemFacts
<1>6. CASE n = 3
  <2> DEFINE r == [request[s] EXCEPT !.pc = "list"]
  <2>1. r \in Requests /\ request' = [request EXCEPT ![s] = r]
    BY <1>6, KindFacts, RequestFacts, Updated DEF Pcs, RemoveSecret, To
  <2>2. r.op = request[s].op /\ (r.alone => request[s].alone) /\ r.pc = "list"
    BY RequestFacts DEF Requests
  <2>3. request'[s] = r
    BY <2>1, RequestFacts
  <2> HIDE DEF r
  <2>4. ASSUME DeleteIsGettingOn(s) PROVE DeleteIsGettingOn(s)'
    <3>1. \A i \in 1 .. 3 : stored'[Secrets[i]] = 0
      BY <1>5, <1>6, <2>4
    <3>2. 1 \in 1 .. 3 /\ 2 \in 1 .. 3 /\ 3 \in 1 .. 3
      OBVIOUS
    <3>3. \A k \in Kinds : stored'[k] = 0
      BY <3>1, <3>2, KindFacts
    <3> QED
      BY <1>5, <2>2, <2>3, <2>4, <3>3 DEF DeleteIsGettingOn, DeletePcs
  <2> QED
    BY <1>1, <1>4, <2>1, <2>2, <2>4, DeletionGoesOn
<1>7. CASE n # 3
  <2> DEFINE r == [request[s] EXCEPT !.item = n + 1]
  <2>1. request' = [request EXCEPT ![s] = r]
    BY <1>7, KindFacts DEF RemoveSecret
  <2>2. n + 1 \in Places
    BY <1>2, <1>7 DEF Places
  <2>3. r \in Requests
    BY <2>2, RequestFacts, Updated DEF Pcs
  <2>4. /\ r.op = request[s].op /\ (r.alone => request[s].alone)
        /\ r.pc = "forget" /\ r.item = n + 1
    BY <1>1, RequestFacts DEF Requests
  <2>5. request'[s] = r
    BY <2>1, RequestFacts
  <2> HIDE DEF r
  <2>6. ASSUME DeleteIsGettingOn(s) PROVE DeleteIsGettingOn(s)'
    <3>1. 1 .. r.item - 1 = 1 .. n
      BY <1>2, <2>4
    <3>2. \A k \in Forgotten(s)' : stored'[k] = 0
      BY <1>5, <2>5, <2>6, <3>1 DEF Forgotten
    <3> QED
      BY <1>5, <2>4, <2>5, <2>6, <3>2 DEF DeleteIsGettingOn, DeletePcs
  <2> QED
    BY <1>1, <1>4, <2>1, <2>3, <2>4, <2>6, DeletionGoesOn
<1> QED
  BY <1>6, <1>7

LEMMA ListDeployKeysKeeps ==
  ASSUME KeysInv, NEW s \in Savers, ListDeployKeys(s) PROVE KeysInv'
<1>1. /\ Busy(s) /\ RestTyped' /\ settled' = settled /\ request[s].pc = "list"
      /\ request[s].pc \notin SavePcs /\ UNCHANGED <<node, stored>>
  BY RequestFacts DEF ListDeployKeys, Busy, RestTyped, bounds, SavePcs
<1>2. CASE project # "there"
  <2>1. Fail(s)
    BY <1>2 DEF ListDeployKeys
  <2> QED
    BY <1>1, <2>1, Failed
<1>3. CASE project = "there"
  <2> DEFINE todo == {e \in DeployKeyKinds \X KeyIds : e[2] \in gitlab[e[1]]}
             r == [request[s] EXCEPT !.pc = "drop", !.todo = todo]
  <2>1. todo \in Todos
    BY DEF Todos, DeployKeyKinds
  <2>2. request' = [request EXCEPT ![s] = r]
    BY <1>3 DEF ListDeployKeys, Listed
  <2> HIDE DEF todo
  <2>3. r \in Requests
    BY <2>1, RequestFacts, Updated DEF Pcs
  <2>4. r.op = request[s].op /\ (r.alone => request[s].alone) /\ r.pc = "drop"
    BY RequestFacts DEF Requests
  <2>5. request'[s] = r
    BY <2>2, RequestFacts
  <2> HIDE DEF r
  <2>6. DeleteIsGettingOn(s) => DeleteIsGettingOn(s)'
    BY <1>1, <2>4, <2>5 DEF DeleteIsGettingOn, DeletePcs
  <2> QED
    BY <1>1, <2>2, <2>3, <2>4, <2>6, DeletionGoesOn
<1> QED
  BY <1>2, <1>3

LEMMA RemoveRepositoryKeeps ==
  ASSUME KeysInv, NEW s \in Savers, RemoveRepository(s) PROVE KeysInv'
<1>1. /\ Busy(s) /\ request[s].pc = "erase"
      /\ UNCHANGED <<node, stored, made, requests, keyFaults>>
  BY DEF RemoveRepository, Busy, bounds
<1>2. CASE project # "there"
  <2>1. Fail(s) /\ RestTyped' /\ settled' = settled
    BY <1>1, <1>2, RequestFacts DEF RemoveRepository, RestTyped
  <2> QED
    BY <1>1, <2>1, Failed
<1>3. CASE project = "there"
  <2>1. Succeed(s) /\ project' = "gone" /\ gitlab' = [k \in Kinds |-> {}]
    BY <1>3 DEF RemoveRepository
  <2>2. RestTyped'
    BY <1>1, <2>1, RequestFacts DEF RestTyped
  <2>3. ASSUME Alone(s) PROVE DeleteIsGettingOn(s) /\ request[s].op = "delete"
    <3>1. ~SaveIsGettingOn(s)
      BY <1>1 DEF SaveIsGettingOn, SavePcs
    <3> QED
      BY <2>3, <3>1 DEF KeysInv, AloneGetsOn
  <2>4. Alone(s) => ~node /\ \A k \in Kinds : stored[k] = 0
    BY <1>1, <2>3 DEF DeleteIsGettingOn
  <2> QED
    BY <1>1, <2>1, <2>2, <2>3, <2>4, Finished
<1> QED
  BY <1>2, <1>3

-----------------------------------------------------------------------------
LEMMA BeginKeeps ==
  ASSUME KeysInv, SaveRepository \/ FindRepository PROVE KeysInv'
<1>1. CASE SaveRepository
  BY <1>1, Begun DEF SaveRepository
<1>2. CASE FindRepository
  BY <1>2, Begun DEF FindRepository, KeysInv, KeysTypeOK
<1> QED
  BY <1>1, <1>2

LEMMA RequestFailsKeeps ==
  ASSUME KeysInv, NEW s \in Savers, RequestFails(s) PROVE KeysInv'
<1>1. /\ Busy(s) /\ keyFaults < MaxFaults /\ keyFaults' = keyFaults + 1 /\ Fail(s)
      /\ UNCHANGED <<project, node, gitlab, stored, made, requests, settled>>
  BY DEF RequestFails
<1>2. keyFaults \in 0 .. MaxFaults
  BY DEF KeysInv, KeysTypeOK
<1>3. keyFaults' \in 0 .. MaxFaults
  BY <1>1, <1>2, KeysAssumption
<1>4. RestTyped'
  BY <1>1, <1>3, RequestFacts DEF RestTyped
<1> QED
  BY <1>1, <1>4, Failed

LEMMA NextKeysInv == KeysInv /\ [KeysNext]_keysVars => KeysInv'
<1> SUFFICES ASSUME KeysInv, [KeysNext]_keysVars PROVE KeysInv'
  OBVIOUS
<1>1. CASE SaveRepository \/ FindRepository
  BY <1>1, BeginKeeps
<1>2. ASSUME NEW s \in Savers, SaveStep(s) PROVE KeysInv'
  BY <1>2, SaveNodeKeeps, LookUpSecretKeeps, CheckKeyKeeps, DropListedKeeps,
     DropDoneKeeps, CreateInGitlabKeeps, StoreSecretKeeps, PruneTokensKeeps
  DEF SaveStep
<1>3. ASSUME NEW s \in Savers, DeleteStep(s) PROVE KeysInv'
  BY <1>3, RemoveNodeKeeps, RemoveSecretKeeps, ListDeployKeysKeeps,
     RemoveRepositoryKeeps
  DEF DeleteStep
<1>4. ASSUME NEW s \in Savers, RequestFails(s) PROVE KeysInv'
  BY <1>4, RequestFailsKeeps
<1>5. CASE UNCHANGED keysVars
  BY <1>5
  DEF keysVars, KeysInv, KeysTypeOK, AloneIsTheOnlyOne, SettledIsOver, AloneGetsOn,
      Alone, Busy, SaveIsGettingOn, DeleteIsGettingOn, Done, Forgotten, InStep,
      Item, UndisturbedSaveRepairs, UndisturbedDeleteErases
<1> QED
  BY <1>1, <1>2, <1>3, <1>4, <1>5 DEF KeysNext

LEMMA KeysInvAlways == KeysSpec => []KeysInv
BY InitKeysInv, NextKeysInv, PTL DEF KeysSpec

\* A save that nothing disturbs repairs vault and GitLab, whatever overlapping
\* and failed requests left behind (SaveCodeRepo, saveDeployKey,
\* saveAccessToken, removeInvalidProjectAccessTokens).
THEOREM SaveRepairs == KeysSpec => []UndisturbedSaveRepairs
<1>1. KeysInv => UndisturbedSaveRepairs
  BY DEF KeysInv
<1> QED
  BY <1>1, KeysInvAlways, PTL

\* A deletion that nothing disturbs leaves neither the resource nor a secret
\* behind (DeleteCodeRepo).
THEOREM DeletionErases == KeysSpec => []UndisturbedDeleteErases
<1>1. KeysInv => UndisturbedDeleteErases
  BY DEF KeysInv
<1> QED
  BY <1>1, KeysInvAlways, PTL

\* The state of every repository, request and key stays what it is declared as.
THEOREM KeysTypeCorrect == KeysSpec => []KeysTypeOK
<1>1. KeysInv => KeysTypeOK
  BY DEF KeysInv
<1> QED
  BY <1>1, KeysInvAlways, PTL

-----------------------------------------------------------------------------
(* Which keys are enabled where.                                           *)

Lone(c) == Active(c) /\ call[c].alone

LoneIsTheOnlyOne ==
    /\ \A c, d \in Clients : Lone(c) /\ Active(d) => c = d
    /\ exact => \A c \in Clients : ~Active(c)

GrantedAreForeign == \A r \in Repos : \A k \in granted[r] : k[2] # r
BlockedIsHung == blocked => \E c \in Clients : call[c].pc = "hung"

CacheIsFresh ==
    \/ blocked
    \/ \E c \in Clients : call[c].pc = "grant"
    \/ \A r \in Repos \ gone : Foreign(r, cache[r]) \subseteq granted[r]

\* The two reasons for which a key is allowed.
Between(r, k) == k[2] # r /\ {r, k[2]} \subseteq There(nodes)
ByBinding(r, k) ==
    /\ Between(r, k)
    /\ \E b \in Of(bindings, r, k[1]) : b.projects = {} \/ nodes[k[2]] \in b.projects
ByProject(r, k) ==
    Between(r, k) /\ SameProject(nodes, r, k[2]) /\ ~Contested(r, k)

\* What clearUnauthorizedDeployKeys and the goroutines it leaves behind achieve.
Cleared ==
    /\ \A p \in pairs : \A x, y \in p : x # y => SameProject(nodes, x, y)
    /\ \A r \in There(nodes) : HasPermission(nodes, bindings, r) =>
          \A k \in granted[r] : Allowed(r, k)
    /\ \A r \in There(nodes) : \A k \in Keys : ByProject(r, k) =>
          /\ k \in granted[r] \/ {r, k[2]} \in pairs
          /\ k \in cache[r] => k \in granted[r]

\* The bindings not in todo have been worked off.
BoundAreGranted(todo) ==
    \A r \in There(nodes) : \A k \in Keys :
        ByBinding(r, k) /\ <<k[1], r>> \notin todo => k \in granted[r]

\* What a request has loaded and pushed is valid while nobody else is there, and
\* the tree it finds is its own.
GettingOn(c) ==
    /\ call[c].pc \in {"push", "keys", "load", "list", "clear", "grant"}
    /\ call[c].op \in {"bind", "unbind", "save"}
    /\ call[c].pc # "grant" => pairs = {}
    /\ call[c].pc = "keys" => call[c].op = "save"
    /\ call[c].pc = "push" =>
          Valid(Merged(c)) /\ (call[c].op # "save" => call[c].tree = Merged(c))
    /\ call[c].pc # "push" => Valid(Resources)
    /\ call[c].pc = "load" /\ call[c].op # "save" => call[c].tree = Resources
    /\ call[c].pc = "clear" => There(nodes) \cap gone = {}
    /\ call[c].pc \in {"list", "clear", "grant"} =>
          call[c].nodes = nodes /\ call[c].bindings = bindings
    /\ call[c].pc = "clear" => \A r \in There(nodes) : granted[r] \subseteq cache[r]
    /\ call[c].pc = "grant" =>
          /\ Cleared /\ BoundAreGranted(call[c].todo)
          /\ \A t \in call[c].todo : Of(bindings, t[2], t[1]) # {}

LoneGetsOn == \A c \in Clients : Lone(c) => GettingOn(c)

ExactIsDone == exact => Cleared /\ BoundAreGranted({})

GrantsInv ==
    /\ GrantsTypeOK /\ LoneIsTheOnlyOne /\ GrantedAreForeign
    /\ BlockedIsHung /\ CacheIsFresh /\ LoneGetsOn /\ ExactIsDone

-----------------------------------------------------------------------------
CallPcs == {"free", "push", "keys", "load", "list", "clear", "hung", "grant",
            "delete", "remove"}
Ops == {"none", "bind", "unbind", "save", "drop"}
CallTodos == SUBSET Keys
BindingSets == SUBSET Bindings

LEMMA ConstantFacts ==
  /\ NoRepo \in Repos
  /\ \A b \in Bindings : b.repo \in Repos /\ b.permission \in Permissions
                         /\ NoProject \notin b.projects
  /\ \A v \in Saves : v.repo \in Repos /\ v.project # Missing /\ v.project \in ProjectNames
  /\ FirstNodes \in Nodes /\ NoNodes \in Nodes /\ Missing \in ProjectNames
  /\ MaxCalls \in Nat /\ MaxCallFaults \in Nat /\ Missing # NoProject
<1>1. Repos # {} /\ FirstNodes \in [Repos -> {FirstNodes[x] : x \in Repos}]
  BY GrantsAssumption, Zenon
<1>2. NoRepo \in Repos
  BY <1>1 DEF NoRepo
<1>3. FirstNodes \in Nodes /\ NoNodes \in Nodes /\ Missing \in ProjectNames
  BY <1>1 DEF Nodes, ProjectNames, NoNodes
<1>4. \A b \in Bindings : b.repo \in Repos /\ b.permission \in Permissions
                          /\ NoProject \notin b.projects
  BY GrantsAssumption, Zenon
<1>5. \A v \in Saves : v.repo \in Repos /\ v.project # Missing /\ v.project \in ProjectNames
  BY GrantsAssumption, Zenon DEF ProjectNames
<1>6. MaxCalls \in Nat /\ MaxCallFaults \in Nat /\ Missing # NoProject
  BY GrantsAssumption, Zenon
<1> QED
  BY <1>2, <1>3, <1>4, <1>5, <1>6

LEMMA CallsAre ==
  Calls = [pc: CallPcs, op: Ops, repo: Repos, project: ProjectNames, edit: BindingSets,
           nodes: Nodes, bindings: BindingSets, tree: Trees, todo: CallTodos,
           alone: BOOLEAN]
BY Zenon DEF Calls, CallPcs, Ops, BindingSets, CallTodos

LEMMA TreeFacts ==
  /\ \A ns \in Nodes, bs \in BindingSets :
        /\ Tree(ns, bs) \in Trees
        /\ Tree(ns, bs).nodes = ns /\ Tree(ns, bs).bindings = bs
  /\ \A t \in Trees : t.nodes \in Nodes /\ t.bindings \in BindingSets
                     /\ t = Tree(t.nodes, t.bindings)
  /\ NoTree \in Trees /\ {} \in BindingSets
BY ConstantFacts DEF Tree, Trees, BindingSets, NoTree

LEMMA NoCallFacts ==
  /\ NoCall \in Calls /\ NoCall.pc = "free" /\ NoCall.op = "none" /\ ~NoCall.alone
  /\ NoCall.edit = {}
  /\ \A pc \in CallPcs : [NoCall EXCEPT !.pc = pc] \in Calls
<1>1. /\ NoCall = [pc |-> "free", op |-> "none", repo |-> NoRepo, project |-> Missing,
                   edit |-> {}, nodes |-> NoNodes, bindings |-> {}, tree |-> NoTree,
                   todo |-> {}, alone |-> FALSE]
      /\ "free" \in CallPcs /\ "none" \in Ops /\ {} \in CallTodos
  BY DEF NoCall, CallPcs, Ops, CallTodos
<1>2. NoCall \in Calls
  BY <1>1, ConstantFacts, TreeFacts, CallsAre
<1> QED
  BY <1>1, <1>2, CallsAre

\* The fields of a request's record, one by one.
LEMMA CallUpdated ==
  ASSUME NEW x \in Calls
  PROVE  /\ \A pc \in CallPcs : /\ [x EXCEPT !.pc = pc] \in Calls
                                /\ [x EXCEPT !.pc = pc].pc = pc
         /\ \A r \in Repos : [x EXCEPT !.repo = r] \in Calls
         /\ \A ns \in Nodes : [x EXCEPT !.nodes = ns] \in Calls
         /\ \A bs \in BindingSets : [x EXCEPT !.bindings = bs] \in Calls
         /\ \A t \in CallTodos : [x EXCEPT !.todo = t] \in Calls
<1>1. \A pc \in CallPcs : /\ [x EXCEPT !.pc = pc] \in Calls
                         /\ [x EXCEPT !.pc = pc].pc = pc
  BY CallsAre
<1>2. \A r \in Repos : [x EXCEPT !.repo = r] \in Calls
  BY CallsAre
<1>3. \A ns \in Nodes : [x EXCEPT !.nodes = ns] \in Calls
  BY CallsAre
<1>4. \A bs \in BindingSets : [x EXCEPT !.bindings = bs] \in Calls
  BY CallsAre
<1>5. \A t \in CallTodos : [x EXCEPT !.todo = t] \in Calls
  BY CallsAre
<1> QED
  BY <1>1, <1>2, <1>3, <1>4, <1>5

\* What a request in progress gives the proofs of its steps.
LEMMA CallFacts ==
  ASSUME GrantsInv, NEW c \in Clients
  PROVE  /\ call \in [Clients -> Calls] /\ call[c] \in Calls
         /\ call[c].op \in Ops /\ call[c].project \in ProjectNames
         /\ call[c].edit \in BindingSets /\ call[c].tree \in Trees
         /\ call[c].nodes \in Nodes /\ call[c].bindings \in BindingSets
         /\ call[c].todo \in CallTodos /\ call[c].repo \in Repos /\ call[c].pc \in CallPcs
         /\ GrantsTypeOK
         /\ nodes \in Nodes /\ granted \in [Repos -> SUBSET Keys]
         /\ cache \in [Repos -> SUBSET Keys] /\ pairs \in SUBSET RepoPairs
         /\ bindings \in BindingSets /\ Resources \in Trees
         /\ Resources.nodes = nodes /\ Resources.bindings = bindings
<1>1. call \in [Clients -> Calls] /\ call[c] \in Calls /\ GrantsTypeOK
  BY DEF GrantsInv, GrantsTypeOK
<1>2. /\ call[c].nodes \in Nodes /\ call[c].bindings \in BindingSets
      /\ call[c].op \in Ops /\ call[c].project \in ProjectNames
      /\ call[c].edit \in BindingSets /\ call[c].tree \in Trees
      /\ call[c].todo \in CallTodos /\ call[c].repo \in Repos /\ call[c].pc \in CallPcs
  BY <1>1, CallsAre
<1>3. nodes \in Nodes /\ bindings \in BindingSets
  BY <1>1 DEF GrantsTypeOK, BindingSets
<1>4. /\ Resources \in Trees /\ Resources.nodes = nodes
      /\ Resources.bindings = bindings
  BY <1>3, TreeFacts DEF Resources
<1> QED
  BY <1>1, <1>2, <1>3, <1>4 DEF GrantsTypeOK

LEMMA KeyFacts ==
  /\ \A k \in Keys : k[1] \in Permissions /\ k[2] \in Repos /\ k = <<k[1], k[2]>>
  /\ \A p \in Permissions, x \in Repos : <<p, x>> \in Keys
  /\ \A x \in Repos : OwnKeys(x) \in SUBSET Keys /\ \A k \in OwnKeys(x) : k[2] = x
  /\ NoKeys \in [Repos -> SUBSET Keys] /\ \A x \in Repos : NoKeys[x] = {}
  /\ "readwrite" \in Permissions
BY DEF Keys, OwnKeys, NoKeys, Permissions

LEMMA InitGrantsInv == GrantsInit => GrantsInv
<1> SUFFICES ASSUME GrantsInit PROVE GrantsInv
  OBVIOUS
<1>1. /\ nodes = FirstNodes /\ keyed = There(FirstNodes) /\ gone = {} /\ bindings = {}
      /\ granted = NoKeys /\ cache = NoKeys /\ pairs = {}
      /\ blocked = FALSE /\ exact = FALSE
      /\ call = [c \in Clients |-> NoCall] /\ calls = 0 /\ callFaults = 0
  BY DEF GrantsInit
<1>2. GrantsTypeOK
  <2>1. 0 \in 0 .. MaxCalls /\ 0 \in 0 .. MaxCallFaults
    BY ConstantFacts
  <2>2. There(FirstNodes) \subseteq Repos
    BY DEF There
  <2> QED
    BY <1>1, <2>1, <2>2, ConstantFacts, NoCallFacts, KeyFacts DEF GrantsTypeOK
<1>3. \A c \in Clients : ~Active(c)
  BY <1>1, NoCallFacts DEF Active
<1>4. GrantedAreForeign /\ BlockedIsHung /\ CacheIsFresh
  BY <1>1, KeyFacts DEF GrantedAreForeign, BlockedIsHung, CacheIsFresh, Foreign
<1> QED
  BY <1>1, <1>2, <1>3, <1>4
  DEF GrantsInv, LoneIsTheOnlyOne, LoneGetsOn, Lone, ExactIsDone

-----------------------------------------------------------------------------
\* Frames.  A step of c that may load the tree of others: they stay where they are,
\* and none is alone that was not.
Moves(c, new) ==
    /\ call' \in [Clients -> Calls] /\ call'[c] = new
    /\ \A d \in Clients : d # c => call'[d].pc = call[d].pc
    /\ \A d \in Clients : d # c /\ call'[d].alone => call[d].alone

LEMMA MovesAlone ==
  ASSUME GrantsInv, NEW c \in Clients, NEW new \in Calls, call' = [call EXCEPT ![c] = new]
  PROVE  Moves(c, new)
BY CallFacts DEF Moves

\* A step of c, a request that is not the first to find itself alone: whoever is
\* alone after it is c, and was before.
LEMMA OthersKeep ==
  ASSUME GrantsInv, NEW c \in Clients, Active(c), NEW new \in Calls, Moves(c, new),
         new.alone => call[c].alone
  PROVE  /\ ~exact
         /\ \A d \in Clients : Lone(d)' => d = c /\ Lone(c) /\ new.alone
         /\ \A d, e \in Clients : Lone(d)' /\ Active(e)' => d = e
<1>2. /\ call'[c] = new
      /\ \A d \in Clients : d # c => call'[d].pc = call[d].pc
      /\ \A d \in Clients : d # c /\ call'[d].alone => call[d].alone
  BY DEF Moves
<1>3. ~exact /\ \A d \in Clients : Lone(d) => d = c
  BY DEF GrantsInv, LoneIsTheOnlyOne
<1>4. \A d \in Clients : Lone(d)' => d = c /\ Lone(c) /\ new.alone
  BY <1>2, <1>3 DEF Lone, Active
<1>5. \A d, e \in Clients : Lone(d)' /\ Active(e)' => d = e
  <2> SUFFICES ASSUME NEW d \in Clients, NEW e \in Clients, Lone(d)', Active(e)'
               PROVE  d = e
    OBVIOUS
  <2>1. d = c /\ Lone(c)
    BY <1>4
  <2>2. e = c \/ Active(e)
    BY <1>2 DEF Active
  <2> QED
    BY <2>1, <2>2 DEF GrantsInv, LoneIsTheOnlyOne
<1> QED
  BY <1>3, <1>4, <1>5

LEMMA Frame ==
  ASSUME GrantsInv, NEW c \in Clients, Active(c), call[c].pc # "hung",
         NEW new \in Calls, Moves(c, new), new.alone => call[c].alone,
         UNCHANGED <<nodes, bindings, gone, blocked, exact, calls>>,
         keyed' \in SUBSET Repos, callFaults' \in 0 .. MaxCallFaults,
         granted' \in [Repos -> SUBSET Keys], cache' \in [Repos -> SUBSET Keys],
         pairs' \in SUBSET RepoPairs,
         GrantedAreForeign', CacheIsFresh',
         Lone(c) /\ new.alone /\ new.pc # "free" /\ GettingOn(c) => GettingOn(c)'
  PROVE  GrantsInv'
<1>1. /\ ~exact
      /\ \A d \in Clients : Lone(d)' => d = c /\ Lone(c) /\ new.alone
      /\ \A d, e \in Clients : Lone(d)' /\ Active(e)' => d = e
  BY OthersKeep
<1>2. /\ call' \in [Clients -> Calls] /\ call'[c] = new
      /\ \A d \in Clients : d # c => call'[d].pc = call[d].pc
  BY DEF Moves
<1>3. GrantsTypeOK'
  BY <1>2 DEF GrantsInv, GrantsTypeOK
<1>4. LoneIsTheOnlyOne' /\ ExactIsDone'
  BY <1>1 DEF LoneIsTheOnlyOne, ExactIsDone
<1>5. BlockedIsHung'
  BY <1>2 DEF GrantsInv, BlockedIsHung
<1>6. LoneGetsOn'
  <2> SUFFICES ASSUME Lone(c)', Lone(c), new.alone PROVE GettingOn(c)'
    BY <1>1 DEF LoneGetsOn
  <2> QED
    BY <1>2 DEF Lone, Active, GrantsInv, LoneGetsOn
<1> QED
  BY <1>3, <1>4, <1>5, <1>6 DEF GrantsInv

\* A step that neither revokes a key nor ends a request about to reset the cache.
LEMMA CacheStays ==
  ASSUME GrantsInv, NEW c \in Clients, NEW new \in Calls, Moves(c, new),
         call[c].pc # "grant", blocked' = blocked, gone \subseteq gone',
         \A r \in Repos \ gone' :
            /\ Foreign(r, cache'[r]) \subseteq Foreign(r, cache[r]) \cup granted'[r]
            /\ granted[r] \subseteq granted'[r]
  PROVE  CacheIsFresh'
<1>1. \A d \in Clients : d # c => call'[d].pc = call[d].pc
  BY DEF Moves
<1>2. CASE blocked
  BY <1>2 DEF CacheIsFresh
<1>3. CASE \E d \in Clients : call[d].pc = "grant"
  BY <1>1, <1>3 DEF CacheIsFresh
<1>4. CASE \A r \in Repos \ gone : Foreign(r, cache[r]) \subseteq granted[r]
  BY <1>4 DEF CacheIsFresh
<1> QED
  BY <1>2, <1>3, <1>4 DEF GrantsInv, CacheIsFresh

LEMMA ResetIsFresh == ASSUME cache' = NoKeys PROVE CacheIsFresh'
BY KeyFacts DEF CacheIsFresh, Foreign

-----------------------------------------------------------------------------
\* The steps up to the listing.
LEMMA FaultFacts ==
  ASSUME GrantsInv
  PROVE  /\ callFaults \in 0 .. MaxCallFaults
         /\ callFaults < MaxCallFaults => callFaults + 1 \in 0 .. MaxCallFaults
BY ConstantFacts DEF GrantsInv, GrantsTypeOK

\* A request that ends in an error before it has revoked anything.
LEMMA EndsEarly ==
  ASSUME GrantsInv, NEW c \in Clients, Active(c), call[c].pc \notin {"hung", "grant"},
         EndCall(c), callFaults' \in 0 .. MaxCallFaults,
         UNCHANGED <<calls, resources, granted, pairs, blocked, exact>>,
         cache' \in [Repos -> SUBSET Keys],
         \A r \in Repos \ gone :
            Foreign(r, cache'[r]) \subseteq Foreign(r, cache[r]) \cup granted[r]
  PROVE  GrantsInv'
<1>1. call' = [call EXCEPT ![c] = NoCall]
  BY DEF EndCall
<1>2. UNCHANGED <<nodes, bindings, gone, keyed, blocked, exact, calls, granted, pairs>>
  BY DEF resources
<1>3. Moves(c, NoCall)
  BY <1>1, NoCallFacts, MovesAlone
<1>4. CacheIsFresh'
  BY <1>2, <1>3, NoCallFacts, CacheStays
<1>5. GrantedAreForeign'
  BY <1>2 DEF GrantsInv, GrantedAreForeign
<1> QED
  BY <1>2, <1>3, <1>4, <1>5, NoCallFacts, CallFacts, Frame DEF GrantsTypeOK

LEMMA SaveKeysKeeps ==
  ASSUME GrantsInv, NEW c \in Clients, SaveKeys(c) PROVE GrantsInv'
<1>1. /\ call[c].pc = "keys" /\ Active(c)
      /\ UNCHANGED <<calls, callFaults, nodes, bindings, gone, granted, cache, pairs,
                     blocked, exact>>
  BY DEF SaveKeys, Active, bookkeeping
<1>2. GrantedAreForeign' /\ callFaults' \in 0 .. MaxCallFaults
  BY <1>1, FaultFacts DEF GrantsInv, GrantedAreForeign
<1>3. CASE call[c].repo \in gone
  <2>1. EndCall(c) /\ UNCHANGED keyed
    BY <1>3 DEF SaveKeys
  <2> QED
    BY <1>1, <1>2, <2>1, CallFacts, EndsEarly DEF resources
<1>4. CASE call[c].repo \notin gone
  <2> DEFINE new == [call[c] EXCEPT !.pc = "load", !.repo = NoRepo]
  <2>1. call' = [call EXCEPT ![c] = new] /\ keyed' = keyed \cup {call[c].repo}
    BY <1>4, CallFacts DEF SaveKeys
  <2>2. /\ new \in Calls
        /\ (new.alone => call[c].alone) /\ new.pc = "load" /\ new.op = call[c].op
    <3>1. PICK x \in Calls : x = call[c]
      BY CallFacts
    <3>2. PICK y : y = [x EXCEPT !.pc = "load", !.repo = NoRepo]
      OBVIOUS
    <3>3. y \in Calls /\ y.pc = "load" /\ y.op = x.op /\ y.alone = x.alone
      BY <3>2, ConstantFacts, CallsAre DEF CallPcs
    <3> QED
      BY <3>1, <3>2, <3>3
  <2>4. call'[c] = new
    BY <2>1, CallFacts
  <2> HIDE DEF new
  <2>8. Moves(c, new)
    BY <2>1, <2>2, MovesAlone
  <2>5. CacheIsFresh'
    BY <1>1, <2>2, <2>8, CacheStays
  <2>6. GettingOn(c) => GettingOn(c)'
    BY <1>1, <2>2, <2>4 DEF GettingOn, Valid, Resources
  <2>7. keyed' \in SUBSET Repos
    BY <2>1, CallFacts DEF GrantsTypeOK
  <2> QED
    BY <1>1, <1>2, <2>2, <2>5, <2>6, <2>7, <2>8, CallFacts, Frame
<1> QED
  BY <1>3, <1>4

\* What a load does to the records of the requests that wait for the tree.
LEMMA LoadedFacts ==
  ASSUME GrantsInv, NEW t \in Trees
  PROVE  /\ Loaded(t) \in [Clients -> Calls]
         /\ \A d \in Clients : /\ Loaded(t)[d].pc = call[d].pc
                               /\ Loaded(t)[d].alone => Loaded(t)[d] = call[d]
                               /\ ~AwaitsTree(d) => Loaded(t)[d] = call[d]
<1>1. ASSUME NEW d \in Clients
      PROVE  /\ Loaded(t)[d] \in Calls
             /\ Loaded(t)[d].pc = call[d].pc
             /\ Loaded(t)[d].alone => Loaded(t)[d] = call[d]
             /\ ~AwaitsTree(d) => Loaded(t)[d] = call[d]
  <2>1. PICK x \in Calls : x = call[d]
    BY CallFacts
  <2>2. PICK a \in BOOLEAN : a = (x.alone /\ t = x.tree)
    OBVIOUS
  <2>3. PICK y : y = [x EXCEPT !.tree = t, !.alone = a]
    OBVIOUS
  <2>4. Loaded(t)[d] = IF AwaitsTree(d) THEN y ELSE x
    BY <2>1, <2>2, <2>3, Zenon DEF Loaded
  <2>5. y \in Calls /\ y.pc = x.pc /\ y.alone = a
    BY <2>3, CallsAre
  <2>6. a => y = x
    <3>1. ASSUME a PROVE x.alone = a /\ x.tree = t
      BY <2>2, <3>1, CallsAre
    <3> QED
      BY <2>3, <3>1, CallsAre
  <2> QED
    BY <2>1, <2>4, <2>5, <2>6
<1>2. Loaded(t) \in [Clients -> Calls]
  <2>1. Loaded(t) = [d \in Clients |-> Loaded(t)[d]]
    BY Zenon DEF Loaded
  <2> QED
    BY <1>1, <2>1
<1> QED
  BY <1>1, <1>2

\* A step of c that loads the tree.
LEMMA LoadMoves ==
  ASSUME GrantsInv, NEW c \in Clients, NEW new \in Calls, NEW t \in Trees,
         call' = [Loaded(t) EXCEPT ![c] = new]
  PROVE  Moves(c, new)
BY LoadedFacts DEF Moves

LEMMA LoadNodesKeeps ==
  ASSUME GrantsInv, NEW c \in Clients, LoadNodes(c) PROVE GrantsInv'
<1> DEFINE own == call[c].op = "save"
<1>1. PICK t \in Trees : t = IF own THEN Resources ELSE call[c].tree
  BY CallFacts
<1> DEFINE base == IF own THEN Loaded(t) ELSE call
<1> DEFINE new == [call[c] EXCEPT !.pc = "list", !.nodes = t.nodes,
                                  !.bindings = t.bindings, !.tree = NoTree]
<1>2. /\ call[c].pc = "load" /\ Active(c)
      /\ call' = [base EXCEPT ![c].pc = "list", ![c].nodes = t.nodes,
                              ![c].bindings = t.bindings, ![c].tree = NoTree]
      /\ UNCHANGED <<calls, callFaults, nodes, bindings, keyed, gone, granted, cache,
                     pairs, blocked, exact>>
  BY <1>1 DEF LoadNodes, Active, bookkeeping, resources
<1>3. GrantedAreForeign' /\ callFaults' \in 0 .. MaxCallFaults
  BY <1>2, FaultFacts DEF GrantsInv, GrantedAreForeign
<1>4. t.nodes \in Nodes /\ t.bindings \in BindingSets /\ NoTree \in Trees
  BY TreeFacts
<1>5. /\ new \in Calls /\ (new.alone => call[c].alone) /\ new.op = call[c].op
      /\ new.pc = "list" /\ new.nodes = t.nodes /\ new.bindings = t.bindings
  <2>1. PICK x \in Calls : x = call[c]
    BY CallFacts
  <2>2. PICK y : y = [x EXCEPT !.pc = "list", !.nodes = t.nodes,
                               !.bindings = t.bindings, !.tree = NoTree]
    OBVIOUS
  <2>3. /\ y \in Calls /\ y.alone = x.alone /\ y.op = x.op
        /\ y.pc = "list" /\ y.nodes = t.nodes /\ y.bindings = t.bindings
    BY <1>4, <2>2, CallsAre DEF CallPcs
  <2> QED
    BY <2>1, <2>2, <2>3
<1>6. base \in [Clients -> Calls] /\ base[c] = call[c]
  BY CallFacts, LoadedFacts DEF AwaitsTree
<1>7. call' = [base EXCEPT ![c] = new]
  BY <1>2, <1>6
<1>8. call'[c] = new
  BY <1>6, <1>7
<1>9. Moves(c, new)
  BY <1>5, <1>7, LoadMoves, MovesAlone
<1> HIDE DEF new, base
<1>10. CacheIsFresh'
  BY <1>2, <1>5, <1>9, CacheStays
<1>11. GettingOn(c) => GettingOn(c)'
  <2> SUFFICES ASSUME GettingOn(c) PROVE GettingOn(c)'
    OBVIOUS
  <2>1. t = Resources
    BY <1>1, <1>2 DEF GettingOn
  <2>2. t.nodes = nodes /\ t.bindings = bindings
    BY <2>1, CallFacts
  <2> QED
    BY <1>2, <1>5, <1>8, <2>2 DEF GettingOn, Valid, Resources
<1> QED
  BY <1>2, <1>3, <1>5, <1>9, <1>10, <1>11, CallFacts, Frame DEF GrantsTypeOK

LEMMA ListingFacts ==
  ASSUME GrantsInv, NEW rs \in SUBSET Repos
  PROVE  /\ Cached(rs) \in [Repos -> SUBSET Keys]
         /\ \A r \in Repos : /\ cache[r] \subseteq Cached(rs)[r]
                             /\ Foreign(r, Cached(rs)[r]) \subseteq
                                   Foreign(r, cache[r]) \cup granted[r]
                             /\ r \in rs => granted[r] \subseteq Cached(rs)[r]
<1>1. \A x \in Repos : Listing(x) \in SUBSET Keys
  BY KeyFacts DEF Listing, GrantsInv, GrantsTypeOK
<1>2. \A x \in Repos : Foreign(x, Listing(x)) \subseteq granted[x]
                       /\ granted[x] \subseteq Listing(x)
  BY KeyFacts DEF Listing, Foreign
<1>3. \A x \in Repos : Cached(rs)[x] = IF x \in rs THEN cache[x] \cup Listing(x)
                                                   ELSE cache[x]
  BY DEF Cached
<1>4. Cached(rs) \in [Repos -> SUBSET Keys]
  BY <1>1 DEF Cached, GrantsInv, GrantsTypeOK
<1> QED
  BY <1>2, <1>3, <1>4 DEF Foreign

LEMMA InitialCacheStoreKeeps ==
  ASSUME GrantsInv, NEW c \in Clients, InitialCacheStore(c) PROVE GrantsInv'
<1> DEFINE new == [call[c] EXCEPT !.pc = "clear"]
<1>1. /\ call[c].pc = "list" /\ Active(c) /\ call' = [call EXCEPT ![c] = new]
      /\ cache' = Cached(There(call[c].nodes)) /\ There(call[c].nodes) \cap gone = {}
      /\ UNCHANGED <<calls, callFaults, nodes, bindings, keyed, gone, granted,
                     pairs, blocked, exact>>
  BY DEF InitialCacheStore, Goto, Active, bookkeeping, resources
<1>2. GrantedAreForeign' /\ callFaults' \in 0 .. MaxCallFaults
  BY <1>1, FaultFacts DEF GrantsInv, GrantedAreForeign
<1>3. new \in Calls
  <2>1. "clear" \in CallPcs
    BY DEF CallPcs
  <2> QED
    BY <2>1, CallFacts, CallUpdated
<1>4. /\ new.alone => call[c].alone
      /\ new.pc = "clear" /\ new.nodes = call[c].nodes /\ new.bindings = call[c].bindings
      /\ new.op = call[c].op
  BY CallFacts, CallsAre
<1>5. call'[c] = new
  BY <1>1, CallFacts
<1>10. Moves(c, new)
  BY <1>1, <1>3, MovesAlone
<1> HIDE DEF new
<1>6. There(call[c].nodes) \in SUBSET Repos
  BY DEF There
<1>7. /\ cache' \in [Repos -> SUBSET Keys]
      /\ \A r \in Repos : /\ Foreign(r, cache'[r]) \subseteq
                                Foreign(r, cache[r]) \cup granted[r]
                          /\ r \in There(call[c].nodes) => granted[r] \subseteq cache'[r]
  BY <1>1, <1>6, ListingFacts
<1>8. CacheIsFresh'
  BY <1>1, <1>3, <1>7, <1>10, CacheStays
<1>9. GettingOn(c) => GettingOn(c)'
  BY <1>1, <1>4, <1>5, <1>7 DEF GettingOn, There, Valid, Resources
<1> QED
  BY <1>1, <1>2, <1>3, <1>4, <1>7, <1>8, <1>9, <1>10, CallFacts, Frame DEF GrantsTypeOK

LEMMA FailuresKeep ==
  ASSUME GrantsInv, NEW c \in Clients, PushFails(c) \/ ListingFails(c) \/ KeysFail(c)
  PROVE  GrantsInv'
<1>3. CASE PushFails(c)
  <2>1. /\ call[c].pc \in {"push", "remove"} /\ EndCall(c)
        /\ UNCHANGED <<calls, nodes, bindings, keyed, gone, granted, cache, pairs, blocked,
                       exact>>
        /\ \/ UNCHANGED callFaults
           \/ callFaults < MaxCallFaults /\ callFaults' = callFaults + 1
    BY <1>3 DEF PushFails, keys
  <2>2. Active(c) /\ call[c].pc \notin {"hung", "grant"}
    BY <2>1 DEF Active
  <2>3. callFaults' \in 0 .. MaxCallFaults
    BY <2>1, FaultFacts
  <2> QED
    BY <2>1, <2>2, <2>3, CallFacts, EndsEarly DEF resources
<1>1. CASE ListingFails(c)
  <2>1. /\ call[c].pc = "list" /\ Active(c) /\ EndCall(c)
        /\ \/ UNCHANGED callFaults
           \/ callFaults < MaxCallFaults /\ callFaults' = callFaults + 1
        /\ UNCHANGED <<calls, resources, granted, pairs, blocked, exact>>
    BY <1>1 DEF ListingFails, Active
  <2>2. PICK rs \in SUBSET There(call[c].nodes) : cache' = Cached(rs)
    BY <1>1 DEF ListingFails
  <2>3. rs \in SUBSET Repos
    BY DEF There
  <2>4. /\ cache' \in [Repos -> SUBSET Keys]
        /\ \A r \in Repos : Foreign(r, cache'[r]) \subseteq
                               Foreign(r, cache[r]) \cup granted[r]
    BY <2>2, <2>3, ListingFacts
  <2> QED
    BY <2>1, <2>4, FaultFacts, EndsEarly
<1>2. CASE KeysFail(c)
  <2>1. /\ call[c].pc = "keys" /\ Active(c) /\ EndCall(c)
        /\ callFaults < MaxCallFaults /\ callFaults' = callFaults + 1
        /\ UNCHANGED <<calls, resources, granted, cache, pairs, blocked, exact>>
    BY <1>2 DEF KeysFail, Active
  <2> QED
    BY <2>1, CallFacts, FaultFacts, EndsEarly
<1> QED
  BY <1>1, <1>2, <1>3

-----------------------------------------------------------------------------
\* What clearUnauthorizedDeployKeys takes away, and that it takes all of it when the
\* cache holds no key that is gone.
Unauthorized(c, r) ==
    IF HasPermission(call[c].nodes, call[c].bindings, r)
    THEN {k \in Foreign(r, cache[r]) :
             ShouldDelete(call[c].nodes, call[c].bindings, r, k)}
    ELSE {}

LEMMA ClearFacts ==
  ASSUME GrantsInv, NEW c \in Clients, ClearUnauthorized(c)
  PROVE  /\ granted' \in [Repos -> SUBSET Keys]
         /\ \A r \in Repos : granted'[r] \subseteq granted[r]
         /\ \A r \in Repos : granted[r] \ Unauthorized(c, r) \subseteq granted'[r]
         /\ (\A r \in Repos : Unauthorized(c, r) \subseteq granted[r]) =>
               \A r \in Repos : granted'[r] = granted[r] \ Unauthorized(c, r)
<1> DEFINE found == {e \in Repos \X Keys : e[2] \in Unauthorized(c, e[1])}
           there == {e \in found : e[2] \in granted[e[1]]}
<1>1. PICK cut \in IF there = found THEN {found} ELSE SUBSET there :
         granted' = [r \in Repos |-> granted[r] \ {k \in Keys : <<r, k>> \in cut}]
  BY DEF ClearUnauthorized, Unauthorized
<1>2. granted \in [Repos -> SUBSET Keys]
  BY CallFacts
<1>3. cut \subseteq found
  BY <1>1
<1>4. granted' \in [Repos -> SUBSET Keys]
  BY <1>1, <1>2
<1>5. \A r \in Repos : /\ granted'[r] \subseteq granted[r]
                       /\ granted[r] \ Unauthorized(c, r) \subseteq granted'[r]
  BY <1>1, <1>2, <1>3
<1>6. ASSUME \A r \in Repos : Unauthorized(c, r) \subseteq granted[r],
             NEW r \in Repos
      PROVE  granted'[r] = granted[r] \ Unauthorized(c, r)
  <2>1. there = found
    BY <1>6
  <2>2. cut = found
    BY <1>1, <2>1
  <2>3. \A k \in Keys : <<r, k>> \in found <=> k \in Unauthorized(c, r)
    OBVIOUS
  <2> QED
    BY <1>1, <1>2, <2>2, <2>3
<1> QED
  BY <1>4, <1>5, <1>6

LEMMA PairFacts ==
  /\ \A p \in RepoPairs : p \subseteq Repos
  /\ \A x, y \in Repos : x # y => {x, y} \in RepoPairs
  /\ \A p \in RepoPairs : \A x, y \in p : x # y => p = {x, y}
BY DEF RepoPairs

LEMMA ThereFacts ==
  ASSUME NEW ns \in Nodes
  PROVE  /\ There(ns) \in SUBSET Repos
         /\ \A x \in Repos : x \in There(ns) <=> ns[x] # Missing
BY DEF There, Nodes

\* A repository that bindings or its project open to others is there.
LEMMA PermissionFacts ==
  ASSUME nodes \in Nodes, Valid(Resources), Resources.nodes = nodes,
         Resources.bindings = bindings, There(nodes) \cap gone = {},
         NEW r \in Repos, HasPermission(nodes, bindings, r)
  PROVE  r \in There(nodes) /\ r \notin gone
<1>1. CASE \E b \in bindings : b.repo = r
  BY <1>1, ThereFacts DEF Valid
<1>2. CASE \A b \in bindings : b.repo # r
  <2>1. \A p \in Permissions : Projects(Of(bindings, r, p)) = {}
    BY <1>2 DEF Projects, Of
  <2>2. nodes[r] # Missing
    BY <2>1 DEF HasPermission, TotalProjects
  <2> QED
    BY <2>2, ThereFacts
<1> QED
  BY <1>1, <1>2

\* shouldDeleteDeployKey spares what is allowed for a common project, and nothing
\* that is not allowed.
LEMMA SparedFacts ==
  ASSUME nodes \in Nodes, NEW r \in There(nodes), NEW k \in Keys, k[2] # r
  PROVE  /\ ~ShouldDelete(nodes, bindings, r, k) => Allowed(r, k)
         /\ SameProject(nodes, r, k[2]) /\ k[2] \in There(nodes) =>
               ~ShouldDelete(nodes, bindings, r, k)
<1>1. ASSUME ~ShouldDelete(nodes, bindings, r, k) PROVE Allowed(r, k)
  <2> DEFINE bs == Of(bindings, r, k[1])
  <2>1. k[2] \in There(nodes)
        /\ (ForProduct(bs) \/ nodes[k[2]] \in TotalProjects(nodes, bindings, r, k[1]))
    BY <1>1 DEF ShouldDelete
  <2>2. CASE ForProduct(bs)
    BY <2>1, <2>2 DEF ForProduct, Allowed
  <2>3. CASE nodes[k[2]] \in Projects(bs)
    BY <2>1, <2>3 DEF Projects, Allowed
  <2>4. CASE nodes[k[2]] \in {nodes[r]} \ {NoProject, Missing}
    BY <2>1, <2>4 DEF SameProject, Allowed
  <2> QED
    BY <2>1, <2>2, <2>3, <2>4 DEF TotalProjects
<1>2. ASSUME SameProject(nodes, r, k[2]), k[2] \in There(nodes)
      PROVE  ~ShouldDelete(nodes, bindings, r, k)
  <2>1. nodes[k[2]] \in {nodes[r]} \ {NoProject, Missing}
    BY <1>2, ThereFacts DEF SameProject
  <2> QED
    BY <1>2, <2>1 DEF ShouldDelete, TotalProjects
<1> QED
  BY <1>1, <1>2

LEMMA ClearAndPairKeeps ==
  ASSUME GrantsInv, NEW c \in Clients, ClearAndPair(c) PROVE GrantsInv'
<1> DEFINE ns == call[c].nodes
           bs == call[c].bindings
           todo == {<<b.permission, b.repo>> : b \in bs}
           new == [call[c] EXCEPT !.pc = "grant", !.todo = todo]
           found == {p \in RepoPairs : p \subseteq There(ns)
                                       /\ \E x, y \in p : SameProject(ns, x, y)}
<1>1. /\ call[c].pc = "clear" /\ Active(c) /\ ~blocked /\ ClearUnauthorized(c)
      /\ call' = [call EXCEPT ![c] = new]
      /\ pairs' = pairs \cup found
      /\ UNCHANGED <<calls, callFaults, nodes, bindings, keyed, gone, cache,
                     blocked, exact>>
  BY DEF ClearAndPair, Active, bookkeeping, resources
<1>2. /\ granted' \in [Repos -> SUBSET Keys]
      /\ \A r \in Repos : granted'[r] \subseteq granted[r]
      /\ \A r \in Repos : granted[r] \ Unauthorized(c, r) \subseteq granted'[r]
      /\ (\A r \in Repos : Unauthorized(c, r) \subseteq granted[r]) =>
            \A r \in Repos : granted'[r] = granted[r] \ Unauthorized(c, r)
  BY <1>1, ClearFacts
<1>3. todo \in CallTodos
  <2>1. bs \subseteq Bindings
    BY CallFacts DEF BindingSets
  <2> QED
    BY <2>1, ConstantFacts, KeyFacts DEF CallTodos
<1> HIDE DEF todo
<1>4. new \in Calls
  <2>1. PICK x \in Calls : x = call[c]
    BY CallFacts
  <2>2. PICK y : y = [x EXCEPT !.pc = "grant", !.todo = todo]
    OBVIOUS
  <2>3. y \in Calls
    BY <1>3, <2>2, CallsAre DEF CallPcs
  <2> QED
    BY <2>1, <2>2, <2>3
<1>5. /\ new.alone => call[c].alone
      /\ new.pc = "grant" /\ new.nodes = ns /\ new.bindings = bs /\ new.todo = todo
      /\ new.op = call[c].op
  BY CallFacts, CallsAre
<1>6. call'[c] = new /\ Moves(c, new)
  BY <1>1, <1>4, CallFacts, MovesAlone
<1> HIDE DEF new
<1>7. GrantedAreForeign'
  BY <1>2 DEF GrantsInv, GrantedAreForeign
<1>8. CacheIsFresh'
  BY <1>5, <1>6 DEF CacheIsFresh
<1>9. ASSUME Lone(c), GettingOn(c) PROVE GettingOn(c)'
  <2>1. /\ pairs = {} /\ ns = nodes /\ bs = bindings
        /\ \A r \in There(nodes) : granted[r] \subseteq cache[r]
        /\ Valid(Resources) /\ There(nodes) \cap gone = {}
        /\ call[c].op \in {"bind", "unbind", "save"}
    BY <1>1, <1>9 DEF GettingOn
  <2>2. nodes \in Nodes /\ granted \in [Repos -> SUBSET Keys]
        /\ cache \in [Repos -> SUBSET Keys] /\ There(nodes) \subseteq Repos
    BY CallFacts, ThereFacts
  <2>3. \A r \in Repos \ gone : Foreign(r, cache[r]) \subseteq granted[r]
    <3>1. \A d \in Clients : call[d].pc # "grant"
      BY <1>1, <1>9 DEF GrantsInv, LoneIsTheOnlyOne, Active
    <3> QED
      BY <1>1, <3>1 DEF GrantsInv, CacheIsFresh
  <2>4. \A r \in Repos : granted'[r] = granted[r] \ Unauthorized(c, r)
    <3>1. ASSUME NEW r \in Repos PROVE Unauthorized(c, r) \subseteq granted[r]
      <4>1. CASE HasPermission(nodes, bindings, r)
        <5>1. Foreign(r, cache[r]) \subseteq granted[r]
          BY <2>1, <2>2, <2>3, <4>1, CallFacts, PermissionFacts
        <5> QED
          BY <5>1 DEF Unauthorized
      <4>2. CASE ~HasPermission(nodes, bindings, r)
        BY <2>1, <4>2 DEF Unauthorized
      <4> QED
        BY <4>1, <4>2
    <3> QED
      BY <1>2, <3>1
  <2>5. \A p \in pairs' : \A x, y \in p : x # y => SameProject(nodes, x, y)
    BY <1>1, <2>1, PairFacts DEF SameProject
  <2>6. ASSUME NEW r \in There(nodes), HasPermission(nodes, bindings, r),
               NEW k \in granted'[r]
        PROVE  Allowed(r, k)
    <3>1. r \in Repos /\ k \in Keys /\ k \in granted[r] /\ k \notin Unauthorized(c, r)
      BY <2>2, <2>4, <2>6
    <3>2. k[2] # r /\ k \in Foreign(r, cache[r])
      BY <2>1, <3>1 DEF GrantsInv, GrantedAreForeign, Foreign
    <3>3. ~ShouldDelete(nodes, bindings, r, k)
      BY <2>1, <2>6, <3>1, <3>2 DEF Unauthorized
    <3> QED
      BY <2>2, <3>1, <3>2, <3>3, SparedFacts
  <2>7. ASSUME NEW r \in There(nodes), NEW k \in Keys, ByProject(r, k)
        PROVE  {r, k[2]} \in pairs' /\ (k \in cache[r] => k \in granted'[r])
    <3>1. /\ k[2] # r /\ r \in Repos /\ k[2] \in There(nodes) /\ k[2] \in Repos
          /\ SameProject(nodes, r, k[2])
      BY <2>2, <2>7 DEF ByProject, Between
    <3>2. {r, k[2]} \in pairs'
      BY <1>1, <2>1, <3>1, PairFacts
    <3>3. ~ShouldDelete(nodes, bindings, r, k)
      BY <2>2, <3>1, SparedFacts
    <3>4. ASSUME k \in cache[r] PROVE k \in granted'[r]
      <4>1. r \notin gone
        BY <2>1
      <4>2. k \in granted[r]
        BY <2>3, <3>1, <3>4, <4>1 DEF Foreign
      <4>3. k \notin Unauthorized(c, r)
        BY <2>1, <3>3 DEF Unauthorized
      <4> QED
        BY <2>4, <3>1, <4>2, <4>3
    <3> QED
      BY <3>2, <3>4
  <2>8. Cleared'
    BY <1>1, <2>5, <2>6, <2>7 DEF Cleared, ByProject, Between, Contested, Allowed
  <2>9. \A r \in There(nodes) : \A k \in Keys : ByBinding(r, k) => <<k[1], r>> \in todo
    BY <2>1 DEF ByBinding, Of, todo
  <2>10. \A t \in todo : Of(bindings, t[2], t[1]) # {}
    BY <2>1 DEF Of, todo
  <2>11. BoundAreGranted(call[c].todo)'
    BY <1>1, <1>5, <1>6, <2>9 DEF BoundAreGranted, ByBinding, Between
  <2> QED
    BY <1>1, <1>5, <1>6, <2>1, <2>8, <2>10, <2>11 DEF GettingOn, Valid, Resources
<1>10. pairs' \in SUBSET RepoPairs /\ callFaults' \in 0 .. MaxCallFaults
  BY <1>1, CallFacts, FaultFacts
<1> QED
  BY <1>1, <1>2, <1>4, <1>5, <1>6, <1>7, <1>8, <1>9, <1>10, CallFacts, Frame
  DEF GrantsTypeOK

\* The request that hangs takes the cache with it: nobody lists or clears before the
\* server has started anew.
LEMMA ClearAndHangKeeps ==
  ASSUME GrantsInv, NEW c \in Clients, ClearAndHang(c) PROVE GrantsInv'
<1> DEFINE new == [NoCall EXCEPT !.pc = "hung"]
<1>1. /\ call[c].pc = "clear" /\ Active(c) /\ ClearUnauthorized(c)
      /\ call' = [call EXCEPT ![c] = new] /\ blocked' = TRUE
      /\ UNCHANGED <<calls, nodes, bindings, keyed, gone, cache, pairs, exact>>
      /\ \/ UNCHANGED callFaults
         \/ callFaults < MaxCallFaults /\ callFaults' = callFaults + 1
  BY DEF ClearAndHang, Active, resources
<1>2. /\ granted' \in [Repos -> SUBSET Keys]
      /\ \A r \in Repos : granted'[r] \subseteq granted[r]
  BY <1>1, ClearFacts
<1>3. new \in Calls
  BY NoCallFacts DEF CallPcs
<1>4. new.pc = "hung" /\ ~new.alone
  BY DEF NoCall
<1> HIDE DEF new
<1>10. Moves(c, new)
  BY <1>1, <1>3, MovesAlone
<1>5. /\ call' \in [Clients -> Calls] /\ call'[c] = new /\ ~exact
      /\ \A d \in Clients : ~Lone(d)'
  BY <1>1, <1>3, <1>4, <1>10, OthersKeep DEF Moves
<1>6. callFaults' \in 0 .. MaxCallFaults
  BY <1>1, FaultFacts
<1>7. GrantsTypeOK'
  BY <1>1, <1>2, <1>5, <1>6 DEF GrantsInv, GrantsTypeOK
<1>8. LoneIsTheOnlyOne' /\ LoneGetsOn' /\ ExactIsDone'
  BY <1>1, <1>5 DEF LoneIsTheOnlyOne, LoneGetsOn, ExactIsDone
<1>9. GrantedAreForeign' /\ BlockedIsHung' /\ CacheIsFresh'
  BY <1>1, <1>2, <1>4, <1>5 DEF GrantsInv, GrantedAreForeign, BlockedIsHung, CacheIsFresh
<1> QED
  BY <1>7, <1>8, <1>9 DEF GrantsInv

-----------------------------------------------------------------------------
\* updateAuthorization and its like.
LEMMA ApplyFacts ==
  ASSUME GrantsInv, granted \in [Repos -> SUBSET Keys], NEW t \in Keys,
         NEW revoked, NEW enabled \in SUBSET (Repos \ {t[2]}),
         Apply(t, revoked, enabled)
  PROVE  /\ granted' \in [Repos -> SUBSET Keys] /\ GrantedAreForeign'
         /\ \A r \in Repos : r # t[2] => granted'[r] = granted[r]
         /\ granted'[t[2]] = (granted[t[2]] \ (({t[1]} \X revoked) \cap cache[t[2]]))
                                \cup ({t[1]} \X enabled)
<1>1. t[1] \in Permissions /\ t[2] \in Repos
  BY KeyFacts
<1>2. {t[1]} \X enabled \in SUBSET Keys /\ \A k \in {t[1]} \X enabled : k[2] # t[2]
  BY <1>1, KeyFacts
<1>3. granted' = [granted EXCEPT ![t[2]] =
        (@ \ (({t[1]} \X revoked) \cap cache[t[2]])) \cup ({t[1]} \X enabled)]
  BY DEF Apply
<1>4. /\ \A r \in Repos : r # t[2] => granted'[r] = granted[r]
      /\ granted'[t[2]] = (granted[t[2]] \ (({t[1]} \X revoked) \cap cache[t[2]]))
                             \cup ({t[1]} \X enabled)
  BY <1>1, <1>3
<1>5. granted' \in [Repos -> SUBSET Keys]
  BY <1>1, <1>2, <1>3
<1>6. GrantedAreForeign'
  BY <1>1, <1>2, <1>4 DEF GrantsInv, GrantedAreForeign
<1> QED
  BY <1>4, <1>5, <1>6

\* With current knowledge, what is enabled is what bindings allow, and nothing is
\* revoked for good that a common project allows and no binding contests.
LEMMA AuthorizedFacts ==
  ASSUME nodes \in Nodes, NEW c \in Clients, NEW t \in Keys,
         call[c].nodes = nodes, call[c].bindings = bindings,
         Of(bindings, t[2], t[1]) # {}
  PROVE  /\ \A y \in Authorized(c, t) : t[2] \in There(nodes) => Allowed(t[2], <<t[1], y>>)
         /\ \A k \in Keys : k[1] = t[1] /\ ByBinding(t[2], k) => k[2] \in Authorized(c, t)
         /\ \A k \in Keys : k[1] = t[1] /\ ByProject(t[2], k) /\ k[2] \in Recycled(c, t)
               => k[2] \in Authorized(c, t)
<1> DEFINE bs == Of(bindings, t[2], t[1])
           others == There(nodes) \ {t[2]}
           found == {x \in others : nodes[x] \notin Projects(bs)}
<1>1. Authorized(c, t) = {x \in others : ForProduct(bs) \/ nodes[x] \in Projects(bs)}
  BY DEF Authorized
<1>2. Recycled(c, t) = IF ForProduct(bs) THEN {} ELSE Filtered(There(nodes), found) \ {t[2]}
  BY DEF Recycled
<1>3. ASSUME NEW y \in Authorized(c, t), t[2] \in There(nodes)
      PROVE  Allowed(t[2], <<t[1], y>>)
  <2>1. \E b \in bs : b.projects = {} \/ nodes[y] \in b.projects
    BY <1>1, <1>3 DEF ForProduct, Projects
  <2> QED
    BY <1>1, <1>3, <2>1 DEF Allowed
<1>4. ASSUME NEW k \in Keys, k[1] = t[1], ByBinding(t[2], k)
      PROVE  k[2] \in Authorized(c, t)
  <2>1. ForProduct(bs) \/ nodes[k[2]] \in Projects(bs)
    BY <1>4 DEF ByBinding, ForProduct, Projects
  <2> QED
    BY <1>1, <1>4, <2>1 DEF ByBinding, Between
<1>5. ASSUME NEW k \in Keys, k[1] = t[1], ByProject(t[2], k), k[2] \in Recycled(c, t)
      PROVE  k[2] \in Authorized(c, t)
  <2>1. ~ForProduct(bs) /\ k[2] \in Filtered(There(nodes), found)
    BY <1>2, <1>5
  <2>2. k[2] \in others /\ nodes[t[2]] = nodes[k[2]]
    BY <1>5 DEF ByProject, Between, SameProject
  <2>3. nodes[k[2]] \in Projects(bs)
    BY <1>5, <2>1, <2>2 DEF ByProject, Contested
  <2> QED
    BY <1>1, <2>2, <2>3
<1> QED
  BY <1>3, <1>4, <1>5

LEMMA AuthorizedAreOthers ==
  ASSUME GrantsInv, NEW c \in Clients, NEW t
  PROVE  Authorized(c, t) \in SUBSET (Repos \ {t[2]})
BY CallFacts, ThereFacts DEF Authorized

LEMMA ProcessAuthorizationKeeps ==
  ASSUME GrantsInv, NEW c \in Clients, ProcessAuthorization(c) PROVE GrantsInv'
<1>1. PICK t \in call[c].todo :
         /\ Apply(t, Recycled(c, t), Authorized(c, t))
         /\ call' = [call EXCEPT ![c].todo = @ \ {t}]
  BY DEF ProcessAuthorization
<1> DEFINE new == [call[c] EXCEPT !.todo = call[c].todo \ {t}]
<1>2. /\ call[c].pc = "grant" /\ Active(c)
      /\ UNCHANGED <<calls, callFaults, nodes, bindings, keyed, gone, cache, pairs,
                     blocked, exact>>
  BY DEF ProcessAuthorization, Active, bookkeeping, resources
<1>3. t \in Keys /\ call[c].todo \ {t} \in CallTodos
  BY CallFacts DEF CallTodos
<1>4. new \in Calls /\ call' = [call EXCEPT ![c] = new]
  <2>1. new \in Calls
    BY <1>3, CallFacts, CallUpdated
  <2> QED
    BY <1>1, <2>1, CallFacts
<1>5. /\ new.alone => call[c].alone
      /\ new.pc = "grant" /\ new.nodes = call[c].nodes /\ new.bindings = call[c].bindings
      /\ new.todo = call[c].todo \ {t} /\ new.op = call[c].op
  BY <1>2, CallFacts, CallsAre
<1>6. call'[c] = new /\ Moves(c, new)
  BY <1>4, CallFacts, MovesAlone
<1> HIDE DEF new
<1>7. /\ granted' \in [Repos -> SUBSET Keys] /\ GrantedAreForeign'
      /\ \A r \in Repos : r # t[2] => granted'[r] = granted[r]
      /\ granted'[t[2]] =
            (granted[t[2]] \ (({t[1]} \X Recycled(c, t)) \cap cache[t[2]]))
               \cup ({t[1]} \X Authorized(c, t))
  BY <1>1, <1>3, CallFacts, AuthorizedAreOthers, ApplyFacts
<1>8. CacheIsFresh'
  BY <1>5, <1>6 DEF CacheIsFresh
<1>9. ASSUME GettingOn(c) PROVE GettingOn(c)'
  <2>1. /\ call[c].nodes = nodes /\ call[c].bindings = bindings
        /\ Cleared /\ BoundAreGranted(call[c].todo)
        /\ \A u \in call[c].todo : Of(bindings, u[2], u[1]) # {}
    BY <1>2, <1>9 DEF GettingOn
  <2>2. nodes \in Nodes /\ There(nodes) \subseteq Repos
    BY CallFacts, ThereFacts
  <2>3. /\ \A y \in Authorized(c, t) : t[2] \in There(nodes) => Allowed(t[2], <<t[1], y>>)
        /\ \A k \in Keys : k[1] = t[1] /\ ByBinding(t[2], k) => k[2] \in Authorized(c, t)
        /\ \A k \in Keys : k[1] = t[1] /\ ByProject(t[2], k) /\ k[2] \in Recycled(c, t)
              => k[2] \in Authorized(c, t)
    BY <1>3, <2>1, <2>2, AuthorizedFacts
  <2>4. ASSUME NEW r \in There(nodes), HasPermission(nodes, bindings, r),
               NEW k \in granted'[r]
        PROVE  Allowed(r, k)
    <3>1. CASE k \in granted[r]
      BY <2>1, <2>4, <3>1 DEF Cleared
    <3>2. CASE k \notin granted[r]
      <4>1. r = t[2] /\ k \in {t[1]} \X Authorized(c, t)
        BY <1>7, <2>2, <2>4, <3>2
      <4>2. k = <<t[1], k[2]>> /\ k[2] \in Authorized(c, t)
        BY <4>1
      <4> QED
        BY <2>3, <4>1, <4>2
    <3> QED
      BY <3>1, <3>2
  <2>5. ASSUME NEW r \in There(nodes), NEW k \in Keys, ByProject(r, k), k \in granted[r]
        PROVE  k \in granted'[r]
    <3>1. CASE r = t[2] /\ k[1] = t[1] /\ k[2] \in Recycled(c, t)
      <4>1. k[2] \in Authorized(c, t) /\ k = <<t[1], k[2]>>
        BY <2>3, <2>5, <3>1, KeyFacts
      <4> QED
        BY <1>7, <3>1, <4>1
    <3>2. CASE ~(r = t[2] /\ k[1] = t[1] /\ k[2] \in Recycled(c, t))
      <4>1. r \in Repos
        BY <2>2
      <4> QED
        BY <1>7, <2>5, <3>2, <4>1
    <3> QED
      BY <3>1, <3>2
  <2>6. Cleared'
    <3>1. \A r \in There(nodes) : \A k \in Keys : ByProject(r, k) =>
             /\ k \in granted'[r] \/ {r, k[2]} \in pairs
             /\ k \in cache[r] => k \in granted'[r]
      BY <2>1, <2>5 DEF Cleared
    <3>2. \A p \in pairs : \A x, y \in p : x # y => SameProject(nodes, x, y)
      BY <2>1 DEF Cleared
    <3> QED
      BY <1>2, <2>4, <3>1, <3>2 DEF Cleared, ByProject, Between, Contested, Allowed
  <2>7. ASSUME NEW r \in There(nodes), NEW k \in Keys, ByBinding(r, k),
               <<k[1], r>> \notin call[c].todo \ {t}
        PROVE  k \in granted'[r]
    <3>1. r \in Repos /\ t = <<t[1], t[2]>>
      BY <1>3, <2>2, KeyFacts
    <3>2. CASE k[1] = t[1] /\ r = t[2]
      <4>1. k[2] \in Authorized(c, t) /\ k = <<t[1], k[2]>>
        BY <2>3, <2>7, <3>2, KeyFacts
      <4> QED
        BY <1>7, <3>2, <4>1
    <3>3. CASE ~(k[1] = t[1] /\ r = t[2])
      <4>1. <<k[1], r>> \notin call[c].todo
        BY <2>7, <3>1, <3>3
      <4>2. k \in granted[r]
        BY <2>1, <2>7, <4>1 DEF BoundAreGranted
      <4> QED
        BY <1>7, <3>1, <3>3, <4>2
    <3> QED
      BY <3>2, <3>3
  <2>8. BoundAreGranted(call[c].todo)'
    BY <1>2, <1>5, <1>6, <2>7 DEF BoundAreGranted, ByBinding, Between
  <2> QED
    BY <1>2, <1>5, <1>6, <1>9, <2>1, <2>6, <2>8 DEF GettingOn, Valid, Resources
<1> QED
  BY <1>2, <1>4, <1>5, <1>6, <1>7, <1>8, <1>9, CallFacts, FaultFacts, Frame
  DEF GrantsTypeOK

LEMMA AuthorizationFailsKeeps ==
  ASSUME GrantsInv, NEW c \in Clients, AuthorizationFails(c) PROVE GrantsInv'
<1>1. /\ call[c].pc = "grant" /\ Active(c) /\ cache' = NoKeys
      /\ call' = [call EXCEPT ![c] = NoCall]
      /\ UNCHANGED <<calls, nodes, bindings, keyed, gone, pairs, blocked, exact>>
  BY DEF AuthorizationFails, EndCall, Active, resources
<1>2. PICK t \in call[c].todo :
         /\ \/ UNCHANGED callFaults
            \/ callFaults < MaxCallFaults /\ callFaults' = callFaults + 1
         /\ \/ UNCHANGED granted
            \/ \E some \in SUBSET Recycled(c, t) : Apply(t, some, {})
            \/ \E some \in SUBSET (Authorized(c, t) \cap keyed) :
                  Apply(t, Recycled(c, t), some)
  BY DEF AuthorizationFails
<1>3. t \in Keys
  BY CallFacts DEF CallTodos
<1>4. granted' \in [Repos -> SUBSET Keys] /\ GrantedAreForeign'
  <2>1. CASE UNCHANGED granted
    BY <2>1, CallFacts DEF GrantsInv, GrantedAreForeign
  <2> QED
    BY <1>2, <1>3, <2>1, CallFacts, AuthorizedAreOthers, ApplyFacts
<1>7. Moves(c, NoCall)
  BY <1>1, NoCallFacts, MovesAlone
<1>5. CacheIsFresh' /\ cache' \in [Repos -> SUBSET Keys]
  BY <1>1, ResetIsFresh, KeyFacts
<1>6. callFaults' \in 0 .. MaxCallFaults
  BY <1>2, FaultFacts
<1> QED
  BY <1>1, <1>4, <1>5, <1>6, <1>7, NoCallFacts, CallFacts, Frame DEF GrantsTypeOK

\* Why a key is allowed depends on the product's resources alone.
LEMMA ReasonsStay ==
  ASSUME UNCHANGED <<nodes, bindings>>
  PROVE  \A r, k : /\ Allowed(r, k)' <=> Allowed(r, k)
                   /\ ByProject(r, k)' <=> ByProject(r, k)
                   /\ ByBinding(r, k)' <=> ByBinding(r, k)
BY DEF Allowed, ByProject, ByBinding, Between, Contested

\* The cache is empty again.
LEMMA ClearedStays ==
  ASSUME Cleared, cache' = NoKeys, UNCHANGED <<nodes, bindings, granted, pairs>>
  PROVE  Cleared'
<1>1. \A r \in There(nodes), k \in Keys : k \notin cache'[r]
  BY KeyFacts DEF There
<1> QED
  BY <1>1, ReasonsStay DEF Cleared

LEMMA EndRefreshKeeps ==
  ASSUME GrantsInv, NEW c \in Clients, EndRefresh(c) PROVE GrantsInv'
<1>1. /\ call[c].pc = "grant" /\ call[c].todo = {} /\ Active(c) /\ cache' = NoKeys
      /\ UNCHANGED <<calls, callFaults, nodes, bindings, keyed, gone, granted, pairs,
                     blocked>>
  BY DEF EndRefresh, Active, bookkeeping, resources
<1>2. /\ CacheIsFresh' /\ cache' \in [Repos -> SUBSET Keys] /\ GrantedAreForeign'
      /\ callFaults' \in 0 .. MaxCallFaults
  BY <1>1, ResetIsFresh, KeyFacts, FaultFacts DEF GrantsInv, GrantedAreForeign
<1>3. CASE call[c].op = "drop"
  <2> DEFINE new == [NoCall EXCEPT !.pc = "delete", !.op = "drop", !.repo = call[c].repo]
  <2>1. call' = [call EXCEPT ![c] = new] /\ exact' = exact
    BY <1>3 DEF EndRefresh
  <2>2. new \in Calls
    <3>1. PICK x \in Calls : x = NoCall
      BY NoCallFacts
    <3>2. PICK r \in Repos : r = call[c].repo
      BY CallFacts
    <3>3. [x EXCEPT !.pc = "delete", !.op = "drop", !.repo = r] \in Calls
      BY CallsAre DEF CallPcs, Ops
    <3> QED
      BY <3>1, <3>2, <3>3
  <2>3. ~new.alone
    BY DEF NoCall
  <2>4. Moves(c, new)
    BY <2>1, <2>2, MovesAlone
  <2> HIDE DEF new
  <2> QED
    BY <1>1, <1>2, <2>1, <2>2, <2>3, <2>4, CallFacts, Frame DEF GrantsTypeOK
<1>4. CASE call[c].op # "drop"
  <2>1. call' = [call EXCEPT ![c] = NoCall] /\ exact' = (exact \/ call[c].alone)
    BY <1>4 DEF EndRefresh, EndCall
  <2>2. /\ call' \in [Clients -> Calls] /\ call'[c] = NoCall
        /\ \A d \in Clients : d # c => call'[d] = call[d]
        /\ ~exact
        /\ \A d \in Clients : ~Lone(d)'
    <3>1. Moves(c, NoCall)
      BY <2>1, NoCallFacts, MovesAlone
    <3> QED
      BY <1>1, <2>1, <3>1, CallFacts, NoCallFacts, OthersKeep DEF Moves
  <2>3. exact' => Lone(c)
    BY <1>1, <2>1, <2>2 DEF Lone
  <2>4. exact' \in BOOLEAN
    BY <2>1, CallFacts, CallsAre DEF GrantsTypeOK
  <2>5. GrantsTypeOK'
    BY <1>1, <1>2, <2>2, <2>4 DEF GrantsInv, GrantsTypeOK
  <2>6. LoneIsTheOnlyOne' /\ LoneGetsOn'
    BY <2>2, <2>3, NoCallFacts
    DEF GrantsInv, LoneIsTheOnlyOne, LoneGetsOn, Lone, Active
  <2>7. ExactIsDone'
    <3> SUFFICES ASSUME exact' PROVE Cleared' /\ BoundAreGranted({})'
      BY DEF ExactIsDone
    <3>1. Cleared /\ BoundAreGranted({})
      BY <1>1, <2>3 DEF GrantsInv, LoneGetsOn, GettingOn
    <3>2. Cleared'
      BY <1>1, <3>1, ClearedStays
    <3>3. BoundAreGranted({})'
      BY <1>1, <3>1 DEF BoundAreGranted, ByBinding, Between
    <3> QED
      BY <3>2, <3>3
  <2>9. BlockedIsHung'
    BY <1>1, <2>2 DEF GrantsInv, BlockedIsHung
  <2> QED
    BY <1>2, <2>5, <2>6, <2>7, <2>9 DEF GrantsInv
<1> QED
  BY <1>3, <1>4

\* The push of a request that is alone makes what it has loaded and checked.
LEMMA PushKeeps ==
  ASSUME GrantsInv, NEW c \in Clients, Push(c) PROVE GrantsInv'
<1> DEFINE new == [call[c] EXCEPT !.pc = IF call[c].op = "save" THEN "keys" ELSE "load",
                                  !.project = Missing, !.edit = {},
                                  !.nodes = NoNodes, !.bindings = {}]
<1>1. /\ call[c].pc = "push" /\ Active(c) /\ call' = [call EXCEPT ![c] = new]
      /\ nodes' = Merged(c).nodes /\ bindings' = Merged(c).bindings
      /\ UNCHANGED <<calls, callFaults, keyed, gone, granted, cache, pairs, blocked, exact>>
  BY DEF Push, Active, bookkeeping, keys
<1>2. /\ new \in Calls /\ (new.alone => call[c].alone) /\ new.op = call[c].op
      /\ new.pc = (IF call[c].op = "save" THEN "keys" ELSE "load")
      /\ new.tree = call[c].tree
  <2>1. PICK x \in Calls : x = call[c]
    BY CallFacts
  <2>2. PICK pc \in CallPcs : pc = IF x.op = "save" THEN "keys" ELSE "load"
    BY DEF CallPcs
  <2>3. PICK y : y = [x EXCEPT !.pc = pc, !.project = Missing, !.edit = {},
                               !.nodes = NoNodes, !.bindings = {}]
    OBVIOUS
  <2>4. /\ y \in Calls /\ y.alone = x.alone /\ y.op = x.op /\ y.pc = pc
        /\ y.tree = x.tree
    BY <2>3, ConstantFacts, TreeFacts, CallsAre
  <2>5. y = new
    BY <2>1, <2>2, <2>3
  <2> QED
    BY <2>1, <2>2, <2>4, <2>5
<1>3. call'[c] = new /\ Moves(c, new)
  BY <1>1, <1>2, CallFacts, MovesAlone
<1> HIDE DEF new
<1>4. Merged(c) \in Trees
  <2>1. [nodes EXCEPT ![call[c].repo] = call[c].project] \in Nodes
    BY CallFacts DEF Nodes
  <2>2. bindings \cup call[c].edit \in BindingSets /\ bindings \ call[c].edit \in BindingSets
    BY CallFacts DEF BindingSets
  <2> QED
    BY <2>1, <2>2, CallFacts, TreeFacts DEF Merged
<1>5. nodes' \in Nodes /\ bindings' \in BindingSets /\ Resources' = Merged(c)
  BY <1>1, <1>4, TreeFacts DEF Resources
<1>6. /\ ~exact
      /\ \A d \in Clients : Lone(d)' => d = c /\ Lone(c) /\ new.alone
      /\ \A d, e \in Clients : Lone(d)' /\ Active(e)' => d = e
  BY <1>1, <1>2, <1>3, OthersKeep
<1>7. GrantsTypeOK'
  BY <1>1, <1>3, <1>5 DEF GrantsInv, GrantsTypeOK, Moves, BindingSets
<1>8. LoneIsTheOnlyOne' /\ ExactIsDone'
  BY <1>1, <1>6 DEF LoneIsTheOnlyOne, ExactIsDone
<1>9. BlockedIsHung' /\ GrantedAreForeign'
  BY <1>1, <1>3 DEF GrantsInv, BlockedIsHung, GrantedAreForeign, Moves
<1>10. CacheIsFresh'
  BY <1>1, <1>2, <1>3, CacheStays
<1>11. LoneGetsOn'
  <2> SUFFICES ASSUME Lone(c)', Lone(c) PROVE GettingOn(c)'
    BY <1>6 DEF LoneGetsOn
  <2>1. /\ pairs = {} /\ Valid(Merged(c)) /\ call[c].op \in {"bind", "unbind", "save"}
        /\ call[c].op # "save" => call[c].tree = Merged(c)
    BY <1>1 DEF GrantsInv, LoneGetsOn, GettingOn
  <2>2. Valid(Resources)'
    BY <1>5, <2>1 DEF Valid
  <2> QED
    BY <1>1, <1>2, <1>3, <1>5, <2>1, <2>2 DEF GettingOn
<1> QED
  BY <1>7, <1>8, <1>9, <1>10, <1>11 DEF GrantsInv

\* Nobody is alone when a repository is removed: a deletion never is.
LEMMA CheckDeletionKeeps ==
  ASSUME GrantsInv, NEW c \in Clients, CheckDeletion(c) PROVE GrantsInv'
<1>1. PICK t \in Trees : t = Tree([nodes EXCEPT ![call[c].repo] = Missing], bindings)
  <2>1. [nodes EXCEPT ![call[c].repo] = Missing] \in Nodes
    BY CallFacts, ConstantFacts DEF Nodes
  <2> QED
    BY <2>1, CallFacts, TreeFacts
<1>2. /\ call[c].pc = "delete" /\ Active(c)
      /\ UNCHANGED <<calls, callFaults, nodes, bindings, keyed, gone, granted, cache,
                     pairs, blocked, exact>>
  BY DEF CheckDeletion, Active, bookkeeping, resources
<1>3. Loaded(t) \in [Clients -> Calls] /\ Loaded(t)[c] = call[c]
  BY <1>2, LoadedFacts DEF AwaitsTree
<1>4. PICK new \in Calls : /\ call' = [Loaded(t) EXCEPT ![c] = new]
                           /\ new.alone => call[c].alone
  <2> DEFINE going == [call[c] EXCEPT !.pc = "remove", !.nodes = nodes, !.bindings = bindings]
  <2>1. going \in Calls /\ (going.alone => call[c].alone)
    BY CallFacts, CallsAre DEF CallPcs
  <2>2. \/ call' = [Loaded(t) EXCEPT ![c] = NoCall]
        \/ call' = [Loaded(t) EXCEPT ![c] = going]
    BY <1>1, <1>3 DEF CheckDeletion
  <2> QED
    BY <2>1, <2>2, NoCallFacts
<1>5. Moves(c, new)
  BY <1>4, LoadMoves
<1>6. CacheIsFresh'
  BY <1>2, <1>5, CacheStays
<1>7. GrantedAreForeign' /\ callFaults' \in 0 .. MaxCallFaults
  BY <1>2, FaultFacts DEF GrantsInv, GrantedAreForeign
<1>8. ~GettingOn(c)
  BY <1>2 DEF GettingOn
<1> QED
  BY <1>2, <1>4, <1>5, <1>6, <1>7, <1>8, CallFacts, Frame DEF GrantsTypeOK

LEMMA RemoveCodeRepoKeeps ==
  ASSUME GrantsInv, NEW c \in Clients, RemoveCodeRepo(c) PROVE GrantsInv'
<1>1. /\ call[c].pc = "remove" /\ Active(c) /\ call' = [call EXCEPT ![c] = NoCall]
      /\ UNCHANGED <<calls, callFaults, bindings, cache, pairs, blocked, exact>>
      /\ nodes' = [nodes EXCEPT ![call[c].repo] = Missing]
      /\ keyed' = keyed \ {call[c].repo}
      /\ gone' = gone \cup {call[c].repo}
      /\ granted' = [granted EXCEPT ![call[c].repo] = {}]
  BY DEF RemoveCodeRepo, Active, EndCall, bookkeeping
<1>2. Moves(c, NoCall)
  BY <1>1, NoCallFacts, MovesAlone
<1>3. /\ call' \in [Clients -> Calls] /\ call'[c] = NoCall
      /\ \A d \in Clients : d # c => call'[d] = call[d]
      /\ ~exact
      /\ \A d \in Clients : ~Lone(d)'
  BY <1>1, <1>2, CallFacts, NoCallFacts, OthersKeep DEF Moves
<1>4. LoneIsTheOnlyOne' /\ LoneGetsOn' /\ ExactIsDone'
  BY <1>1, <1>3 DEF LoneIsTheOnlyOne, LoneGetsOn, ExactIsDone
<1>5. BlockedIsHung'
  BY <1>1, <1>3 DEF GrantsInv, BlockedIsHung
<1>6. nodes' \in Nodes /\ granted' \in [Repos -> SUBSET Keys] /\ call[c].repo \in Repos
  BY <1>1, ConstantFacts, CallFacts DEF Nodes
<1>7. GrantsTypeOK'
  BY <1>1, <1>3, <1>6 DEF GrantsInv, GrantsTypeOK
<1>8. GrantedAreForeign'
  BY <1>1, <1>6, CallFacts DEF GrantsInv, GrantedAreForeign
<1>9. CacheIsFresh'
  <2>1. \A r \in Repos \ gone' : granted'[r] = granted[r]
    BY <1>1, CallFacts
  <2> QED
    BY <1>1, <1>2, <2>1, NoCallFacts, CacheStays
<1> QED
  BY <1>4, <1>5, <1>7, <1>8, <1>9 DEF GrantsInv

-----------------------------------------------------------------------------
\* The goroutines.
LEMMA AuthorizePairKeeps ==
  ASSUME GrantsInv, NEW pair \in RepoPairs, AuthorizePair(pair) PROVE GrantsInv'
<1>1. /\ pair \in pairs /\ pairs' = pairs \ {pair}
      /\ UNCHANGED <<calls, callFaults, nodes, bindings, keyed, gone, blocked, call, exact>>
      /\ cache' = [x \in Repos |->
            IF x \in pair /\ ~(OwnKeys(x) \subseteq cache[x])
            THEN {<<"readwrite", x>>} ELSE cache[x]]
      /\ granted' = [x \in Repos |->
            IF x \in pair
            THEN granted[x] \cup (Foreign(x, Permissions \X pair) \ cache'[x])
            ELSE granted[x]]
  BY DEF AuthorizePair, bookkeeping, resources
<1>2. PICK a \in Repos, b \in Repos : a # b /\ pair = {a, b}
  BY DEF RepoPairs
<1>3. /\ granted \in [Repos -> SUBSET Keys] /\ cache \in [Repos -> SUBSET Keys]
      /\ nodes \in Nodes /\ There(nodes) \subseteq Repos /\ pairs \in SUBSET RepoPairs
  BY ThereFacts DEF GrantsInv, GrantsTypeOK
<1>4. \A x \in Repos : cache'[x] \in SUBSET Keys
                       /\ \A k \in cache'[x] : k[2] # x => k \in cache[x]
  BY <1>1, <1>3, KeyFacts
<1>5. /\ \A x \in Repos : granted[x] \subseteq granted'[x]
      /\ \A x \in Repos : \A k \in granted'[x] : k \in granted[x] \/
            (x \in pair /\ k \in Permissions \X pair /\ k[2] # x /\ k \notin cache'[x])
      /\ \A x \in pair, p \in Permissions, y \in pair : y # x =>
            <<p, y>> \in cache'[x] \/ <<p, y>> \in granted'[x]
  BY <1>1, <1>2, <1>3 DEF Foreign
<1>6. \A x \in Repos : \A k \in granted'[x] : k \in Keys /\ k[2] # x
  BY <1>2, <1>3, <1>5, KeyFacts DEF GrantsInv, GrantedAreForeign
<1>7. /\ cache' \in [Repos -> SUBSET Keys] /\ granted' \in [Repos -> SUBSET Keys]
      /\ GrantedAreForeign'
  BY <1>1, <1>4, <1>6 DEF GrantedAreForeign
<1>8. CacheIsFresh'
  <2>1. CASE blocked \/ \E d \in Clients : call[d].pc = "grant"
    BY <1>1, <2>1 DEF CacheIsFresh
  <2>2. CASE \A r \in Repos \ gone : Foreign(r, cache[r]) \subseteq granted[r]
    BY <1>1, <1>4, <1>5, <2>2 DEF CacheIsFresh, Foreign
  <2> QED
    BY <2>1, <2>2 DEF GrantsInv, CacheIsFresh
<1>9. Cleared => Cleared'
  <2> SUFFICES ASSUME Cleared PROVE Cleared'
    OBVIOUS
  <2>1. \A x, y \in pair : x # y => SameProject(nodes, x, y)
    BY <1>1 DEF Cleared
  <2>2. ASSUME NEW r \in There(nodes), HasPermission(nodes, bindings, r),
               NEW k \in granted'[r]
        PROVE  Allowed(r, k)
    <3>1. CASE k \in granted[r]
      BY <2>2, <3>1 DEF Cleared
    <3>2. CASE k \notin granted[r]
      <4>1. r \in pair /\ k[2] \in pair /\ k[2] # r
        BY <1>3, <1>5, <2>2, <3>2
      <4>2. SameProject(nodes, r, k[2])
        BY <2>1, <4>1
      <4>3. {r, k[2]} \subseteq There(nodes)
        BY <1>2, <4>1, <4>2 DEF SameProject, There
      <4> QED
        BY <4>1, <4>2, <4>3 DEF Allowed
    <3> QED
      BY <3>1, <3>2
  <2>3. ASSUME NEW r \in There(nodes), NEW k \in Keys, ByProject(r, k)
        PROVE  /\ k \in granted'[r] \/ {r, k[2]} \in pairs'
               /\ k \in cache'[r] => k \in granted'[r]
    <3>1. /\ k \in granted[r] \/ {r, k[2]} \in pairs
          /\ k \in cache[r] => k \in granted[r]
      BY <2>3 DEF Cleared
    <3>2. r \in Repos /\ k[2] # r
      BY <1>3, <2>3 DEF ByProject, Between
    <3>3. k \in cache'[r] => k \in granted'[r]
      BY <1>4, <1>5, <3>1, <3>2
    <3>4. CASE {r, k[2]} = pair
      <4>1. k \in cache'[r] \/ k \in granted'[r]
        BY <1>5, <3>2, <3>4, KeyFacts
      <4> QED
        BY <3>3, <4>1
    <3>5. CASE {r, k[2]} # pair
      BY <1>1, <1>5, <3>1, <3>2, <3>3, <3>5
    <3> QED
      BY <3>4, <3>5
  <2>4. \A p \in pairs' : \A x, y \in p : x # y => SameProject(nodes, x, y)
    BY <1>1 DEF Cleared
  <2> QED
    BY <1>1, <2>2, <2>3, <2>4, ReasonsStay DEF Cleared
<1>10. ASSUME NEW todo, BoundAreGranted(todo)
       PROVE  \A r \in There(nodes) : \A k \in Keys :
                 ByBinding(r, k) /\ <<k[1], r>> \notin todo => k \in granted'[r]
  BY <1>3, <1>5, <1>10 DEF BoundAreGranted
<1>11. LoneGetsOn'
  <2> SUFFICES ASSUME NEW c \in Clients, Lone(c), GettingOn(c) PROVE GettingOn(c)'
    BY <1>1 DEF GrantsInv, LoneGetsOn, Lone, Active
  <2>1. call[c].pc = "grant"
    BY <1>1 DEF GettingOn
  <2>2. Cleared' /\ BoundAreGranted(call[c].todo)'
    BY <1>1, <1>9, <1>10, <2>1 DEF GettingOn, BoundAreGranted, ByBinding, Between
  <2> QED
    BY <1>1, <2>1, <2>2 DEF GettingOn, Valid, Resources
<1>12. ExactIsDone'
  <2>1. ASSUME Cleared, BoundAreGranted({}) PROVE BoundAreGranted({})'
    <3>1. \A r \in There(nodes) : \A k \in Keys : ByBinding(r, k) => k \in granted'[r]
      BY <1>3, <1>5, <2>1 DEF BoundAreGranted
    <3> QED
      BY <1>1, <3>1, ReasonsStay DEF BoundAreGranted
  <2> QED
    BY <1>1, <1>9, <2>1 DEF GrantsInv, ExactIsDone
<1>13. GrantsTypeOK'
  BY <1>1, <1>7 DEF GrantsInv, GrantsTypeOK
<1>14. LoneIsTheOnlyOne' /\ BlockedIsHung'
  BY <1>1 DEF GrantsInv, LoneIsTheOnlyOne, Lone, Active, BlockedIsHung
<1> QED
  BY <1>7, <1>8, <1>11, <1>12, <1>13, <1>14 DEF GrantsInv

LEMMA PairCrashesServerKeeps ==
  ASSUME GrantsInv, NEW pair \in RepoPairs, PairCrashesServer(pair) PROVE GrantsInv'
<1>1. /\ call' = [c \in Clients |-> NoCall] /\ cache' = NoKeys /\ pairs' = {}
      /\ blocked' = FALSE /\ exact' = FALSE
      /\ UNCHANGED <<calls, nodes, bindings, keyed, gone, granted>>
      /\ \/ UNCHANGED callFaults
         \/ callFaults < MaxCallFaults /\ callFaults' = callFaults + 1
  BY DEF PairCrashesServer, resources
<1>2. callFaults' \in 0 .. MaxCallFaults
  BY <1>1, FaultFacts
<1>3. GrantsTypeOK'
  BY <1>1, <1>2, KeyFacts, NoCallFacts DEF GrantsInv, GrantsTypeOK
<1>4. \A c \in Clients : ~Active(c)'
  BY <1>1, NoCallFacts DEF Active
<1>5. CacheIsFresh'
  BY <1>1, ResetIsFresh
<1>6. GrantedAreForeign' /\ BlockedIsHung'
  BY <1>1 DEF GrantsInv, GrantedAreForeign, BlockedIsHung
<1> QED
  BY <1>1, <1>3, <1>4, <1>5, <1>6
  DEF GrantsInv, LoneIsTheOnlyOne, LoneGetsOn, Lone, ExactIsDone

-----------------------------------------------------------------------------
\* What a request that is alone can rely on depends on the product's resources, the
\* grants, the cache, the goroutines and its own record.
LEMMA GettingOnStays ==
  ASSUME UNCHANGED <<nodes, bindings, gone, granted, cache, pairs>>, NEW c \in Clients,
         call'[c] = call[c], GettingOn(c)
  PROVE  GettingOn(c)'
<1>1. Cleared => Cleared'
  BY ReasonsStay DEF Cleared
<1>2. BoundAreGranted(call[c].todo) => BoundAreGranted(call[c].todo)'
  BY ReasonsStay DEF BoundAreGranted
<1>3. /\ Valid(Resources) => Valid(Resources)'
      /\ Resources' = Resources /\ Merged(c)' = Merged(c)
      /\ Valid(Merged(c)) => Valid(Merged(c))'
  BY DEF Valid, Resources, Merged
<1> QED
  BY <1>1, <1>2, <1>3 DEF GettingOn

\* A load by a request that changes nothing else, one that reads or is refused.
LEMMA LoadTreeKeeps ==
  ASSUME GrantsInv, NEW t \in Trees, LoadTree(t) PROVE GrantsInv'
<1>1. /\ call' = Loaded(t)
      /\ UNCHANGED <<calls, callFaults, nodes, bindings, keyed, gone, granted, cache,
                     pairs, blocked, exact>>
  BY DEF LoadTree, bookkeeping, keys
<1>2. /\ call' \in [Clients -> Calls]
      /\ \A d \in Clients : /\ call'[d].pc = call[d].pc
                            /\ call'[d].alone => call'[d] = call[d]
  BY <1>1, LoadedFacts
<1>3. GrantsTypeOK' /\ GrantedAreForeign'
  BY <1>1, <1>2 DEF GrantsInv, GrantsTypeOK, GrantedAreForeign
<1>4. LoneIsTheOnlyOne' /\ BlockedIsHung' /\ CacheIsFresh'
  BY <1>1, <1>2
  DEF GrantsInv, LoneIsTheOnlyOne, Lone, Active, BlockedIsHung, CacheIsFresh
<1>5. LoneGetsOn'
  <2> SUFFICES ASSUME NEW d \in Clients, Lone(d)' PROVE GettingOn(d)'
    BY DEF LoneGetsOn
  <2>1. call'[d] = call[d] /\ Lone(d)
    BY <1>2 DEF Lone, Active
  <2>2. GettingOn(d)
    BY <2>1 DEF GrantsInv, LoneGetsOn
  <2> QED
    BY <1>1, <2>1, <2>2, GettingOnStays
<1>6. ExactIsDone'
  <2>1. Cleared => Cleared'
    BY <1>1, ReasonsStay DEF Cleared
  <2>2. BoundAreGranted({}) => BoundAreGranted({})'
    BY <1>1, ReasonsStay DEF BoundAreGranted
  <2> QED
    BY <1>1, <2>1, <2>2 DEF GrantsInv, ExactIsDone
<1> QED
  BY <1>3, <1>4, <1>5, <1>6 DEF GrantsInv

\* A request begins: it is alone if nobody else is there, and nobody else is any more.
Changed(x) == Tree(IF x.op = "save" THEN [nodes EXCEPT ![x.repo] = x.project] ELSE nodes,
                   IF x.op = "bind" THEN bindings \cup x.edit ELSE bindings \ x.edit)

LEMMA CallBegun ==
  ASSUME GrantsInv, SomeFree, NEW c \in Clients, NEW new \in Calls, NEW t \in Trees,
         BeginCall(c, new, t), new.pc \in {"push", "list"}, ~new.alone,
         \/ new.op = "drop"
         \/ /\ new.pc = "push" /\ new.op \in {"bind", "unbind", "save"}
            /\ Valid(Changed(new)) /\ (new.op # "save" => new.tree = Changed(new))
  PROVE  GrantsInv'
<1>0. PICK first \in BOOLEAN :
         first = (/\ new.op # "drop" /\ pairs = {}
                  /\ \A e \in Clients : ~Active(e))
  OBVIOUS
<1> DEFINE r == [new EXCEPT !.nodes = nodes, !.bindings = bindings, !.alone = first]
<1>1. /\ c = CHOOSE d \in Clients : ~Active(d)
      /\ calls < MaxCalls /\ calls' = calls + 1 /\ exact' = FALSE
      /\ call' = [d \in Clients |->
            IF d = c THEN r ELSE [Loaded(t)[d] EXCEPT !.alone = FALSE]]
      /\ UNCHANGED <<nodes, bindings, keyed, gone, granted, cache, pairs, blocked,
                     callFaults>>
  BY <1>0, Zenon DEF BeginCall, keys
<1>2. ~Active(c)
  BY <1>1 DEF SomeFree
<1>3. /\ r \in Calls /\ r.pc = new.pc /\ r.op = new.op /\ r.tree = new.tree
      /\ r.repo = new.repo /\ r.project = new.project /\ r.edit = new.edit
      /\ r.alone => /\ \A e \in Clients : ~Active(e)
                    /\ pairs = {} /\ new.op # "drop"
  <2>1. /\ r \in Calls /\ r.pc = new.pc /\ r.alone = first
        /\ r.op = new.op /\ r.tree = new.tree
        /\ r.repo = new.repo /\ r.project = new.project /\ r.edit = new.edit
    BY CallFacts, CallsAre
  <2> QED
    BY <1>0, <2>1
<1> HIDE DEF r
<1>4. Loaded(t) \in [Clients -> Calls]
      /\ \A d \in Clients : Loaded(t)[d].pc = call[d].pc
  BY LoadedFacts
<1>5. call'[c] = r /\ \A d \in Clients : d # c =>
         call'[d] \in Calls /\ ~call'[d].alone /\ call'[d].pc = call[d].pc
  <2>1. call'[c] = r
    BY <1>1
  <2>2. ASSUME NEW d \in Clients, d # c
        PROVE  call'[d] \in Calls /\ ~call'[d].alone /\ call'[d].pc = call[d].pc
    <3>1. call'[d] = [Loaded(t)[d] EXCEPT !.alone = FALSE]
      BY <1>1, <2>2
    <3>2. PICK x \in Calls : x = Loaded(t)[d]
      BY <1>4
    <3>3. call'[d] = [x EXCEPT !.alone = FALSE]
      BY <3>1, <3>2
    <3>4. PICK y : y = [x EXCEPT !.alone = FALSE]
      OBVIOUS
    <3>5. y \in Calls /\ ~y.alone /\ y.pc = x.pc
      BY <3>4, CallsAre
    <3> QED
      BY <1>4, <3>2, <3>3, <3>4, <3>5
  <2> QED
    BY <2>1, <2>2
<1>6. call' \in [Clients -> Calls]
  <2>1. \A d \in Clients : call'[d] \in Calls
    BY <1>3, <1>5
  <2> QED
    BY <1>1, <2>1
<1>7. calls' \in 0 .. MaxCalls
  BY <1>1, ConstantFacts DEF GrantsInv, GrantsTypeOK
<1>8. GrantsTypeOK'
  BY <1>1, <1>6, <1>7 DEF GrantsInv, GrantsTypeOK
<1>9. \A d \in Clients : Lone(d)' =>
         /\ d = c /\ pairs = {} /\ new.op # "drop"
         /\ \A e \in Clients : ~Active(e)
  BY <1>3, <1>5 DEF Lone
<1>10. LoneIsTheOnlyOne' /\ ExactIsDone'
  BY <1>1, <1>5, <1>9 DEF LoneIsTheOnlyOne, ExactIsDone, Active
<1>11. GrantedAreForeign'
  BY <1>1 DEF GrantsInv, GrantedAreForeign
<1>12. BlockedIsHung'
  BY <1>1, <1>2, <1>5 DEF GrantsInv, BlockedIsHung, Active
<1>13. CacheIsFresh'
  BY <1>1, <1>2, <1>5 DEF GrantsInv, CacheIsFresh, Active
<1>14. LoneGetsOn'
  <2> SUFFICES ASSUME Lone(c)' PROVE GettingOn(c)'
    BY <1>9 DEF LoneGetsOn
  <2>1. /\ pairs' = {} /\ call'[c].pc = "push" /\ call'[c].op \in {"bind", "unbind", "save"}
        /\ Valid(Changed(new)) /\ (call'[c].op # "save" => call'[c].tree = Changed(new))
    BY <1>1, <1>3, <1>5, <1>9
  <2>2. Merged(c)' = Changed(new)
    BY <1>1, <1>3, <1>5 DEF Merged, Changed, Tree
  <2>3. Valid(Merged(c))'
    BY <2>1, <2>2 DEF Valid
  <2> QED
    BY <2>1, <2>2, <2>3 DEF GettingOn
<1> QED
  BY <1>8, <1>10, <1>11, <1>12, <1>13, <1>14 DEF GrantsInv

\* A change that is refused is loaded all the same.
LEMMA SaveBegun ==
  ASSUME GrantsInv, SomeFree, NEW c \in Clients, NEW new \in Calls,
         BeginSave(c, new, Changed(new)), Changed(new) \in Trees, ~new.alone,
         new.op \in {"bind", "unbind", "save"}, new.op # "save" => new.tree = Changed(new)
  PROVE  GrantsInv'
<1>1. CASE Valid(Changed(new))
  <2>1. PICK x : x = [new EXCEPT !.pc = "push"]
    OBVIOUS
  <2>2. /\ x \in Calls /\ x.pc = "push" /\ ~x.alone /\ x.op = new.op /\ x.tree = new.tree
        /\ x.repo = new.repo /\ x.project = new.project /\ x.edit = new.edit
    BY <2>1, CallsAre DEF CallPcs
  <2>3. Changed(x) = Changed(new)
    BY <2>2 DEF Changed
  <2>4. BeginCall(c, x, Changed(x))
    BY <1>1, <2>1, <2>3 DEF BeginSave
  <2> QED
    BY <1>1, <2>2, <2>3, <2>4, CallBegun
<1>2. CASE ~Valid(Changed(new))
  <2>1. LoadTree(Changed(new))
    BY <1>2 DEF BeginSave
  <2> QED
    BY <2>1, LoadTreeKeeps
<1> QED
  BY <1>1, <1>2

LEMMA SaveCodeRepoBindingKeeps ==
  ASSUME GrantsInv, SomeFree, NEW c \in Clients, NEW b \in Bindings,
         SaveCodeRepoBinding(c, b)
  PROVE  GrantsInv'
<1>1. PICK t \in Trees : t = Tree(nodes, bindings \cup {b})
  BY CallFacts, TreeFacts DEF BindingSets
<1> DEFINE new == [NoCall EXCEPT !.op = "bind", !.edit = {b}, !.tree = t]
<1>2. BeginSave(c, new, t)
  BY <1>1 DEF SaveCodeRepoBinding
<1>3. /\ new \in Calls /\ ~new.alone /\ new.op = "bind" /\ new.edit = {b} /\ new.tree = t
  BY NoCallFacts, CallsAre DEF Ops, BindingSets
<1> HIDE DEF new
<1>4. Changed(new) = t
  BY <1>1, <1>3 DEF Changed
<1> QED
  BY <1>2, <1>3, <1>4, SaveBegun

LEMMA DeleteCodeRepoBindingKeeps ==
  ASSUME GrantsInv, SomeFree, NEW c \in Clients, NEW b \in Bindings,
         DeleteCodeRepoBinding(c, b)
  PROVE  GrantsInv'
<1>1. PICK t \in Trees : t = Tree(nodes, bindings \ {b})
  BY CallFacts, TreeFacts DEF BindingSets
<1> DEFINE new == [NoCall EXCEPT !.op = "unbind", !.edit = {b}, !.tree = t]
<1>2. BeginSave(c, new, t)
  BY <1>1 DEF DeleteCodeRepoBinding
<1>3. /\ new \in Calls /\ ~new.alone /\ new.op = "unbind" /\ new.edit = {b}
      /\ new.tree = t
  BY NoCallFacts, CallsAre DEF Ops, BindingSets
<1> HIDE DEF new
<1>4. Changed(new) = t
  BY <1>1, <1>3 DEF Changed
<1> QED
  BY <1>2, <1>3, <1>4, SaveBegun

LEMMA SaveCodeRepoKeeps ==
  ASSUME GrantsInv, SomeFree, NEW c \in Clients, NEW v \in Saves, SaveCodeRepo(c, v)
  PROVE  GrantsInv'
<1>1. v.repo \in Repos /\ v.project \in ProjectNames
  BY ConstantFacts
<1>2. PICK t \in Trees : t = Tree([nodes EXCEPT ![v.repo] = v.project], bindings)
  <2>1. [nodes EXCEPT ![v.repo] = v.project] \in Nodes
    BY <1>1, CallFacts DEF Nodes
  <2> QED
    BY <2>1, CallFacts, TreeFacts
<1> DEFINE new == [NoCall EXCEPT !.op = "save", !.repo = v.repo, !.project = v.project]
<1>3. BeginSave(c, new, t)
  BY <1>2 DEF SaveCodeRepo
<1>4. /\ new \in Calls /\ ~new.alone /\ new.op = "save" /\ new.edit = {}
      /\ new.repo = v.repo /\ new.project = v.project
  BY <1>1, NoCallFacts, CallsAre DEF Ops
<1> HIDE DEF new
<1>5. bindings \ {} = bindings
  OBVIOUS
<1>6. Changed(new) = t
  BY <1>2, <1>4, <1>5 DEF Changed
<1> QED
  BY <1>3, <1>4, <1>6, SaveBegun

LEMMA DeleteCodeRepoKeeps ==
  ASSUME GrantsInv, SomeFree, NEW c \in Clients, NEW x \in Repos, DeleteCodeRepo(c, x)
  PROVE  GrantsInv'
<1> DEFINE new == [NoCall EXCEPT !.pc = "list", !.op = "drop", !.repo = x]
<1>1. BeginCall(c, new, Resources)
  BY DEF DeleteCodeRepo
<1>2. new \in Calls /\ new.pc = "list" /\ new.op = "drop" /\ ~new.alone
  <2>1. PICK y \in Calls : y = NoCall
    BY NoCallFacts
  <2>2. /\ [y EXCEPT !.pc = "list", !.op = "drop", !.repo = x] \in Calls
        /\ [y EXCEPT !.pc = "list", !.op = "drop", !.repo = x].pc = "list"
        /\ [y EXCEPT !.pc = "list", !.op = "drop", !.repo = x].op = "drop"
        /\ [y EXCEPT !.pc = "list", !.op = "drop", !.repo = x].alone = y.alone
    BY CallsAre DEF CallPcs, Ops
  <2> QED
    BY <2>1, <2>2, NoCallFacts
<1> HIDE DEF new
<1> QED
  BY <1>1, <1>2, CallFacts, CallBegun

LEMMA NextGrantsInv == GrantsInv /\ [GrantsNext]_grantsVars => GrantsInv'
<1> SUFFICES ASSUME GrantsInv, [GrantsNext]_grantsVars PROVE GrantsInv'
  OBVIOUS
<1>1. ASSUME SomeFree, NEW c \in Clients,
             \/ \E b \in Bindings :
                   SaveCodeRepoBinding(c, b) \/ DeleteCodeRepoBinding(c, b)
             \/ \E v \in Saves : SaveCodeRepo(c, v)
             \/ \E x \in Repos : DeleteCodeRepo(c, x)
      PROVE  GrantsInv'
  BY <1>1, SaveCodeRepoBindingKeeps, DeleteCodeRepoBindingKeeps, SaveCodeRepoKeeps,
     DeleteCodeRepoKeeps
<1>2. ASSUME NEW c \in Clients, CallStep(c) PROVE GrantsInv'
  BY <1>2, PushKeeps, SaveKeysKeeps, LoadNodesKeeps, InitialCacheStoreKeeps,
     ClearAndPairKeeps, ProcessAuthorizationKeeps, AuthorizationFailsKeeps,
     EndRefreshKeeps, CheckDeletionKeeps, RemoveCodeRepoKeeps
  DEF CallStep
<1>3. ASSUME NEW c \in Clients,
             PushFails(c) \/ ListingFails(c) \/ ClearAndHang(c) \/ KeysFail(c)
      PROVE  GrantsInv'
  BY <1>3, FailuresKeep, ClearAndHangKeeps
<1>4. ASSUME NEW pair \in RepoPairs, PairStep(pair) PROVE GrantsInv'
  BY <1>4, AuthorizePairKeeps, PairCrashesServerKeeps DEF PairStep
<1>5. CASE UNCHANGED grantsVars
  <2>1. /\ UNCHANGED <<nodes, bindings, keyed, gone, granted, cache, pairs, blocked>>
        /\ UNCHANGED <<call, calls, callFaults, exact>>
    BY <1>5 DEF grantsVars
  <2>2. Cleared => Cleared'
    BY <2>1, ReasonsStay DEF Cleared
  <2>3. LoneGetsOn' /\ ExactIsDone'
    <3>1. BoundAreGranted({}) => BoundAreGranted({})'
      BY <2>1, ReasonsStay DEF BoundAreGranted
    <3>2. \A c \in Clients : GettingOn(c) => GettingOn(c)'
      BY <2>1, GettingOnStays
    <3> QED
      BY <2>1, <2>2, <3>1, <3>2
      DEF GrantsInv, LoneGetsOn, ExactIsDone, Lone, Active
  <2>4. GrantsTypeOK' /\ LoneIsTheOnlyOne'
    BY <2>1 DEF GrantsInv, GrantsTypeOK, LoneIsTheOnlyOne, Lone, Active
  <2>5. GrantedAreForeign' /\ BlockedIsHung' /\ CacheIsFresh'
    BY <2>1 DEF GrantsInv, GrantedAreForeign, BlockedIsHung, CacheIsFresh
  <2> QED
    BY <2>3, <2>4, <2>5 DEF GrantsInv
<1>6. ASSUME ReadNodes PROVE GrantsInv'
  <2>1. Resources \in Trees
    BY TreeFacts DEF GrantsInv, GrantsTypeOK, Resources, BindingSets
  <2> QED
    BY <1>6, <2>1, LoadTreeKeeps DEF ReadNodes
<1> QED
  BY <1>1, <1>2, <1>3, <1>4, <1>5, <1>6 DEF GrantsNext

LEMMA GrantsInvAlways == GrantsSpec => []GrantsInv
BY InitGrantsInv, NextGrantsInv, PTL DEF GrantsSpec

-----------------------------------------------------------------------------
\* What the invariant says of the grants at rest.
LEMMA OnlyAllowedFollows == GrantsInv => OnlyAllowedAreGranted
  BY DEF GrantsInv, ExactIsDone, Cleared, OnlyAllowedAreGranted, Settled

LEMMA AllowedFollows == GrantsInv => AllowedAreGranted
<1> SUFFICES ASSUME GrantsInv, exact, pairs = {},
                    NEW r \in There(nodes), NEW k \in Keys, Allowed(r, k),
                    ~(SameProject(nodes, r, k[2]) /\ Contested(r, k))
             PROVE  k \in granted[r]
  BY DEF AllowedAreGranted, Settled
<1>1. Cleared /\ BoundAreGranted({})
  BY DEF GrantsInv, ExactIsDone
<1>2. ByBinding(r, k) \/ ByProject(r, k)
  BY DEF Allowed, ByBinding, ByProject, Between
<1>3. CASE ByBinding(r, k)
  BY <1>1, <1>3 DEF BoundAreGranted
<1>4. CASE ByProject(r, k)
  BY <1>1, <1>4 DEF Cleared
<1> QED
  BY <1>2, <1>3, <1>4

\* After an undisturbed refresh, no repository is open to a key that neither a binding
\* nor a common project allows (clearUnauthorizedDeployKeys), whatever overlapping
\* requests, failures and crashes went before.
THEOREM OnlyAllowedStayOpen == GrantsSpec => []OnlyAllowedAreGranted
  BY OnlyAllowedFollows, GrantsInvAlways, PTL

\* And every key that is allowed opens its repository, the contested ones of a common
\* project aside (authorizeForSameProjectRepo, updateAuthorization,
\* updateAllAuthorization).
THEOREM AllowedAreOpen == GrantsSpec => []AllowedAreGranted
  BY AllowedFollows, GrantsInvAlways, PTL

\* Nodes, keys, cache and requests stay what they are declared as.
THEOREM GrantsTypeCorrect == GrantsSpec => []GrantsTypeOK
<1>1. GrantsInv => GrantsTypeOK
  BY DEF GrantsInv
<1> QED
  BY <1>1, GrantsInvAlways, PTL

=============================================================================
