-------------------------- MODULE KeyAuthorization --------------------------
(***************************************************************************)
(* Which deploy keys open which repositories: the api-server's             *)
(* refreshAuthorization (src/app/api-server/internal/biz/                  *)
(* coderepobinding.go), run at the end of every save and deletion of a     *)
(* CodeRepo and of a CodeRepoBinding.                                      *)
(*                                                                         *)
(* A binding lets the repositories of some projects of the product, or of  *)
(* all of them, use a repository: their deploy keys are enabled in it.     *)
(* Repositories of one project use each other without a binding.  All      *)
(* requests share one cache of GitLab's lists and one wait group, and the  *)
(* keys of one project are enabled by goroutines nobody waits for.         *)
(*                                                                         *)
(* A request clones the product's repository, loads it into a tree,        *)
(* changes and checks the tree, and pushes; a push after others' pushes    *)
(* merges.  The tree is shared: a request about a binding refreshes with   *)
(* the one that any request loaded last (nodestree.go, GetNodes).          *)
(*                                                                         *)
(* One product.  A key is named by its repository and permission: the IDs  *)
(* are CodeRepoKeys' concern.  No request sets insecureSkipCheck.          *)
(***************************************************************************)
EXTENDS Naturals

CONSTANTS
    Repos,          \* code repositories
    Missing,        \* the node of a repository without a resource
    NoProject,      \* the project of a repository that names none
    FirstNodes,     \* the project of each repository there at the start
    Saves,          \* repositories and projects requests save
    Bindings,       \* CodeRepoBindings requests save and delete
    Clients,        \* requests that can be in progress at a time
    MaxCalls,       \* bound: requests
    MaxCallFaults   \* bound: failing calls to GitLab and the vault

Permissions == {"readonly", "readwrite"}

ASSUME GrantsAssumption ==
    /\ \A b \in Bindings : /\ b.repo \in Repos /\ b.permission \in Permissions
                          /\ NoProject \notin b.projects
    /\ Repos # {} /\ FirstNodes \in [Repos -> {FirstNodes[x] : x \in Repos}]
    /\ \A v \in Saves : v.repo \in Repos /\ v.project # Missing
    /\ Missing # NoProject
    /\ MaxCalls \in Nat /\ MaxCallFaults \in Nat

VARIABLES
    nodes,       \* CodeRepo resources of the product: the project of each
    bindings,    \* CodeRepoBinding resources of the product
    keyed,       \* repositories whose keys are in GitLab and in the vault
    gone,        \* repositories whose project was deleted
    granted,     \* foreign keys enabled in each repository
    cache,       \* projectDeployKeyMap: the keys listed for each repository
    pairs,       \* goroutines of authorizeForSameProjectRepo still to run
    blocked,     \* the shared wait group will never reach zero
    call,        \* requests in progress
    calls, callFaults,
    exact        \* history: the last request was undisturbed and succeeded

grantsVars == <<nodes, bindings, keyed, gone, granted, cache, pairs,
                blocked, call, calls, callFaults, exact>>

Keys == Permissions \X Repos
OwnKeys(x) == Permissions \X {x}
Foreign(x, keys) == {k \in keys : k[2] # x}
NoKeys == [x \in Repos |-> {}]

NoRepo == CHOOSE x \in Repos : TRUE
NoNodes == [x \in Repos |-> Missing]
RepoPairs == {p \in SUBSET Repos : \E x, y \in p : x # y /\ p = {x, y}}
There(ns) == {x \in Repos : ns[x] # Missing}
Tree(ns, bs) == [nodes |-> ns, bindings |-> bs]
Resources == Tree(nodes, bindings)
NoTree == Tree(NoNodes, {})
NoCall == [pc |-> "free", op |-> "none", repo |-> NoRepo, project |-> Missing,
           edit |-> {}, nodes |-> NoNodes, bindings |-> {}, tree |-> NoTree,
           todo |-> {}, alone |-> FALSE]

ProjectNames == {v.project : v \in Saves} \cup {NoProject, Missing}
                    \cup {FirstNodes[x] : x \in Repos}
Nodes == [Repos -> ProjectNames]
Trees == [nodes: Nodes, bindings: SUBSET Bindings]

Calls ==
    [pc: {"free", "push", "keys", "load", "list", "clear", "hung", "grant",
          "delete", "remove"},
     op: {"none", "bind", "unbind", "save", "drop"}, repo: Repos,
     project: ProjectNames, edit: SUBSET Bindings, nodes: Nodes,
     bindings: SUBSET Bindings, tree: Trees, todo: SUBSET Keys, alone: BOOLEAN]

GrantsTypeOK ==
    /\ nodes \in Nodes
    /\ keyed \subseteq Repos /\ gone \subseteq Repos
    /\ bindings \subseteq Bindings
    /\ granted \in [Repos -> SUBSET Keys] /\ cache \in [Repos -> SUBSET Keys]
    /\ pairs \subseteq RepoPairs
    /\ blocked \in BOOLEAN /\ exact \in BOOLEAN
    /\ call \in [Clients -> Calls]
    /\ calls \in 0 .. MaxCalls /\ callFaults \in 0 .. MaxCallFaults

GrantsInit ==
    /\ nodes = FirstNodes /\ keyed = There(FirstNodes)
    /\ gone = {} /\ bindings = {}
    /\ granted = NoKeys /\ cache = NoKeys
    /\ pairs = {}
    /\ blocked = FALSE /\ exact = FALSE
    /\ call = [c \in Clients |-> NoCall]
    /\ calls = 0 /\ callFaults = 0

-----------------------------------------------------------------------------
(***************************************************************************)
(* What the bindings say.                                                  *)
(***************************************************************************)
Of(bs, r, p) == {b \in bs : b.repo = r /\ b.permission = p}
Projects(bs) == UNION {b.projects : b \in bs}
ForProduct(bs) == \E b \in bs : b.projects = {}

\* isEqualProject
SameProject(ns, x, y) == x # y /\ ns[x] = ns[y] /\ ns[x] # NoProject

\* The projects of calculateCodeRepoTotalPermission: those of the bindings and
\* the repository's own.
TotalProjects(ns, bs, r, p) ==
    Projects(Of(bs, r, p)) \cup ({ns[r]} \ {NoProject, Missing})
HasPermission(ns, bs, r) ==
    \E p \in Permissions : TotalProjects(ns, bs, r, p) # {}

\* Mutant: the key of a repository that is gone is left alone.
ShouldDeleteKnown(ns, bs, r, key) ==
    /\ key[2] \in There(ns)
    /\ ~ForProduct(Of(bs, r, key[1]))
    /\ ns[key[2]] \notin TotalProjects(ns, bs, r, key[1])

\* shouldDeleteDeployKey
ShouldDelete(ns, bs, r, key) ==
    \/ key[2] \notin There(ns)
    \/ /\ ~ForProduct(Of(bs, r, key[1]))
       /\ ns[key[2]] \notin TotalProjects(ns, bs, r, key[1])

-----------------------------------------------------------------------------
(***************************************************************************)
(* Requests.                                                               *)
(***************************************************************************)
Active(c) == call[c].pc # "free"
Goto(c, pc) == call' = [call EXCEPT ![c].pc = pc]
EndCall(c) == call' = [call EXCEPT ![c] = NoCall]

bookkeeping == <<calls, callFaults>>
resources == <<nodes, bindings, keyed, gone>>
keys == <<keyed, gone, granted, cache, pairs, blocked>>

\* Compare and CheckReference: a binding's repository must be in the tree.
Valid(t) == \A b \in t.bindings : t.nodes[b.repo] # Missing

\* nodesTree.nodes is the tree any request loaded last.  A binding request has
\* it in its record until its GetNodes, and each later load replaces it there.
AwaitsTree(d) == /\ call[d].op \in {"bind", "unbind"}
                 /\ call[d].pc \in {"push", "load"}
Loaded(t) == [d \in Clients |->
    IF AwaitsTree(d) THEN [call[d] EXCEPT !.tree = t,
                                          !.alone = @ /\ t = call[d].tree]
                     ELSE call[d]]

\* A request takes the first place that is free: requests are alike.  It is
\* alone when no other is in progress and no goroutine left of an earlier one.
BeginCall(c, new, t) ==
    /\ c = CHOOSE d \in Clients : ~Active(d)
    /\ calls < MaxCalls
    /\ calls' = calls + 1
    /\ exact' = FALSE
    /\ call' = [d \in Clients |->
          IF d = c
          THEN [new EXCEPT !.nodes = nodes, !.bindings = bindings,
                           !.alone = /\ new.op # "drop" /\ pairs = {}
                                     /\ \A e \in Clients : ~Active(e)]
          ELSE [Loaded(t)[d] EXCEPT !.alone = FALSE]]
    /\ UNCHANGED <<nodes, bindings, keys, callFaults>>

\* A load and nothing else.
LoadTree(t) ==
    /\ call' = Loaded(t)
    /\ UNCHANGED <<bookkeeping, nodes, bindings, keys, exact>>

SomeFree == \E c \in Clients : ~Active(c)

\* ResourcesUsecase.Save and Delete, up to the push: the clone is loaded, the
\* loaded tree changed in place, and the change refused if it is not valid.
BeginSave(c, new, changed) ==
    IF Valid(changed) THEN BeginCall(c, [new EXCEPT !.pc = "push"], changed)
                      ELSE LoadTree(changed)

\* The repository it names is, or was, one of the product.
SaveCodeRepoBinding(c, b) ==
    LET changed == Tree(nodes, bindings \cup {b}) IN
    /\ b \notin bindings /\ b.repo \in There(nodes) \cup gone
    /\ BeginSave(c, [NoCall EXCEPT !.op = "bind", !.edit = {b},
                                   !.tree = changed], changed)
DeleteCodeRepoBinding(c, b) ==
    LET changed == Tree(nodes, bindings \ {b}) IN
    /\ b \in bindings
    /\ BeginSave(c, [NoCall EXCEPT !.op = "unbind", !.edit = {b},
                                   !.tree = changed], changed)
\* saveRepository has made the project, or found it.
SaveCodeRepo(c, v) ==
    /\ v.repo \notin gone
    /\ BeginSave(c, [NoCall EXCEPT !.op = "save", !.repo = v.repo,
                                   !.project = v.project],
                 Tree([nodes EXCEPT ![v.repo] = v.project], bindings))
\* A deletion first refreshes, with a tree it has loaded itself.
DeleteCodeRepo(c, x) ==
    /\ nodes[x] # Missing /\ x \notin gone
    /\ BeginCall(c, [NoCall EXCEPT !.pc = "list", !.op = "drop", !.repo = x],
                 Resources)

\* A request that only reads loads the tree as well.
ReadNodes == LoadTree(Resources)

\* PushToGit merges into what others pushed since the clone, unless they wrote
\* the same file.  Nobody checks what the merge makes.
Conflict(c) == /\ call[c].op \in {"save", "drop"}
               /\ nodes[call[c].repo] # call[c].nodes[call[c].repo]
Merged(c) == Tree(
    IF call[c].op = "save" THEN [nodes EXCEPT ![call[c].repo] = call[c].project]
                           ELSE nodes,
    IF call[c].op = "bind" THEN bindings \cup call[c].edit
                           ELSE bindings \ call[c].edit)
Push(c) ==
    /\ call[c].pc = "push" /\ ~Conflict(c)
    /\ nodes' = Merged(c).nodes /\ bindings' = Merged(c).bindings
    /\ call' = [call EXCEPT
          ![c].pc = IF call[c].op = "save" THEN "keys" ELSE "load",
          ![c].project = Missing, ![c].edit = {},
          ![c].nodes = NoNodes, ![c].bindings = {}]
    /\ UNCHANGED <<bookkeeping, keys, exact>>

\* The push is refused, which ends the request: a call fails, or others pushed
\* since the clone and the merge does not go through.
PushFails(c) ==
    /\ call[c].pc \in {"push", "remove"}
    /\ \/ /\ Resources # Tree(call[c].nodes, call[c].bindings)
          /\ UNCHANGED callFaults
       \/ callFaults < MaxCallFaults /\ callFaults' = callFaults + 1
    /\ EndCall(c)
    /\ UNCHANGED <<calls, nodes, bindings, keys, exact>>

\* saveDeployKey, for both permissions: an error when the project was deleted.
SaveKeys(c) ==
    /\ call[c].pc = "keys"
    /\ IF call[c].repo \in gone
       THEN EndCall(c) /\ UNCHANGED keyed
       ELSE keyed' = keyed \cup {call[c].repo}
            /\ call' = [call EXCEPT ![c].pc = "load", ![c].repo = NoRepo]
    /\ UNCHANGED <<bookkeeping, nodes, bindings, gone, granted, cache,
                   pairs, blocked, exact>>

\* What the refresh goes by.  SaveCodeRepo loads once more; requests about a
\* binding take what any request loaded last.
LoadNodes(c) ==
    LET own == call[c].op = "save"
        t == IF own THEN Resources ELSE call[c].tree
    IN
    /\ call[c].pc = "load"
    /\ call' = [(IF own THEN Loaded(t) ELSE call) EXCEPT
          ![c].pc = "list", ![c].nodes = t.nodes, ![c].bindings = t.bindings,
          ![c].tree = NoTree]
    /\ UNCHANGED <<bookkeeping, resources, granted, cache, pairs, blocked,
                   exact>>

Listing(x) == granted[x] \cup (IF x \in keyed THEN OwnKeys(x) ELSE {})
Cached(rs) == [x \in Repos |-> IF x \in rs THEN cache[x] \cup Listing(x)
                                           ELSE cache[x]]

\* initialCacheStore adds what GitLab lists to the shared cache.  A project
\* that was deleted cannot be listed.
InitialCacheStore(c) ==
    /\ call[c].pc = "list" /\ ~blocked
    /\ There(call[c].nodes) \cap gone = {}
    /\ cache' = Cached(There(call[c].nodes))
    /\ Goto(c, "clear")
    /\ UNCHANGED <<bookkeeping, resources, granted, pairs, blocked,
                   exact>>

\* Its error is returned before the deferred reset of the cache is set up.
ListingFails(c) ==
    /\ call[c].pc = "list" /\ ~blocked
    /\ \/ There(call[c].nodes) \cap gone # {} /\ UNCHANGED callFaults
       \/ callFaults < MaxCallFaults /\ callFaults' = callFaults + 1
    /\ \E rs \in SUBSET (There(call[c].nodes) \ gone) :
          rs # There(call[c].nodes) /\ cache' = Cached(rs)
    /\ EndCall(c)
    /\ UNCHANGED <<calls, resources, granted, pairs, blocked, exact>>

\* clearUnauthorizedDeployKeys deletes cached keys without permission, in the
\* repositories whose total permission names a project.  A key that is gone
\* ends the search without an error.
ClearUnauthorized(c) ==
    LET Unauthorized(r) ==
            IF HasPermission(call[c].nodes, call[c].bindings, r)
            THEN {k \in Foreign(r, cache[r]) :
                     ShouldDelete(call[c].nodes, call[c].bindings, r, k)}
            ELSE {}
        found == {e \in Repos \X Keys : e[2] \in Unauthorized(e[1])}
        there == {e \in found : e[2] \in granted[e[1]]}
    IN \E cut \in IF there = found THEN {found} ELSE SUBSET there :
          granted' = [r \in Repos |->
                         granted[r] \ {k \in Keys : <<r, k>> \in cut}]

\* clearInvalidDeployKeys then asks GitLab for the repository of every cached
\* key and deletes none: checkRepositoryExistence always answers FALSE.  After
\* it authorizeForSameProjectRepo starts a goroutine for each pair of one
\* project and closes the channel of their errors.
ClearAndPair(c) ==
    /\ call[c].pc = "clear" /\ ~blocked
    /\ ClearUnauthorized(c)
    /\ pairs' = pairs \cup
          {p \in RepoPairs :
              /\ p \subseteq There(call[c].nodes)
              /\ \E x, y \in p : SameProject(call[c].nodes, x, y)}
    /\ call' = [call EXCEPT
          ![c].pc = "grant",
          ![c].todo = {<<b.permission, b.repo>> : b \in call[c].bindings}]
    /\ UNCHANGED <<bookkeeping, resources, cache, blocked, exact>>

\* A failing query sends its error into a channel that is read after the wait
\* for all queries: the query never ends, nor does the wait, now or later.
ClearAndHang(c) ==
    /\ call[c].pc = "clear"
    /\ \/ blocked /\ UNCHANGED callFaults
       \/ ~blocked /\ callFaults < MaxCallFaults /\ callFaults' = callFaults + 1
    /\ ClearUnauthorized(c)
    /\ blocked' = TRUE
    /\ call' = [call EXCEPT ![c] = [NoCall EXCEPT !.pc = "hung"]]
    /\ UNCHANGED <<calls, resources, cache, pairs, exact>>

\* authorizeRepositories, under the lock: the keys of each repository of the
\* pair are enabled in the other where the cache lacks them.  getDeployKey
\* replaces what is cached of a repository by the key it had to look up.
AuthorizePair(pair) ==
    /\ pair \in pairs
    /\ pair \subseteq keyed
    /\ pairs' = pairs \ {pair}
    /\ cache' = [x \in Repos |->
          IF x \in pair /\ ~(OwnKeys(x) \subseteq cache[x])
          THEN {<<"readwrite", x>>} ELSE cache[x]]
    /\ granted' = [x \in Repos |->
          IF x \in pair
          THEN granted[x] \cup (Foreign(x, Permissions \X pair) \ cache'[x])
          ELSE granted[x]]
    /\ UNCHANGED <<bookkeeping, resources, blocked, call, exact>>

\* An error of such a goroutine is sent into the closed channel, which stops
\* the server; it starts anew with an empty cache.  A key the vault lacks is an
\* error too: GetDeployKey calls it a missing secret, the caller tolerates a
\* missing deploy key.
PairCrashesServer(pair) ==
    /\ pair \in pairs
    /\ \/ ~(pair \subseteq keyed) /\ UNCHANGED callFaults
       \/ callFaults < MaxCallFaults /\ callFaults' = callFaults + 1
    /\ call' = [c \in Clients |-> NoCall]
    /\ cache' = NoKeys /\ pairs' = {}
    /\ blocked' = FALSE
    /\ exact' = FALSE
    /\ UNCHANGED <<calls, resources, granted>>

\* nodesToCodeRepoists returns the repositories its filter finds, and all of
\* them when it finds none.
Filtered(ns, found) == IF found # {} THEN found ELSE ns

\* recycleAuthorizationByProjectScopes and updateAllAuthorization or
\* updateAuthorization, for one repository and permission: what is revoked,
\* if the cache knows it, and then what is enabled.
Recycled(c, t) ==
    LET bs == Of(call[c].bindings, t[2], t[1])
        found == {x \in There(call[c].nodes) \ {t[2]} :
                     call[c].nodes[x] \notin Projects(bs)}
    IN IF ForProduct(bs) THEN {}
       ELSE Filtered(There(call[c].nodes), found) \ {t[2]}
\* Mutant: a binding of the whole product is not treated on its own.
AuthorizedByProject(c, t) ==
    {x \in There(call[c].nodes) \ {t[2]} :
        call[c].nodes[x] \in Projects(Of(call[c].bindings, t[2], t[1]))}
Authorized(c, t) ==
    LET bs == Of(call[c].bindings, t[2], t[1]) IN
    {x \in There(call[c].nodes) \ {t[2]} :
        ForProduct(bs) \/ call[c].nodes[x] \in Projects(bs)}
Apply(t, revoked, enabled) ==
    granted' = [granted EXCEPT ![t[2]] =
        (@ \ (({t[1]} \X revoked) \cap cache[t[2]])) \cup ({t[1]} \X enabled)]

\* The binding's own repository was deleted: an error of recycling, or of the
\* first key to enable.
Unreachable(c, t) ==
    /\ t[2] \in gone
    /\ ForProduct(Of(call[c].bindings, t[2], t[1])) => Authorized(c, t) # {}

ProcessAuthorization(c) ==
    /\ call[c].pc = "grant"
    /\ \E t \in call[c].todo :
          /\ ~Unreachable(c, t)
          /\ Recycled(c, t) \cup Authorized(c, t) \subseteq keyed
          /\ Apply(t, Recycled(c, t), Authorized(c, t))
          /\ call' = [call EXCEPT ![c].todo = @ \ {t}]
    /\ UNCHANGED <<bookkeeping, resources, cache, pairs, blocked, exact>>

\* A missing key or a failing call ends the request, somewhere in between; the
\* cache is reset.
AuthorizationFails(c) ==
    /\ call[c].pc = "grant"
    /\ \E t \in call[c].todo :
          LET rs == Recycled(c, t)
              as == Authorized(c, t)
          IN \/ Unreachable(c, t) /\ UNCHANGED <<granted, callFaults>>
             \/ /\ ~Unreachable(c, t)
                /\ \/ ~(rs \cup as \subseteq keyed) /\ UNCHANGED callFaults
                   \/ callFaults < MaxCallFaults /\ callFaults' = callFaults + 1
                /\ \/ \E some \in SUBSET rs : Apply(t, some, {})
                   \/ \E some \in SUBSET (as \cap keyed) : Apply(t, rs, some)
    /\ cache' = NoKeys
    /\ EndCall(c)
    /\ UNCHANGED <<calls, resources, pairs, blocked, exact>>

\* The deferred reset of the cache.  A deletion goes on from here.
EndRefresh(c) ==
    /\ call[c].pc = "grant" /\ call[c].todo = {}
    /\ cache' = NoKeys
    /\ IF call[c].op = "drop"
       THEN /\ call' = [call EXCEPT ![c] =
                   [NoCall EXCEPT !.pc = "delete", !.op = "drop",
                                  !.repo = call[c].repo]]
            /\ UNCHANGED exact
       ELSE EndCall(c) /\ exact' = (exact \/ call[c].alone)
    /\ UNCHANGED <<bookkeeping, resources, granted, pairs, blocked>>

\* A deletion loads and checks the tree again: a repository that a binding
\* names cannot be deleted.
CheckDeletion(c) ==
    LET changed == Tree([nodes EXCEPT ![call[c].repo] = Missing], bindings) IN
    /\ call[c].pc = "delete"
    /\ call' = [Loaded(changed) EXCEPT ![c] =
          IF nodes[call[c].repo] = Missing \/ ~Valid(changed) THEN NoCall
          ELSE [@ EXCEPT !.pc = "remove", !.nodes = nodes, !.bindings = bindings]]
    /\ UNCHANGED <<bookkeeping, resources, granted, cache, pairs, blocked,
                   exact>>

\* The rest of DeleteCodeRepo: resource, secrets, keys and project.  The keys
\* of the deleted repository stay where they are enabled.
RemoveCodeRepo(c) ==
    /\ call[c].pc = "remove" /\ ~Conflict(c)
    /\ nodes' = [nodes EXCEPT ![call[c].repo] = Missing]
    /\ keyed' = keyed \ {call[c].repo}
    /\ gone' = gone \cup {call[c].repo}
    /\ granted' = [granted EXCEPT ![call[c].repo] = {}]
    /\ EndCall(c)
    /\ UNCHANGED <<bookkeeping, bindings, cache, pairs, blocked, exact>>

\* Saving the keys of a new repository fails: the resource stays without them.
KeysFail(c) ==
    /\ call[c].pc = "keys"
    /\ callFaults < MaxCallFaults /\ callFaults' = callFaults + 1
    /\ EndCall(c)
    /\ UNCHANGED <<calls, resources, granted, cache, pairs, blocked,
                   exact>>

CallStep(c) ==
    \/ Push(c) \/ SaveKeys(c) \/ LoadNodes(c) \/ InitialCacheStore(c)
    \/ ClearAndPair(c) \/ ProcessAuthorization(c)
    \/ AuthorizationFails(c) \/ EndRefresh(c)
    \/ CheckDeletion(c) \/ RemoveCodeRepo(c)
PairStep(pair) == AuthorizePair(pair) \/ PairCrashesServer(pair)

GrantsNext ==
    \/ \E c \in Clients :
          \/ /\ SomeFree
             /\ \/ \E b \in Bindings :
                      SaveCodeRepoBinding(c, b) \/ DeleteCodeRepoBinding(c, b)
                \/ \E v \in Saves : SaveCodeRepo(c, v)
                \/ \E x \in Repos : DeleteCodeRepo(c, x)
          \/ CallStep(c)
          \/ PushFails(c) \/ ListingFails(c) \/ ClearAndHang(c) \/ KeysFail(c)
    \/ ReadNodes
    \/ \E pair \in RepoPairs : PairStep(pair)

GrantsSpec == GrantsInit /\ [][GrantsNext]_grantsVars

-----------------------------------------------------------------------------
(***************************************************************************)
(* What the refresh is for.                                                *)
(***************************************************************************)
Allowed(r, key) ==
    /\ key[2] # r /\ {r, key[2]} \subseteq There(nodes)
    /\ \/ SameProject(nodes, r, key[2])
       \/ \E b \in Of(bindings, r, key[1]) :
             b.projects = {} \/ nodes[key[2]] \in b.projects

\* An undisturbed request is over, and so are the goroutines of its refresh.
\* Undisturbed: no other request was in progress since it cloned the product's
\* repository and, if it was about a binding, nobody loaded another tree between
\* its own load and its GetNodes, be it to read (coderepobinding.go:132, 168).
Settled == exact /\ pairs = {}

\* After an undisturbed request no repository is open to a key that neither a
\* binding nor a common project allows, whatever requests, failures and crashes
\* went before.  Not so where the total permission names no project:
\* clearUnauthorizedDeployKeys passes those over (coderepobinding.go:742), and a
\* permission whose last binding is gone is refreshed nowhere else.
OnlyAllowedAreGranted ==
    Settled => \A r \in There(nodes) :
        HasPermission(nodes, bindings, r) =>
            \A k \in granted[r] : Allowed(r, k)

\* And every allowed key opens its repository, except one of the same project
\* when bindings with the same permission name other projects only: the refresh
\* that finds it enabled revokes it (coderepobinding.go:694), the next one
\* enables it again.
Contested(r, k) ==
    LET bs == Of(bindings, r, k[1]) IN
    bs # {} /\ ~ForProduct(bs) /\ nodes[r] \notin Projects(bs)
AllowedAreGranted ==
    Settled => \A r \in There(nodes) : \A k \in Keys :
        Allowed(r, k) /\ ~(SameProject(nodes, r, k[2]) /\ Contested(r, k))
            => k \in granted[r]
=============================================================================
