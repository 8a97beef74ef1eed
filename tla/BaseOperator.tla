---------------------------- MODULE BaseOperator ----------------------------
(***************************************************************************)
(* The base-operator (src/app/base-operator): the ProductProvider's        *)
(* controller lists the projects of GitLab every minute and makes the      *)
(* Product resources follow them; the Products' controller gives each      *)
(* product a namespace, a CodeRepo and an Argo CD application, and takes   *)
(* them away before the product goes.                                      *)
(*                                                                         *)
(* GitLab answers page by page, projects come and go between two pages,    *)
(* applications and namespaces take their time to end, and any pass fails  *)
(* or is killed between two of its steps.  A product is its group: the     *)
(* name and the URL of its project both are the group's path.              *)
(***************************************************************************)
EXTENDS Naturals, Sequences, FiniteSets

CONSTANTS
    Groups,                   \* groups of GitLab that can hold a project
    Paths,                    \* paths a group can have
    PageSize,                 \* projects in one answer of GitLab
    MaxConcurrentReconciles,  \* passes of the Products' controller at a time
    MaxChanges,               \* bound: changes in GitLab
    MaxFailures               \* bound: failed calls and crashes

NoPath == "none"

ASSUME BaseAssumption ==
    /\ PageSize \in Nat \ {0} /\ MaxConcurrentReconciles \in Nat \ {0}
    /\ MaxChanges \in Nat /\ MaxFailures \in Nat
    /\ Paths # {} /\ NoPath \notin Paths

VARIABLES
    projects,   \* groups with a project, the newest project first
    path,       \* path of each group
    listing,    \* the pass of the ProductProvider's controller
    products,   \* Product resources: phase, path, finalizer
    namespaces, \* namespace of each product
    coderepos,  \* CodeRepo of each product
    apps,       \* Argo CD application of each product
    passes,     \* passes of the Products' controller
    due,        \* the queue of that controller
    changes, failures

baseVars == <<projects, path, listing, products, namespaces, coderepos, apps,
              passes, due, changes, failures>>

MaybePath == Paths \cup {NoPath}
NotListing == [pc |-> "wait", pages |-> 0, page |-> 1,
               found |-> [g \in Groups |-> NoPath], new |-> {},
               todo |-> {}, counted |-> {}, raced |-> FALSE]
NoProduct == [phase |-> "absent", path |-> NoPath, held |-> FALSE]
Nothing == [phase |-> "absent", path |-> NoPath]
NoPass == [pc |-> "idle", path |-> NoPath]

Phases == {"absent", "live", "deleting"}
Listings ==
    [pc: {"wait", "pages", "compare", "apply"}, pages: Nat, page: Nat \ {0},
     found: [Groups -> MaybePath], new: SUBSET Groups, todo: SUBSET Groups,
     counted: SUBSET Groups, raced: BOOLEAN]
Products == [phase: Phases, path: MaybePath, held: BOOLEAN]
CodeRepos == [phase: Phases \cup {"orphan"}, path: MaybePath]
Apps == [phase: Phases, path: MaybePath]
Passes ==
    [pc: {"idle", "namespace", "coderepo", "app", "dropapp", "waitapp",
          "dropnamespace", "waitnamespace", "release"},
     path: MaybePath]

BaseTypeOK ==
    /\ projects \in Seq(Groups)
    /\ path \in [Groups -> Paths]
    /\ listing \in Listings
    /\ products \in [Groups -> Products]
    /\ namespaces \in [Groups -> Phases]
    /\ coderepos \in [Groups -> CodeRepos]
    /\ apps \in [Groups -> Apps]
    /\ passes \in [Groups -> Passes]
    /\ due \subseteq Groups
    /\ changes \in 0 .. MaxChanges /\ failures \in 0 .. MaxFailures

BaseInit ==
    /\ projects = <<>> /\ path \in [Groups -> {CHOOSE p \in Paths : TRUE}]
    /\ listing = NotListing
    /\ products = [g \in Groups |-> NoProduct]
    /\ namespaces = [g \in Groups |-> "absent"]
    /\ coderepos = [g \in Groups |-> Nothing]
    /\ apps = [g \in Groups |-> Nothing]
    /\ passes = [g \in Groups |-> NoPass]
    /\ due = {}
    /\ changes = 0 /\ failures = 0

-----------------------------------------------------------------------------
(***************************************************************************)
(* GitLab.                                                                 *)
(***************************************************************************)
Hosted == {projects[i] : i \in DOMAIN projects}
Change ==
    /\ changes < MaxChanges
    /\ changes' = changes + 1
    /\ UNCHANGED <<products, namespaces, coderepos, apps, passes, due, failures>>
Race == listing' = [listing EXCEPT !.raced = @ \/ listing.pc = "pages"]

AddProject(g) ==
    /\ g \notin Hosted
    /\ projects' = <<g>> \o projects
    /\ Race /\ Change
    /\ UNCHANGED path
RemoveProject(g) ==
    /\ \E i \in DOMAIN projects :
          /\ projects[i] = g
          /\ projects' = SubSeq(projects, 1, i - 1)
                           \o SubSeq(projects, i + 1, Len(projects))
    /\ Race /\ Change
    /\ UNCHANGED path
RenameGroup(g, p) ==
    /\ g \in Hosted /\ path[g] # p
    /\ path' = [path EXCEPT ![g] = p]
    /\ Change
    /\ UNCHANGED <<projects, listing>>

-----------------------------------------------------------------------------
(***************************************************************************)
(* The ProductProvider's controller.                                       *)
(***************************************************************************)
objects == <<namespaces, coderepos, apps, passes>>
gitlabState == <<projects, path, changes>>

\* Mutant of Pages: without the "+ 1" of loopTimes.
PagesButLast(total) ==
    IF total = 0 THEN 0 ELSE ((total + PageSize - 1) \div PageSize) - 1

\* GetProducts asks for the number of projects ...
Pages(total) == (total + PageSize - 1) \div PageSize
CountProjects ==
    /\ listing.pc = "wait"
    /\ listing' = [NotListing EXCEPT
          !.pages = Pages(Len(projects)),
          !.pc = IF Pages(Len(projects)) = 0 THEN "compare" ELSE "pages",
          !.counted = Hosted]
    /\ UNCHANGED <<gitlabState, products, objects, due, failures>>

\* ... and for that many pages.  A project that is listed twice counts once.
Page(i) == {projects[j] : j \in
               {k \in DOMAIN projects : (i - 1) * PageSize < k /\ k <= i * PageSize}}
ListPage ==
    /\ listing.pc = "pages"
    /\ listing' = [listing EXCEPT
          !.found = [g \in Groups |-> IF g \in Page(listing.page) THEN path[g]
                                                                  ELSE @[g]],
          !.page = @ + 1,
          !.pc = IF listing.page = listing.pages THEN "compare" ELSE "pages"]
    /\ UNCHANGED <<gitlabState, products, objects, due, failures>>

\* compareProduct: what is to be created, updated or deleted.
Found(g) == listing.found[g] # NoPath
Present(g) == products[g].phase # "absent"
Compare ==
    /\ listing.pc = "compare"
    /\ listing' = [listing EXCEPT
          !.pc = "apply",
          !.new = {g \in Groups : Found(g) /\ ~Present(g)},
          !.todo = {g \in Groups : listing.found[g] # products[g].path}]
    /\ UNCHANGED <<gitlabState, products, objects, due, failures>>

\* createProduct, updateProduct and deleteProduct.  A product that went since
\* the comparison makes the call an error; the others go on.
CreateProduct(g) ==
    /\ g \in listing.new
    /\ products' = [products EXCEPT ![g] =
           [phase |-> "live", path |-> listing.found[g], held |-> FALSE]]
UpdateProduct(g) ==
    /\ Found(g) /\ g \notin listing.new /\ Present(g)
    /\ products' = [products EXCEPT ![g].path = listing.found[g]]
DeleteProduct(g) ==
    /\ ~Found(g) /\ products[g].phase = "live"
    /\ products' = [products EXCEPT ![g] =
           IF @.held THEN [@ EXCEPT !.phase = "deleting"] ELSE NoProduct]
ProductGone(g) ==
    /\ IF Found(g) THEN g \notin listing.new /\ ~Present(g)
                   ELSE products[g].phase # "live"
    /\ UNCHANGED products
ApplyProduct(g) ==
    /\ listing.pc = "apply" /\ g \in listing.todo
    /\ CreateProduct(g) \/ UpdateProduct(g) \/ DeleteProduct(g) \/ ProductGone(g)
    /\ due' = IF products' = products THEN due ELSE due \cup {g}
    /\ listing' = [listing EXCEPT !.todo = @ \ {g}]
    /\ UNCHANGED <<gitlabState, objects, failures>>

\* The controller is called again after a minute, or sooner after an error.
EndListing ==
    /\ listing.pc = "apply" /\ listing.todo = {}
    /\ listing' = NotListing
    /\ UNCHANGED <<gitlabState, products, objects, due, failures>>

\* A call fails, or the operator is killed: without all pages no product is
\* touched.
AbortListing ==
    /\ listing.pc # "wait" /\ failures < MaxFailures
    /\ failures' = failures + 1
    /\ listing' = NotListing
    /\ UNCHANGED <<gitlabState, products, objects, due>>

-----------------------------------------------------------------------------
(***************************************************************************)
(* The Products' controller, one pass for a product.                       *)
(***************************************************************************)
providerSide == <<gitlabState, listing>>
Continue(g, pc) == passes' = [passes EXCEPT ![g].pc = pc]

\* Mutant: the error is logged and not returned.
RetryNotQueued(g) == passes' = [passes EXCEPT ![g] = NoPass] /\ UNCHANGED due

\* An error ends the pass and queues the product again.
Retry(g) == passes' = [passes EXCEPT ![g] = NoPass] /\ due' = due \cup {g}

StartPass(g) ==
    /\ g \in due /\ passes[g].pc = "idle"
    /\ Cardinality({h \in Groups : passes[h].pc # "idle"})
           < MaxConcurrentReconciles
    /\ due' = due \ {g}
    /\ passes' = [passes EXCEPT ![g] =
          [path |-> products[g].path,
           pc |-> CASE products[g].phase = "live" -> "namespace"
                    [] products[g].phase = "deleting" -> "dropapp"
                    [] OTHER -> "idle"]]
    /\ products' = [products EXCEPT ![g].held = products[g].phase # "absent"]
    /\ UNCHANGED <<providerSide, namespaces, coderepos, apps, failures>>

SyncNamespace(g) ==
    /\ passes[g].pc = "namespace"
    /\ IF namespaces[g] = "deleting"
       THEN Retry(g) /\ UNCHANGED namespaces
       ELSE /\ namespaces' = [namespaces EXCEPT ![g] = "live"]
            /\ Continue(g, "coderepo") /\ UNCHANGED due
    /\ UNCHANGED <<providerSide, products, coderepos, apps, failures>>

\* The product's project must be in GitLab; the CodeRepo gets the product as
\* its owner, also when an earlier product of the name owned it.
SyncCodeRepo(g) ==
    /\ passes[g].pc = "coderepo"
    /\ IF g \notin Hosted \/ coderepos[g].phase = "deleting"
       THEN Retry(g) /\ UNCHANGED coderepos
       ELSE /\ coderepos' = [coderepos EXCEPT ![g] =
                   [phase |-> "live", path |-> passes[g].path]]
            /\ Continue(g, "app") /\ UNCHANGED due
    /\ UNCHANGED <<providerSide, products, namespaces, apps, failures>>

SyncArgoApp(g) ==
    /\ passes[g].pc = "app"
    /\ IF apps[g].phase = "deleting"
       THEN Retry(g) /\ UNCHANGED apps
       ELSE /\ apps' = [apps EXCEPT ![g] =
                   [phase |-> "live", path |-> passes[g].path]]
            /\ passes' = [passes EXCEPT ![g] = NoPass] /\ UNCHANGED due
    /\ UNCHANGED <<providerSide, products, namespaces, coderepos, failures>>

DeleteArgoApp(g) ==
    /\ passes[g].pc = "dropapp"
    /\ apps' = [apps EXCEPT ![g] =
          IF @.phase = "absent" THEN @ ELSE [@ EXCEPT !.phase = "deleting"]]
    /\ Continue(g, "waitapp")
    /\ UNCHANGED <<providerSide, products, namespaces, coderepos, due, failures>>

\* Mutant: an application that has not ended yet is not waited for.
WaitForAppNot(g) ==
    /\ passes[g].pc = "waitapp"
    /\ Continue(g, "dropnamespace")
    /\ UNCHANGED <<providerSide, products, namespaces, coderepos, apps, due,
                   failures>>

\* Both deletions look twice and then give up: "wait timeout exceeded".
WaitForApp(g) ==
    /\ passes[g].pc = "waitapp"
    /\ IF apps[g].phase = "absent"
       THEN Continue(g, "dropnamespace") /\ UNCHANGED due
       ELSE Retry(g)
    /\ UNCHANGED <<providerSide, products, namespaces, coderepos, apps, failures>>

DeleteNamespace(g) ==
    /\ passes[g].pc = "dropnamespace"
    /\ namespaces' = [namespaces EXCEPT ![g] =
          IF @ = "absent" THEN @ ELSE "deleting"]
    /\ Continue(g, "waitnamespace")
    /\ UNCHANGED <<providerSide, products, coderepos, apps, due, failures>>

WaitForNamespace(g) ==
    /\ passes[g].pc = "waitnamespace"
    /\ IF namespaces[g] = "absent"
       THEN Continue(g, "release") /\ UNCHANGED due
       ELSE Retry(g)
    /\ UNCHANGED <<providerSide, products, namespaces, coderepos, apps, failures>>

\* RemoveFinalizer, of the product as it was read: a change is a conflict.
ReleaseProduct(g) ==
    /\ passes[g].pc = "release"
    /\ IF products[g].path = passes[g].path
       THEN /\ products' = [products EXCEPT ![g] = NoProduct]
            /\ coderepos' = [coderepos EXCEPT ![g].phase =
                   IF @ = "live" THEN "orphan" ELSE @]
            /\ passes' = [passes EXCEPT ![g] = NoPass] /\ UNCHANGED due
       ELSE Retry(g) /\ UNCHANGED <<products, coderepos>>
    /\ UNCHANGED <<providerSide, namespaces, apps, failures>>

AbortProductPass(g) ==
    /\ passes[g].pc # "idle" /\ failures < MaxFailures
    /\ failures' = failures + 1
    /\ Retry(g)
    /\ UNCHANGED <<providerSide, products, namespaces, coderepos, apps>>

-----------------------------------------------------------------------------
(***************************************************************************)
(* Argo CD and Kubernetes end what is being deleted, in their own time; a  *)
(* CodeRepo without its owner is collected, and held by the argo-operator. *)
(***************************************************************************)
cluster == <<providerSide, products, passes, due, failures>>

AppEnds(g) ==
    /\ apps[g].phase = "deleting"
    /\ apps' = [apps EXCEPT ![g] = Nothing]
    /\ UNCHANGED <<cluster, namespaces, coderepos>>
NamespaceEnds(g) ==
    /\ namespaces[g] = "deleting"
    /\ namespaces' = [namespaces EXCEPT ![g] = "absent"]
    /\ UNCHANGED <<cluster, coderepos, apps>>
CodeRepoEnds(g) ==
    /\ \/ /\ coderepos[g].phase = "orphan"
          /\ coderepos' = [coderepos EXCEPT ![g].phase = "deleting"]
       \/ /\ coderepos[g].phase = "deleting"
          /\ coderepos' = [coderepos EXCEPT ![g] = Nothing]
    /\ UNCHANGED <<cluster, namespaces, apps>>

ListingStep ==
    \/ CountProjects \/ ListPage \/ Compare
    \/ \E g \in Groups : ApplyProduct(g)
    \/ EndListing
ProductStep(g) ==
    \/ StartPass(g) \/ SyncNamespace(g) \/ SyncCodeRepo(g) \/ SyncArgoApp(g)
    \/ DeleteArgoApp(g) \/ WaitForApp(g) \/ DeleteNamespace(g)
    \/ WaitForNamespace(g) \/ ReleaseProduct(g)

BaseNext ==
    \/ \E g \in Groups :
          \/ AddProject(g) \/ RemoveProject(g)
          \/ \E p \in Paths : RenameGroup(g, p)
          \/ ProductStep(g) \/ AbortProductPass(g)
          \/ AppEnds(g) \/ NamespaceEnds(g) \/ CodeRepoEnds(g)
    \/ ListingStep \/ AbortListing

BaseFairness ==
    /\ WF_baseVars(ListingStep)
    /\ \A g \in Groups : /\ SF_baseVars(ProductStep(g))
                         /\ WF_baseVars(AppEnds(g))
                         /\ WF_baseVars(NamespaceEnds(g))
                         /\ WF_baseVars(CodeRepoEnds(g))
BaseSpec == BaseInit /\ [][BaseNext]_baseVars /\ BaseFairness

-----------------------------------------------------------------------------
\* Nothing of a product that is gone stays in the cluster, and its namespace
\* never goes before the application that fills it, whatever passes overlapped
\* with the deletion or failed in it.
NothingLeftOfProduct ==
    \A g \in Groups :
        /\ products[g].phase = "absent" =>
              namespaces[g] = "absent" /\ apps[g].phase = "absent"
        /\ namespaces[g] = "deleting" => apps[g].phase = "absent"

\* A product is deleted only when its project was not in GitLab as the listing
\* began, unless projects came or went between two calls of the listing: then
\* the pages shift and a project can be missed (GetProducts, gitlab.go:98).
OnlyLostProductsAreDeleted ==
    [][\A g \in Groups :
          products[g].phase = "live" /\ products'[g].phase # "live" =>
              g \notin listing.counted \/ listing.raced]_baseVars

\* Once GitLab rests, the products and all they have are those of its
\* projects: also those deleted by mistake, moved, or made again while their
\* predecessor was ending.
Served(g) ==
    /\ products[g].phase = "live" /\ products[g].path = path[g]
    /\ namespaces[g] = "live"
    /\ coderepos[g] = [phase |-> "live", path |-> path[g]]
    /\ apps[g] = [phase |-> "live", path |-> path[g]]
Erased(g) ==
    /\ products[g] = NoProduct /\ namespaces[g] = "absent"
    /\ coderepos[g] = Nothing /\ apps[g] = Nothing
ProductsFollowGitlab ==
    <>[](\A g \in Groups : IF g \in Hosted THEN Served(g) ELSE Erased(g))
=============================================================================
