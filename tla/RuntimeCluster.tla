--------------------------- MODULE RuntimeCluster ---------------------------
(***************************************************************************)
(* What the reconcilers of app/runtime-operator share: one product on one   *)
(* cluster.  The operations of the components a reconcile calls (the hnc    *)
(* multi-tenant component, the deployment tool, the secret store) and the   *)
(* usage record, the ConfigMap in which the reconcilers tell each other     *)
(* which runtime of the product uses which space, account and permission.   *)
(*                                                                         *)
(* Only what tells runtimes apart is kept: a namespace is a name with a     *)
(* phase, an account a name, a secret the name of a code repository.        *)
(* Deleting a namespace takes time; it is gone when NamespaceGone says so.  *)
(***************************************************************************)
EXTENDS Naturals, FiniteSets

CONSTANTS Names,     \* names of runtimes
          Spaces,    \* namespaces runtimes ask for
          Accounts,  \* machine accounts
          Repos,     \* code repositories, one secret each
          Product    \* name of the product, and of its own namespace

UserList == "user list"

ASSUME ClusterAssumption == Product \notin Spaces /\ UserList \notin Accounts

VARIABLES
  ns,        \* phase of each namespace of the product
  users,     \* annotation of each space: empty, or the list with its accounts
  accounts,  \* accounts the product namespace lists
  project,   \* the product in the deployment tool, and its admin group
  apps,      \* spaces the application of a runtime deploys to, {} for none
  roles,     \* the secret store's role of each account
  usage      \* the usage record of the product

clusterVars == <<ns, users, accounts, project, apps, roles, usage>>

NoRole == [exists |-> FALSE, spaces |-> {}, perms |-> {}]
Role == [exists : BOOLEAN, spaces : SUBSET Spaces, perms : SUBSET Repos]

\* What a runtime records of its use of an account (RuntimeResource).
AccountUse == [account : Accounts, runtime : Names, spaces : SUBSET Spaces, perms : SUBSET Repos]

\* cache.ProductUsage.  known tells whether the ConfigMap was ever written.
Usage == [known : BOOLEAN, runtimes : SUBSET Names, space : [Names -> SUBSET Spaces],
          account : SUBSET AccountUse]
EmptyUsage(known) == [known |-> known, runtimes |-> {},
                      space |-> [r \in Names |-> {}], account |-> {}]

ClusterTypeOK ==
  /\ ns \in [Spaces \cup {Product} -> {"none", "active", "terminating"}]
  /\ users \in [Spaces -> SUBSET (Accounts \cup {UserList})]
  /\ accounts \subseteq Accounts
  /\ project \in {"none", "created", "granted"}
  /\ apps \in [Names -> SUBSET Spaces]
  /\ roles \in [Accounts -> Role]
  /\ usage \in Usage

ClusterInit ==
  /\ ns = [s \in Spaces \cup {Product} |-> "none"]
  /\ users = [s \in Spaces |-> {}]
  /\ accounts = {}
  /\ project = "none"
  /\ apps = [r \in Names |-> {}]
  /\ roles = [a \in Accounts |-> NoRole]
  /\ usage = EmptyUsage(FALSE)

-----------------------------------------------------------------------------
(* The usage record.                                                       *)

SpacesUsed(u, except) == UNION {u.space[r] : r \in Names \ except}
UsesOf(u, a, except) == {x \in u.account : x.account = a /\ x.runtime \notin except}
PermsUsed(u, a, except) == UNION {x.perms : x \in UsesOf(u, a, except)}
AccountSpacesUsed(u, a, except) == UNION {x.spaces : x \in UsesOf(u, a, except)}

\* AccountIsRemovable: nobody but r is recorded as using the account.
AccountIsRemovable(u, a, r) == UsesOf(u, a, {r}) = {}

\* AccountUsage.DeleteRuntime.
ForgetAccount(u, a, r) ==
  [u EXCEPT !.account = {x \in @ : ~(x.account = a /\ x.runtime = r)}]

\* The use of a by r, an empty one when there is none (AddRuntime).
UseOf(u, a, r) ==
  IF \E x \in u.account : x.account = a /\ x.runtime = r
  THEN CHOOSE x \in u.account : x.account = a /\ x.runtime = r
  ELSE [account |-> a, runtime |-> r, spaces |-> {}, perms |-> {}]

\* AccountUsage.UpdateSpaces and UpdatePermissions.
UpdateSpaces(u, a, r, spaces) ==
  [ForgetAccount(u, a, r) EXCEPT !.account = @ \cup {[UseOf(u, a, r) EXCEPT !.spaces = spaces]}]
UpdatePermissions(u, a, r, perms) ==
  [ForgetAccount(u, a, r) EXCEPT !.account = @ \cup {[UseOf(u, a, r) EXCEPT !.perms = perms]}]

\* UpdateProductUsage: the whole entry of the product is replaced by u, or
\* removed when no runtime is left in it.
UpdateProductUsage(u) ==
  usage' = IF u.runtimes = {} THEN EmptyUsage(TRUE) ELSE [u EXCEPT !.known = TRUE]

-----------------------------------------------------------------------------
(* The multi-tenant component (hnc).  Each operation is an action on its    *)
(* variables; CanX is the check without which it returns an error.          *)

Operable(s) == ns[s] = "active"

\* Mutant: a namespace that exists is refused, so that a retry never gets on.
CanCreateNamespaceOnce(s) == ns[s] = "none"

\* createNamespace: a terminating namespace is refused.
CanCreateNamespace(s) == ns[s] # "terminating"
CreateNamespace(s) == ns' = [ns EXCEPT ![s] = "active"]

\* deleteNamespace: nothing to do for a namespace that does not exist.
DeleteNamespace(s) == ns' = [ns EXCEPT ![s] = IF @ = "active" THEN "terminating" ELSE @]

\* Mutant: the product's own namespace counts as one that is left.
CanDeleteProductAlone == \A s \in Spaces \cup {Product} : ~Operable(s)

\* isRemovableProduct: terminating namespaces are not listed.
CanDeleteProduct == \A s \in Spaces : ~Operable(s)

\* The cluster is done with deleting a namespace.
NamespaceGone(s) ==
  /\ ns[s] = "terminating"
  /\ ns' = [ns EXCEPT ![s] = "none"]
  /\ IF s = Product
     THEN accounts' = {} /\ UNCHANGED users
     ELSE users' = [users EXCEPT ![s] = {}] /\ UNCHANGED accounts
  /\ UNCHANGED <<project, apps, roles, usage>>

CanCreateAccount == Operable(Product)
CreateAccount(a) == accounts' = accounts \cup {a}

\* GetAccount: an account is found in an operable product namespace only; its
\* spaces are the listed namespaces that have it as a user.
HasAccount(a) == Operable(Product) /\ a \in accounts
AccountSpaces(a) == {s \in Spaces : Operable(s) /\ a \in users[s]}

\* DeleteAccount: an account that is not found is skipped by the caller.
DeleteAccount(a) ==
  IF HasAccount(a)
  THEN /\ users' = [s \in Spaces |-> IF Operable(s) THEN users[s] \ {a} ELSE users[s]]
       /\ accounts' = accounts \ {a}
  ELSE UNCHANGED <<users, accounts>>

\* addSpaceUsers: the first user brings the annotation with the list, which
\* stays when its last account goes.
AddSpaceUser(s, a) == users' = [users EXCEPT ![s] = @ \cup {UserList, a}]

\* deleteSpaceUsers writes the list into the namespace's annotations, a nil map
\* (hnc.go:418) when the namespace was created and never given a user: a panic.
LacksUserList(s) == Operable(s) /\ UserList \notin users[s]

\* Besides, a missing namespace is no error and a terminating one is.
CanDeleteSpaceUser(s) == ns[s] # "terminating" /\ ~LacksUserList(s)
DeleteSpaceUser(s, a) == users' = [users EXCEPT ![s] = @ \ {a}]

-----------------------------------------------------------------------------
(* The secret store (vault).  Revoking what is not granted and deleting a   *)
(* role that does not exist succeed: the callers repeat them on a retry.    *)

CreateRole(a) == roles' = [roles EXCEPT ![a] = [@ EXCEPT !.exists = TRUE, !.spaces = AccountSpaces(a)]]
DeleteRole(a) == roles' = [roles EXCEPT ![a] = NoRole]
CanGrant(a) == roles[a].exists
GrantPermission(a, p) == roles' = [roles EXCEPT ![a].perms = @ \cup {p}]
RevokePermission(a, p) == roles' = [roles EXCEPT ![a].perms = @ \ {p}]
=============================================================================
