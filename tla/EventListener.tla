--------------------------- MODULE EventListener ---------------------------
(***************************************************************************)
(* The argo-events component of app/runtime-operator, through which the     *)
(* pipeline runtimes of a cluster listen: the event sources of each runtime *)
(* (one for GitLab, one for a calendar), its sensors, and the record of the *)
(* kinds of event source it has (the ConfigMap nautes-argo-event-cache).    *)
(*                                                                         *)
(* All runtimes listen with one account of the secret store; what it may    *)
(* read is granted and revoked by each runtime for itself.                  *)
(***************************************************************************)
EXTENDS RuntimeCluster

CONSTANT MaxTriggers  \* bound of the model: triggers of a runtime

ASSUME ListenerAssumption == MaxTriggers \in Nat

VARIABLES
  listener,  \* access tokens the shared account may read
  tokens,    \* code repositories each runtime has token secrets of
  entry,     \* runtimes with an ingress
  gitlab,    \* the GitLab event source of each runtime and the code
             \* repositories its annotation names
  calendar,  \* runtimes with a calendar event source
  sensors,   \* numbers of the sensors of each runtime
  cached     \* kinds of event source recorded for each runtime

listenerVars == <<listener, tokens, entry, gitlab, calendar, sensors, cached>>

Kinds == {"gitlab", "calendar"}
NoSource == [exists |-> FALSE, repos |-> {}]

ListenerTypeOK ==
  /\ listener \subseteq Repos
  /\ tokens \in [Names -> SUBSET Repos]
  /\ entry \subseteq Names
  /\ gitlab \in [Names -> [exists : BOOLEAN, repos : SUBSET Repos]]
  /\ calendar \subseteq Names
  /\ sensors \in [Names -> SUBSET (0..MaxTriggers - 1)]
  /\ cached \in [Names -> SUBSET Kinds]

ListenerInit ==
  /\ listener = {}
  /\ tokens = [r \in Names |-> {}]
  /\ entry = {}
  /\ gitlab = [r \in Names |-> NoSource]
  /\ calendar = {}
  /\ sensors = [r \in Names |-> {}]
  /\ cached = [r \in Names |-> {}]

-----------------------------------------------------------------------------
(* Each operation is an action on the variables it changes.                *)

\* createOrUpdateAccessToken and createOrUpdateSecretToken.
CreateTokens(r, p) ==
  /\ listener' = listener \cup {p}
  /\ tokens' = [tokens EXCEPT ![r] = @ \cup {p}]

\* The first call of CreateTokens only.
GrantToken(r, p) == listener' = listener \cup {p} /\ UNCHANGED tokens

\* Mutant: the right to read the token is not revoked.
DeleteTokensOnly(r, p) ==
  /\ tokens' = [tokens EXCEPT ![r] = @ \ {p}]
  /\ UNCHANGED listener

\* deleteAccessToken and deleteSecretToken: what other runtimes listen to is
\* not asked for.
DeleteTokens(r, p) ==
  /\ listener' = listener \ {p}
  /\ tokens' = [tokens EXCEPT ![r] = @ \ {p}]

RevokeToken(r, p) == listener' = listener \ {p} /\ UNCHANGED tokens

CreateGitlabSource(r, repos) == gitlab' = [gitlab EXCEPT ![r] = [exists |-> TRUE, repos |-> repos]]
DeleteGitlabSource(r) == gitlab' = [gitlab EXCEPT ![r] = NoSource]

\* The calendar generator hands on "not found" as an error.
CanDeleteCalendar(r) == r \in calendar

\* Mutant: the last of the triggers is left out.
CreateSensorsButLast(r, n) == sensors' = [sensors EXCEPT ![r] = @ \cup 0..n - 2]

\* Mutant: the numbers run to the count, and not up to it.
SurplusSensorsToCount(r, n) == n..Cardinality(sensors[r])

\* CreateSensor: those of the triggers are created or updated, in order; those
\* numbered from there to the count of the sensors listed before are surplus.
CreateSensors(r, n) == sensors' = [sensors EXCEPT ![r] = @ \cup 0..n - 1]
SurplusSensors(r, n) == n..Cardinality(sensors[r]) - 1

\* A surplus sensor that is not there is an error.
CanDeleteSensor(r, i) == i \in sensors[r]
DeleteSensor(r, i) == sensors' = [sensors EXCEPT ![r] = @ \ {i}]

\* DeleteSensor of the code: all of a runtime, found by their label.
DeleteSensors(r) == sensors' = [sensors EXCEPT ![r] = {}]
=============================================================================
