------------------------ MODULE MCDeploymentRuntime ------------------------
(* Instances of DeploymentRuntime for TLC. *)
EXTENDS DeploymentRuntime

CONSTANTS s1, s2, a1, a2, p1, p2

\* Specs that share spaces and accounts pairwise, and differ in the rest.
MCSpecs == { [spaces |-> {s1},     account |-> a1, repo |-> p1],
             [spaces |-> {s1, s2}, account |-> a1, repo |-> p2],
             [spaces |-> {s2},     account |-> a2, repo |-> p1] }
=============================================================================
