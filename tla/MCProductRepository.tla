------------------------ MODULE MCProductRepository ------------------------
(* An instance of ProductRepository for TLC. *)
EXTENDS ProductRepository, TLC

CONSTANTS req1, req2, req3, repo, rt1, rt2, repos, proj1, proj2, path

\* A code repository, a pipeline runtime that may need it and may lie in two projects,
\* and one that runs the same pipeline.
MCLocations == repo :> {repos} @@ rt1 :> {proj1, proj2} @@ rt2 :> {proj2}
MCContents == repo :> {[refs |-> {}, use |-> Free]}
           @@ rt1 :> {[refs |-> {}, use |-> Free], [refs |-> {repo}, use |-> path]}
           @@ rt2 :> {[refs |-> {}, use |-> path]}

Symmetry == Permutations(Requests)
=============================================================================
