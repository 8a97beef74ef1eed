----------------------------- MODULE MCPlatform -----------------------------
(* One product: two repositories share a project, a third gets one later.  *)
EXTENDS Platform, TLC

CONSTANTS repo1, repo2, repo3, project1, project2

MCFirstNodes ==
    (repo1 :> project1) @@ (repo2 :> project1) @@ (repo3 :> Missing)

\* A repository leaves its project, and the third joins the product.
Save(r, p) == [repo |-> r, project |-> p]
MCSaves == {Save(repo1, NoProject), Save(repo3, project2)}

\* One binding for the whole product and one for a project.
Binding(r, ps, p) == [repo |-> r, permission |-> p, projects |-> ps]
MCBindings == {Binding(repo1, {}, "readonly"),
               Binding(repo1, {project2}, "readwrite")}
=============================================================================
