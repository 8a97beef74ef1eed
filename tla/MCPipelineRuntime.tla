------------------------- MODULE MCPipelineRuntime -------------------------
(* Instance of PipelineRuntime for TLC. *)
EXTENDS PipelineRuntime, TLC

CONSTANTS r1, r2, s1, s2, a1, a2, k1, k2, t1

First == [space |-> s1, account |-> a1, source |-> k1, tokens |-> {t1},
          calendar |-> TRUE, triggers |-> 2, app |-> TRUE]
Moved == [space |-> s2, account |-> a2, source |-> k2, tokens |-> {},
          calendar |-> FALSE, triggers |-> 0, app |-> FALSE]
Other == [space |-> s2, account |-> a1, source |-> k2, tokens |-> {t1},
          calendar |-> FALSE, triggers |-> 1, app |-> FALSE]

\* One runtime is moved to another space, account and repository and stops
\* listening; the other shares its account and the repository it listens to, and
\* changes the repository of its pipelines, or takes the space the first left.
MCSpecsOf == r1 :> {First, Moved}
          @@ r2 :> {Other, [Other EXCEPT !.source = k1], [Other EXCEPT !.space = s1]}
=============================================================================
