------------------------------ MODULE Platform ------------------------------
(***************************************************************************)
(* The controllers and requests around a product besides its runtimes: the *)
(* base-operator makes the product, the api-server's requests save the     *)
(* keys of its code repositories and open the repositories to each other,  *)
(* the argo-operator carries a secret into Argo CD.                        *)
(*                                                                         *)
(* They share no variable: what one leaves in GitLab, the vault or the     *)
(* cluster reaches the next as a change that its module lets happen at any *)
(* time.  A behaviour therefore follows one of them, chosen at the start,  *)
(* while the others rest: every behaviour of each part is one of the       *)
(* platform, without the product of their states.                          *)
(***************************************************************************)
EXTENDS ArgoOperator, CodeRepoKeys, KeyAuthorization, BaseOperator

VARIABLE part    \* the part that is followed

vars == <<part, argoVars, keysVars, grantsVars, baseVars>>

Parts == {"argo", "keys", "grants", "base"}

Init ==
    /\ part \in Parts
    /\ ArgoInit /\ (part # "argo" => kind = "coderepo")
    /\ KeysInit
    /\ GrantsInit
    /\ BaseInit

Next ==
    /\ UNCHANGED part
    /\ \/ /\ part = "argo" /\ ArgoNext
          /\ UNCHANGED <<keysVars, grantsVars, baseVars>>
       \/ /\ part = "keys" /\ KeysNext
          /\ UNCHANGED <<argoVars, grantsVars, baseVars>>
       \/ /\ part = "grants" /\ GrantsNext
          /\ UNCHANGED <<argoVars, keysVars, baseVars>>
       \/ /\ part = "base" /\ BaseNext
          /\ UNCHANGED <<argoVars, keysVars, grantsVars>>

\* The fairness of ArgoSpec and BaseSpec, for the part that is followed.
ArgoStep == part = "argo" /\ PassStep
BaseStep(A) == part = "base" /\ A
Spec ==
    /\ Init /\ [][Next]_vars
    /\ WF_argoVars(ArgoStep)
    /\ WF_baseVars(BaseStep(ListingStep))
    /\ \A g \in Groups : /\ SF_baseVars(BaseStep(ProductStep(g)))
                         /\ WF_baseVars(BaseStep(AppEnds(g)))
                         /\ WF_baseVars(BaseStep(NamespaceEnds(g)))
                         /\ WF_baseVars(BaseStep(CodeRepoEnds(g)))

\* The variables of every part range over what its module says.
TypeOK ==
    /\ part \in Parts
    /\ ArgoTypeOK /\ KeysTypeOK /\ GrantsTypeOK /\ BaseTypeOK
=============================================================================
