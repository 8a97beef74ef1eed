------------------------- MODULE MCClusterOperator -------------------------
(* Instances of ClusterOperator for TLC. *)
EXTENDS ClusterOperator, TLC

CONSTANTS h1, c1

Physical(usage) == [type |-> "physical", usage |-> usage, host |-> NoCluster]
Virtual(host) == [type |-> "virtual", usage |-> "worker", host |-> host]

\* A host cluster, and one that changes between virtual, worker and host.
MCSpecs == h1 :> {Physical("host")}
             @@ c1 :> {Physical("host"), Physical("worker"), Virtual(h1)}
=============================================================================
