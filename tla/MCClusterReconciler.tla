------------------------- MODULE MCClusterReconciler -------------------------
(***************************************************************************)
(* Instances of ClusterReconciler for TLC. One cluster is enough: clusters *)
(* share nothing but the process that restarts (lemma Frame of             *)
(* ClusterReconcilerProofs). The kind is left open, so that one run covers *)
(* all three ways of storing the infrastructure cluster.                   *)
(***************************************************************************)
EXTENDS ClusterReconciler

AllKinds == {AzureCluster, ASOManaged, VSphere}
AzureOnly == {AzureCluster}
VSphereOnly == {VSphere}
==============================================================================
