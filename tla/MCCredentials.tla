---------------------------- MODULE MCCredentials ----------------------------
(***************************************************************************)
(* Instances of Credentials for TLC.                                       *)
(***************************************************************************)
EXTENDS Credentials

AllKinds == {AzureCluster, ASOManaged, VSphere}
ASOOnly == {ASOManaged}
AzureOnly == {AzureCluster}
AllTypes == {MSI, Manual, Workload}

\* The annotations stay as they are.
IdentityEdits == {"identity"}
AnnotationEdits == {"annotations"}
NoEdits == {}
==============================================================================
