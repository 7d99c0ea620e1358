----------------------------- MODULE MCPublicDNS -----------------------------
(***************************************************************************)
(* Instances of PublicDNS for TLC. What the others may change differs from *)
(* run to run.                                                             *)
(***************************************************************************)
EXTENDS PublicDNS

AllKinds == {AzureCluster, ASOManaged, VSphere}
VSphereOnly == {VSphere}

\* Services may ask for each other's names, for the API server's and for the wildcard.
ClashingHosts == {"ingress", "api", "*"}
PlainHosts == {"ingress"}

CloudEdits == {"zone", "group", "delegation", "record", "text", "endpoint", "wildcard", "tags",
               "annotations", "location"}
FoundLocation == {"found"}

ServiceEdits == {"ingress", "gateway", "record", "text"}
TagEdits == {"tags", "annotations"}
==============================================================================
