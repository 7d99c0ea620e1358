-------------------------- MODULE ClusterReconciler --------------------------
(***************************************************************************)
(* The controller of dns-operator-azure: Reconcile, reconcileNormal and    *)
(* reconcileDelete of controllers/cluster_controller.go, the three ways in *)
(* which Patcher.PatchObject stores the infrastructure cluster             *)
(* (pkg/infracluster), and what surrounds them: the Kubernetes API server, *)
(* the informer cache, the infrastructure provider, Azure, and a process   *)
(* that can be restarted between any two calls.                            *)
(*                                                                         *)
(* A reconcile is one call after another to Azure and to the API server;   *)
(* each is one step, so every other actor can act between two of them.     *)
(* What a resource contains is abstracted away here: azure[c] is the set   *)
(* of the resources that exist for the cluster.                            *)
(***************************************************************************)
EXTENDS Naturals

CONSTANTS
  Clusters,     \* the keys of the work queue; a cluster's name is unique
  Kinds,        \* the infrastructure kinds considered
  MaxFaults,    \* bound: calls that fail or whose answer is lost
  MaxCrashes,   \* bound: restarts of the operator
  MaxEdits      \* bound: changes others make to the objects' annotations,
                \*        conditions and pause flag

AzureCluster == "AzureCluster"
ASOManaged   == "AzureASOManagedCluster"
VSphere      == "VSphereCluster"          \* any other infrastructure kind

ASSUME KindsAssumption == Kinds \subseteq {AzureCluster, ASOManaged, VSphere}
ASSUME BoundsAssumption == MaxFaults \in Nat /\ MaxCrashes \in Nat /\ MaxEdits \in Nat

VARIABLES
  kind,      \* infraCluster.GetKind(), fixed for a cluster
  cluster,   \* the Cluster object in the API server
  seen,      \* the Cluster object in the informer cache
  infra,     \* the infrastructure cluster object in the API server
  azure,     \* the Azure resources that exist for the cluster
  pc,        \* the next call of the reconcile of the cluster, or "idle"
  scope,     \* clusterScope: what the reconcile read, and its edits to it
  stale,     \* scope holds an outdated resourceVersion of infra
  cleaned,   \* history: a reconcileDelete ran to its end
  faults, crashes, edits

vars == <<kind, cluster, seen, infra, azure, pc, scope, stale, cleaned,
          faults, crashes, edits>>
bounds == <<faults, crashes, edits>>

(***************************************************************************)
(* Data.                                                                   *)
(***************************************************************************)
\* The annotations that ask for a private zone (cluster_controller.go:52-53).
Links == {"privateApi", "privateIngress"}

\* privateApi: the zone <wc>.<base> in the management cluster's group;
\* privateIngress: the zone <mc>.<base> in the cluster's own group;
\* ns: the delegation in the base zone.
Resources == Links \union {"rg", "zone", "ns", "records"}

\* What lives in the resource group of the cluster and vanishes with it.
InGroup == {"rg", "zone", "records", "privateIngress"}

\* LoadBalancersReady: not in the status, or there with that status.
Condition == {"absent", "false", "true"}

ClusterObject == [exists: BOOLEAN, deleting: BOOLEAN, paused: BOOLEAN,
                  provisioned: BOOLEAN]

\* fin: our finalizer; others: finalizers of the provider;
\* dnsReady: the condition GSDNSZoneReady.
InfraObject == [exists: BOOLEAN, deleting: BOOLEAN, paused: BOOLEAN,
                fin: BOOLEAN, others: BOOLEAN, lb: Condition, links: SUBSET Links,
                dnsReady: BOOLEAN]

Scope == [provisioned: BOOLEAN, fin: BOOLEAN, lb: Condition,
          links: SUBSET Links, dnsReady: BOOLEAN]

NormalSteps == {"register", "ready", "privateApi", "privateIngress", "rg",
                "zone", "ns", "records", "condition", "patch"}
DeleteSteps == {"delPrivateApi", "delPrivateIngress", "delNS", "delRG",
                "unregister"}
PC == {"idle", "close"} \union NormalSteps \union DeleteSteps

NoScope == [provisioned |-> FALSE, fin |-> FALSE, lb |-> "absent",
            links |-> {}, dnsReady |-> FALSE]

\* The infrastructure cluster as read now, next to the Cluster read before.
Observe(o, provisioned) ==
  [provisioned |-> provisioned, fin |-> o.fin, lb |-> o.lb,
   links |-> o.links, dnsReady |-> o.dnsReady]

\* The API server drops an object that is being deleted and has no finalizer.
Reap(o) ==
  IF o.deleting /\ ~o.fin /\ ~o.others THEN [o EXCEPT !.exists = FALSE] ELSE o

\* What only the operator can clean up. The group of an AzureCluster is CAPZ's.
Owned(c) ==
  IF kind[c] = AzureCluster THEN {"ns", "privateApi"}
                            ELSE {"rg", "zone", "ns", "records"}

------------------------------------------------------------------------------
Init ==
  /\ kind \in [Clusters -> Kinds]
  /\ cluster = [c \in Clusters |-> [exists |-> TRUE, deleting |-> FALSE,
                                    paused |-> FALSE, provisioned |-> FALSE]]
  /\ seen = cluster
  /\ infra = [c \in Clusters |->
                [exists |-> TRUE, deleting |-> FALSE, paused |-> FALSE,
                 fin |-> FALSE, others |-> TRUE, lb |-> "absent", links |-> {},
                 dnsReady |-> FALSE]]
  /\ azure = [c \in Clusters |-> IF kind[c] = AzureCluster THEN {"rg"} ELSE {}]
  /\ pc = [c \in Clusters |-> "idle"]
  /\ scope = [c \in Clusters |-> NoScope]
  /\ stale = [c \in Clusters |-> FALSE]
  /\ cleaned = [c \in Clusters |-> FALSE]
  /\ faults = 0 /\ crashes = 0 /\ edits = 0

------------------------------------------------------------------------------
(***************************************************************************)
(* Calls. An Azure call either takes effect and returns, or fails; when it *)
(* fails it may have taken effect all the same (the answer was lost). A    *)
(* failure ends the reconcile through the deferred Close.                  *)
(***************************************************************************)
Goto(c, step) == pc' = [pc EXCEPT ![c] = step]

\* The scope and its version are gone when Reconcile returns.
Hold(c, m, step) == scope' = [scope EXCEPT ![c] = IF step = "idle" THEN NoScope ELSE m]
Outdate(c, old, step) == stale' = [stale EXCEPT ![c] = old /\ step # "idle"]

Fault == faults < MaxFaults /\ faults' = faults + 1

Call(c, after, next) ==
  /\ \/ /\ azure' = [azure EXCEPT ![c] = after]
        /\ Goto(c, next)
        /\ UNCHANGED faults
     \/ /\ Fault
        /\ azure' = [azure EXCEPT ![c] = after] \/ UNCHANGED azure
        /\ Goto(c, "close")
  /\ UNCHANGED <<kind, cluster, seen, infra, scope, stale, cleaned, crashes,
                 edits>>

Skip(c, next) ==
  /\ Goto(c, next)
  /\ UNCHANGED <<kind, cluster, seen, infra, azure, scope, stale, cleaned,
                 bounds>>

(***************************************************************************)
(* Patcher.PatchObject, for the scope m the reconcile holds.               *)
(*                                                                         *)
(*  - AzureASOManagedCluster: Update(infraCluster) stores the metadata.    *)
(*  - other non-Azure kinds: Status().Update(infraCluster) stores the      *)
(*    status only and its answer overwrites the object in memory, so the   *)
(*    Update that follows writes back the finalizers the server had.       *)
(*  - AzureCluster: CAPZ's ClusterScope patches the typed AzureCluster     *)
(*    that NewScope read for it, never the object in clusterScope.         *)
(*                                                                         *)
(* The API server refuses an update of an outdated object, or of none.     *)
(***************************************************************************)
Accepted(c) == infra[c].exists /\ ~stale[c]

Stored(c, m) ==
  IF kind[c] = ASOManaged THEN Reap([infra[c] EXCEPT !.fin = m.fin])
                          ELSE [infra[c] EXCEPT !.dnsReady = m.dnsReady]

\* The object in memory after an accepted PatchObject.
Refreshed(c, m) ==
  IF kind[c] = VSphere THEN Observe(Stored(c, m), m.provisioned) ELSE m

CommonPatchObject(c, m, next, failed) ==
  /\ kind[c] # AzureCluster
  /\ \/ /\ Accepted(c)                        \* stored
        /\ infra' = [infra EXCEPT ![c] = Stored(c, m)]
        /\ Goto(c, next) /\ Hold(c, Refreshed(c, m), next)
        /\ Outdate(c, FALSE, next)
        /\ UNCHANGED faults
     \/ /\ ~Accepted(c)                       \* a conflict, or not found
        /\ Goto(c, failed) /\ Hold(c, m, failed)
        /\ Outdate(c, TRUE, failed)
        /\ UNCHANGED <<infra, faults>>
     \/ /\ Fault /\ Accepted(c)               \* stored, but the answer is lost
        /\ infra' = [infra EXCEPT ![c] = Stored(c, m)]
        /\ Goto(c, failed) /\ Hold(c, m, failed)
        /\ Outdate(c, TRUE, failed)
     \/ /\ Fault                              \* it never arrived
        /\ Goto(c, failed) /\ Hold(c, m, failed)
        /\ Outdate(c, stale[c], failed)
        /\ UNCHANGED infra

\* CAPZ's patch stores nothing of m; what it stores of its own may outdate m.
CAPZPatchObject(c, m, next, failed) ==
  /\ kind[c] = AzureCluster
  /\ \/ /\ Goto(c, next) /\ Hold(c, m, next)
        /\ Outdate(c, stale[c], next)
        /\ UNCHANGED faults
     \/ /\ Fault
        /\ Goto(c, next) /\ Hold(c, m, next)
        /\ Outdate(c, TRUE, next)
     \/ /\ Fault
        /\ Goto(c, failed) /\ Hold(c, m, failed)
        /\ Outdate(c, stale[c], failed)
  /\ UNCHANGED infra

PatchObject(c, m, next, failed) ==
  /\ CommonPatchObject(c, m, next, failed) \/ CAPZPatchObject(c, m, next, failed)
  /\ UNCHANGED <<kind, cluster, seen, azure, cleaned, crashes, edits>>

------------------------------------------------------------------------------
(***************************************************************************)
(* Reconcile. The Cluster comes from the informer cache, the               *)
(* infrastructure cluster from the API server. A Cluster or an             *)
(* infrastructure cluster that is not found, one that is paused and an     *)
(* error of NewScope end the reconcile before the deferred Close exists:   *)
(* nothing has changed then.                                               *)
(***************************************************************************)
Reconcile(c) ==
  /\ pc[c] = "idle"
  /\ seen[c].exists /\ infra[c].exists
  /\ ~seen[c].paused /\ ~infra[c].paused
  /\ scope' = [scope EXCEPT ![c] = Observe(infra[c], seen[c].provisioned)]
  /\ Goto(c, IF seen[c].deleting \/ infra[c].deleting THEN "delPrivateApi"
                                                      ELSE "register")
  /\ UNCHANGED <<kind, cluster, seen, infra, azure, stale, cleaned, bounds>>

\* The deferred Patcher.Close: one more PatchObject, however Reconcile ends.
Close(c) ==
  /\ pc[c] = "close"
  /\ PatchObject(c, scope[c], "idle", "idle")

(***************************************************************************)
(* reconcileNormal.                                                        *)
(***************************************************************************)
\* Wrong: the finalizer is added in memory and left to the last patch.
RegisterFinalizerLate(c) ==
  /\ pc[c] = "register"
  /\ scope' = [scope EXCEPT ![c].fin = TRUE]
  /\ Goto(c, "ready")
  /\ UNCHANGED <<kind, cluster, seen, infra, azure, stale, cleaned, bounds>>

\* Wrong: the reconcile ends once the finalizer is registered, to be requeued.
RegisterFinalizerAndReturn(c) ==
  /\ pc[c] = "register"
  /\ IF scope[c].fin THEN Skip(c, "ready")
     ELSE PatchObject(c, [scope[c] EXCEPT !.fin = TRUE], "close", "close")

RegisterFinalizer(c) ==
  /\ pc[c] = "register"
  /\ IF scope[c].fin THEN Skip(c, "ready")
     ELSE PatchObject(c, [scope[c] EXCEPT !.fin = TRUE], "ready", "close")

\* The condition's presence is tested, not its status.
IsReadyForDnsManagement(c) ==
  /\ scope[c].provisioned
  /\ kind[c] = AzureCluster => scope[c].lb # "absent"

CheckReady(c) ==
  /\ pc[c] = "ready"
  /\ Skip(c, IF IsReadyForDnsManagement(c) THEN "privateApi" ELSE "close")

\* A private zone is wanted when the annotation has a value and the
\* infrastructure cluster has an AzureCluster spec.
Wants(c, link) == kind[c] = AzureCluster /\ link \in scope[c].links

ReconcilePrivateApi(c) ==
  /\ pc[c] = "privateApi"
  /\ IF Wants(c, "privateApi")
     THEN Call(c, azure[c] \union {"privateApi"}, "privateIngress")
     ELSE Skip(c, "privateIngress")

ReconcilePrivateIngress(c) ==
  /\ pc[c] = "privateIngress"
  /\ IF ~Wants(c, "privateIngress") THEN Skip(c, "rg")
     ELSE IF "rg" \in azure[c]
          THEN Call(c, azure[c] \union {"privateIngress"}, "rg")
          ELSE Skip(c, "close")

CreateClusterResourceGroup(c) ==
  /\ pc[c] = "rg"
  /\ IF kind[c] = AzureCluster THEN Skip(c, "zone")
     ELSE Call(c, azure[c] \union {"rg"}, "zone")

CreateClusterDNSZone(c) ==
  /\ pc[c] = "zone"
  /\ IF "rg" \in azure[c] THEN Call(c, azure[c] \union {"zone"}, "ns")
                          ELSE Skip(c, "close")

\* The zone is read again for its name servers before they are delegated to.
CreateClusterNSRecord(c) ==
  /\ pc[c] = "ns"
  /\ IF "zone" \in azure[c] THEN Call(c, azure[c] \union {"ns"}, "records")
                            ELSE Skip(c, "close")

\* Wrong: an error while writing the records is logged and not returned.
UpdateRecordsIgnoringErrors(c) ==
  /\ pc[c] = "records"
  /\ \/ Call(c, azure[c] \union {"records"}, "condition")
     \/ Skip(c, "condition")

UpdateRecords(c) ==
  /\ pc[c] = "records"
  /\ IF "zone" \in azure[c] THEN Call(c, azure[c] \union {"records"}, "condition")
                            ELSE Skip(c, "close")

\* SetUnstructuredCondition, then Status().Update; not for ASO clusters.
SetGSDNSZoneReady(c) ==
  /\ pc[c] = "condition"
  /\ IF kind[c] = ASOManaged THEN Skip(c, "patch") ELSE
     LET ready  == [scope[c] EXCEPT !.dnsReady = TRUE]
         stored == [infra[c] EXCEPT !.dnsReady = TRUE]
     IN /\ \/ /\ Accepted(c)
              /\ infra' = [infra EXCEPT ![c] = stored]
              /\ Goto(c, "patch") /\ Hold(c, Observe(stored, ready.provisioned), "patch")
              /\ UNCHANGED <<stale, faults>>
           \/ /\ ~Accepted(c) /\ Goto(c, "close") /\ Hold(c, ready, "close")
              /\ UNCHANGED <<infra, stale, faults>>
           \/ /\ Fault /\ Goto(c, "close") /\ Hold(c, ready, "close")
              /\ \/ UNCHANGED <<infra, stale>>
                 \/ /\ Accepted(c)
                    /\ infra' = [infra EXCEPT ![c] = stored]
                    /\ Outdate(c, TRUE, "close")
        /\ UNCHANGED <<kind, cluster, seen, azure, cleaned, crashes, edits>>

FinalPatch(c) ==
  /\ pc[c] = "patch"
  /\ PatchObject(c, scope[c], "close", "close")

(***************************************************************************)
(* reconcileDelete. Azure answers a delete of a record set or group that   *)
(* is not there with success, and one inside a missing group with an       *)
(* error; how it answers a second delete of a private zone and its link is *)
(* left open.                                                              *)
(***************************************************************************)
DeletePrivateApi(c) ==
  /\ pc[c] = "delPrivateApi"
  /\ IF Wants(c, "privateApi")
     THEN \/ Call(c, azure[c] \ {"privateApi"}, "delPrivateIngress")
          \/ "privateApi" \notin azure[c] /\ Skip(c, "close")
     ELSE Skip(c, "delPrivateIngress")

DeletePrivateIngress(c) ==
  /\ pc[c] = "delPrivateIngress"
  /\ IF Wants(c, "privateIngress")
     THEN \/ /\ "rg" \in azure[c]
             /\ Call(c, azure[c] \ {"privateIngress"}, "delNS")
          \/ "privateIngress" \notin azure[c] /\ Skip(c, "close")
     ELSE Skip(c, "delNS")

\* Wrong: an error while deleting the NS record is logged and not returned.
DeleteClusterNSRecordsIgnoringErrors(c) ==
  /\ pc[c] = "delNS"
  /\ \/ Call(c, azure[c] \ {"ns"}, "delRG")
     \/ Skip(c, "delRG")

DeleteClusterNSRecords(c) ==
  /\ pc[c] = "delNS"
  /\ Call(c, azure[c] \ {"ns"}, "delRG")

\* Wrong: a group that is already gone is an error.
DeleteClusterResourceGroupOnce(c) ==
  /\ pc[c] = "delRG"
  /\ IF kind[c] = AzureCluster THEN Skip(c, "unregister")
     ELSE IF "rg" \in azure[c] THEN Call(c, azure[c] \ InGroup, "unregister")
                               ELSE Skip(c, "close")

DeleteClusterResourceGroup(c) ==
  /\ pc[c] = "delRG"
  /\ IF kind[c] = AzureCluster THEN Skip(c, "unregister")
     ELSE Call(c, azure[c] \ InGroup, "unregister")

\* Wrong: Reconcile goes on with reconcileNormal after reconcileDelete.
RemoveFinalizerAndGoOn(c) ==
  /\ pc[c] = "unregister"
  /\ scope' = [scope EXCEPT ![c].fin = FALSE]
  /\ cleaned' = [cleaned EXCEPT ![c] = TRUE]
  /\ Goto(c, "register")
  /\ UNCHANGED <<kind, cluster, seen, infra, azure, stale, bounds>>

\* Wrong: the scope is replaced by an infrastructure cluster read again.
RemoveFinalizerOfFreshObject(c) ==
  /\ pc[c] = "unregister"
  /\ scope' = [scope EXCEPT ![c] = [infra[c] EXCEPT !.fin = FALSE]]
  /\ cleaned' = [cleaned EXCEPT ![c] = TRUE]
  /\ Goto(c, "close")
  /\ UNCHANGED <<kind, cluster, seen, infra, azure, stale, bounds>>

\* Only in memory: the deferred Close stores it.
RemoveFinalizer(c) ==
  /\ pc[c] = "unregister"
  /\ scope' = [scope EXCEPT ![c].fin = FALSE]
  /\ cleaned' = [cleaned EXCEPT ![c] = TRUE]
  /\ Goto(c, "close")
  /\ UNCHANGED <<kind, cluster, seen, infra, azure, stale, bounds>>

Step(c) ==
  \/ RegisterFinalizer(c) \/ CheckReady(c)
  \/ ReconcilePrivateApi(c) \/ ReconcilePrivateIngress(c)
  \/ CreateClusterResourceGroup(c) \/ CreateClusterDNSZone(c)
  \/ CreateClusterNSRecord(c) \/ UpdateRecords(c)
  \/ SetGSDNSZoneReady(c) \/ FinalPatch(c)
  \/ DeletePrivateApi(c) \/ DeletePrivateIngress(c)
  \/ DeleteClusterNSRecords(c) \/ DeleteClusterResourceGroup(c)
  \/ RemoveFinalizer(c) \/ Close(c)

------------------------------------------------------------------------------
(***************************************************************************)
(* The others: users, Cluster API, the infrastructure provider, the        *)
(* informer, the kubelet.                                                  *)
(***************************************************************************)
SetCluster(c, o) ==
  /\ cluster' = [cluster EXCEPT ![c] = o]
  /\ UNCHANGED <<kind, seen, infra, azure, pc, scope, stale, cleaned, faults,
                 crashes>>

\* Every write by others gives the object a new resourceVersion.
SetInfra(c, o) ==
  /\ infra[c].exists
  /\ infra' = [infra EXCEPT ![c] = Reap(o)]
  /\ Outdate(c, TRUE, pc[c])
  /\ UNCHANGED <<kind, cluster, seen, azure, pc, scope, cleaned, faults, crashes>>

Edit == edits < MaxEdits /\ edits' = edits + 1

Provision(c) ==
  /\ cluster[c].exists /\ ~cluster[c].provisioned
  /\ SetCluster(c, [cluster[c] EXCEPT !.provisioned = TRUE])
  /\ UNCHANGED edits

TogglePause(c) ==
  /\ Edit /\ cluster[c].exists
  /\ SetCluster(c, [cluster[c] EXCEPT !.paused = ~@])

TogglePauseInfra(c) ==
  /\ Edit /\ SetInfra(c, [infra[c] EXCEPT !.paused = ~@])

SetLoadBalancersReady(c, status) ==
  /\ Edit /\ kind[c] = AzureCluster /\ infra[c].lb # status
  /\ SetInfra(c, [infra[c] EXCEPT !.lb = status])

Annotate(c, links) ==
  /\ Edit /\ kind[c] = AzureCluster /\ infra[c].links # links
  /\ SetInfra(c, [infra[c] EXCEPT !.links = links])

DeleteCluster(c) ==
  /\ cluster[c].exists /\ ~cluster[c].deleting
  /\ SetCluster(c, [cluster[c] EXCEPT !.deleting = TRUE])
  /\ UNCHANGED edits

DeleteInfra(c) ==
  /\ ~infra[c].deleting
  /\ SetInfra(c, [infra[c] EXCEPT !.deleting = TRUE])
  /\ UNCHANGED edits

\* CAPZ deletes the group it created; then each provider lets go of its object.
CAPZDeleteGroup(c) ==
  /\ kind[c] = AzureCluster /\ infra[c].deleting /\ "rg" \in azure[c]
  /\ azure' = [azure EXCEPT ![c] = @ \ InGroup]
  /\ UNCHANGED <<kind, cluster, seen, infra, pc, scope, stale, cleaned, bounds>>

ProviderRelease(c) ==
  /\ infra[c].deleting /\ infra[c].others
  /\ kind[c] = AzureCluster => "rg" \notin azure[c]
  /\ SetInfra(c, [infra[c] EXCEPT !.others = FALSE])
  /\ UNCHANGED edits

\* Cluster API drops its finalizer once the infrastructure cluster is gone.
ForgetCluster(c) ==
  /\ cluster[c].exists /\ cluster[c].deleting /\ ~infra[c].exists
  /\ SetCluster(c, [cluster[c] EXCEPT !.exists = FALSE])
  /\ UNCHANGED edits

Sync(c) ==
  /\ seen[c] # cluster[c]
  /\ seen' = [seen EXCEPT ![c] = cluster[c]]
  /\ UNCHANGED <<kind, cluster, infra, azure, pc, scope, stale, cleaned, bounds>>

\* The process restarts: every reconcile is lost. What the informer lists anew may
\* be no newer than what it had (Sync brings the rest); it is not taken to be older.
Crash ==
  /\ crashes < MaxCrashes /\ crashes' = crashes + 1
  /\ pc' = [c \in Clusters |-> "idle"]
  /\ scope' = [c \in Clusters |-> NoScope]
  /\ stale' = [c \in Clusters |-> FALSE]
  /\ UNCHANGED <<kind, cluster, seen, infra, azure, cleaned, faults, edits>>

Environment(c) ==
  \/ Provision(c) \/ TogglePause(c) \/ TogglePauseInfra(c)
  \/ \E status \in Condition : SetLoadBalancersReady(c, status)
  \/ \E links \in SUBSET Links : Annotate(c, links)
  \/ DeleteCluster(c) \/ DeleteInfra(c)
  \/ CAPZDeleteGroup(c) \/ ProviderRelease(c) \/ ForgetCluster(c) \/ Sync(c)

Next ==
  \/ \E c \in Clusters : Reconcile(c) \/ Step(c) \/ Environment(c)
  \/ Crash

Spec == Init /\ [][Next]_vars

\* A started reconcile goes on, the queue is served again (an error, the
\* requeue and the 5 minute resync all bring the key back), and the informer
\* and the providers do their part. Nobody has to provision, edit or delete.
Fairness ==
  \A c \in Clusters :
    /\ WF_vars(Step(c)) /\ WF_vars(Reconcile(c)) /\ WF_vars(Sync(c))
    /\ WF_vars(CAPZDeleteGroup(c)) /\ WF_vars(ProviderRelease(c))

FairSpec == Spec /\ Fairness

------------------------------------------------------------------------------
(***************************************************************************)
(* Properties.                                                             *)
(***************************************************************************)
\* Every variable has its type (the objects and the scope of Reconcile).
TypeOK ==
  /\ kind \in [Clusters -> Kinds]
  /\ cluster \in [Clusters -> ClusterObject]
  /\ seen \in [Clusters -> ClusterObject]
  /\ infra \in [Clusters -> InfraObject]
  /\ azure \in [Clusters -> SUBSET Resources]
  /\ pc \in [Clusters -> PC]
  /\ scope \in [Clusters -> Scope]
  /\ stale \in [Clusters -> BOOLEAN]
  /\ cleaned \in [Clusters -> BOOLEAN]
  /\ faults \in 0..MaxFaults /\ crashes \in 0..MaxCrashes /\ edits \in 0..MaxEdits

\* The finalizer of reconcileNormal is there "to avoid orphaning Azure
\* resources on delete" (cluster_controller.go:146): an infrastructure cluster
\* never disappears while a resource only the operator cleans up exists.
NeverOrphaned ==
  \A c \in Clusters : ~infra[c].exists => azure[c] \intersect Owned(c) = {}

\* The same for AzureASOManagedCluster, the kind whose PatchObject stores the
\* finalizer.
ASONeverOrphaned ==
  \A c \in Clusters :
    kind[c] = ASOManaged /\ ~infra[c].exists => azure[c] \intersect Owned(c) = {}

\* The base zone never delegates to a zone the operator has not created yet or
\* has already deleted with its group: dns.Service creates zone, then NS record,
\* and deletes NS record, then group. (CAPZ deletes the group of an
\* AzureCluster whenever it likes.)
NoLameDelegation ==
  \A c \in Clusters :
    kind[c] # AzureCluster /\ "ns" \in azure[c] => "zone" \in azure[c]

\* Once reconcileDelete ran to its end for a cluster, no later reconcile, from
\* whatever stale Cluster, creates anything in Azure again.
NoResurrection ==
  [][\A c \in Clusters : cleaned[c] => azure'[c] \subseteq azure[c]]_vars

\* GSDNSZoneReady, "GiantSwarm DNS Zones have been created", is raised only
\* at a moment when the zone, its delegation and its records all exist: a
\* deletion that began meanwhile makes the status update fail.
ConditionTruthful ==
  [][\A c \in Clusters :
       infra'[c].dnsReady /\ ~infra[c].dnsReady
         => {"zone", "ns", "records"} \subseteq azure[c]]_vars

\* A live, unpaused cluster that stays ready for DNS management.
Settled(c) ==
  /\ cluster[c].exists /\ ~cluster[c].deleting /\ ~cluster[c].paused
  /\ cluster[c].provisioned
  /\ infra[c].exists /\ ~infra[c].deleting /\ ~infra[c].paused
  /\ kind[c] = AzureCluster => infra[c].lb # "absent"

Served(c) ==
  /\ {"zone", "ns", "records"} \subseteq azure[c]
  /\ kind[c] = AzureCluster => infra[c].links \subseteq azure[c]
  /\ kind[c] # ASOManaged => infra[c].dnsReady

\* A settled cluster is eventually served for good: zone, delegation, records,
\* the private zones its annotations ask for, and the condition, whatever
\* failed, was lost or conflicted before. It supposes that the DNS services can
\* succeed: here a call fails a bounded number of times. What makes them fail for
\* good (no location, an ingress without an address, clashing names, missing
\* credentials) is in PublicDNS, PrivateDNS and Credentials.
EventuallyServed ==
  \A c \in Clusters : <>[]Settled(c) => <>[]Served(c)

\* reconcileDelete comes to an end: an AzureASOManagedCluster being deleted
\* goes away, the operator's finalizer included, unless it stays paused.
DeletionCompletes ==
  \A c \in Clusters :
    <>[](/\ kind[c] = ASOManaged /\ infra[c].deleting
         /\ ~cluster[c].paused /\ ~infra[c].paused)
      => <>~infra[c].exists

------------------------------------------------------------------------------
(***************************************************************************)
(* Refinement: the public DNS of a cluster, as DNSService describes it.    *)
(***************************************************************************)
PublicResources == {"rg", "zone", "ns", "records"}

Needs == [r \in PublicResources |->
            CASE r = "rg" -> {} [] r = "zone" -> {"rg"} [] OTHER -> {"zone"}]

\* The group of an AzureCluster is CAPZ's to delete, at any time: nothing is
\* promised there.
OperatorsOwn(c) == kind[c] # AzureCluster

Phase(c) ==
  IF ~OperatorsOwn(c) THEN "idle"
  ELSE CASE pc[c] \in {"rg", "zone", "ns", "records"} -> "creating"
         [] pc[c] = "condition"                       -> "created"
         [] pc[c] \in {"delNS", "delRG"}              -> "deleting"
         [] pc[c] = "unregister"                      -> "deleted"
         [] OTHER                                     -> "idle"

DNS(c) == INSTANCE DNSService
            WITH Resources <- PublicResources, calm <- TRUE,
                 exists <- IF OperatorsOwn(c) THEN azure[c] ELSE {}, phase <- Phase(c)

\* Across failures, lost answers, restarts and a deletion that begins at any
\* moment, the reconciles of a cluster are passes of one DNS service: it adds
\* and removes in the order of needs, raises the condition only when all is
\* there, and drops the finalizer only when nothing is.
\* (\A c \in Clusters : DNS(c)!Spec, in the form TLC evaluates.)
ImplementsDNSService ==
  /\ \A c \in Clusters : DNS(c)!Init
  /\ [][\A c \in Clusters : [DNS(c)!Next]_(DNS(c)!vars)]_vars
==============================================================================
