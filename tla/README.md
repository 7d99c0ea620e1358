# dns-operator-azure in TLA+

A TLA+ development kept beside `dns-operator-azure`, the Giant Swarm operator
that gives Cluster API clusters their DNS zones in Azure. It models the
controller, the public and the private DNS service and the choice of
subscription and credentials as they are in the Go code, states what a DNS
service promises its caller, checks all this with TLC on small instances, and
proves with TLAPS, for every value of the constants, all the safety properties
and the three refinements.

File names of Go code are relative to the repository's root.

## 1. The system

One process watches Cluster API `Cluster` objects. For each of them it reads
the infrastructure cluster (`AzureCluster`, `AzureASOManagedCluster`,
`VSphereCluster`, ...) and, through the Azure API, keeps

- the cluster's resource group, when the infrastructure is not CAPZ's;
- the public zone `<wc>.<base>`, its `api`, `apiserver`, `ingress` and gateway
  A records and its wildcard CNAME;
- the NS record in the base zone that delegates to that zone;
- for an AzureCluster with the annotations of azure-private-endpoint-operator,
  a private zone for the management cluster's way to the API server, in the
  management cluster's group, and one for the workload cluster's way to the
  management cluster's ingress, in the workload cluster's group.

| Part | State | Operations | Correct when |
|---|---|---|---|
| Controller, `controllers/cluster_controller.go` | the scope of each running reconcile; a finalizer and the condition `GSDNSZoneReady` on the infrastructure cluster | `Reconcile`, `reconcileNormal`, `reconcileDelete`, `isClusterReadyForDnsManagements`, deferred `Close` | nothing is orphaned, a deletion ends, a ready cluster is served, the condition is truthful |
| Patchers, `pkg/infracluster/common_patcher.go`, CAPZ's `ClusterScope` | the infrastructure cluster in memory and its resourceVersion | `PatchObject`, `Close` | what the reconcile decided is what is stored |
| Scope and identity, `pkg/infracluster/scope.go` | none (built for each reconcile) | `NewScope`, `InfraClusterIdentity`, `ManagementClusterIdentity` | the zone and the group are in the promised subscription and reached with credentials that belong there; a clean-up looks where the zones are |
| Status conditions, `pkg/infracluster/scope.go` | the list in the infrastructure cluster's status | `SetUnstructuredCondition` | the condition is set, the provider's stay as they are |
| Public IP service, `pkg/infracluster/publicip_service.go` | none | `Get` | an endpoint that is no address is waited for |
| Public DNS service, `azure/services/dns` | Azure: group and tags, zone, record sets, NS record; in memory: the record sets listed | `Reconcile`, `ReconcileDelete` | it converges to the wanted zone, delegation, records and tags, then stops writing |
| Private DNS service, `azure/services/privatedns` | Azure: private zone, virtual network links, record sets | `Reconcile`, `ReconcileDelete` | it converges to a linked zone with its records, and cleans up completely |
| DNS scopes and tags, `azure/scope`, `pkg/infracluster/annotation.go` | none | what the annotations ask for | - |
| Metrics, `pkg/metrics` | gauges and counters | set, delete | series do not outlive their zone |
| Manager, `main.go`; Helm chart | flags; one replica, strategy `Recreate` | start | one process reconciles at a time |

How they interact. The controller calls the services one after the other, and
they call Azure; every call can fail, and a call that fails may have taken
effect. The `Cluster` comes from the informer cache and may be old. The
infrastructure cluster is shared with its provider, with Cluster API and with
users, and is protected by its resourceVersion only. Azure is shared with CAPZ,
external-dns and people. Reconciles of different clusters run concurrently,
those of one cluster never do.

What is hard here, and hardly tested in the repository: the order in which
finalizer, Azure resources and condition come to exist and vanish while
updates conflict and the process restarts; the two copies of an AzureCluster;
decisions taken on record sets, tags or links listed several calls earlier;
retries of half-finished creations and deletions; identities and secrets that
are missing at one read and there at the next; and passes that never come to
rest. `PROJECT.json` lists these hazards with their lines and with the
properties that would catch them going wrong.

## 2. Modules

| Module | Models | Used by |
|---|---|---|
| `ClusterReconciler` | controller, patchers, condition; API server, informer, providers, restarts | `MCClusterReconciler`, `ClusterReconcilerProofs` |
| `ClusterReconcilerProofs` | theorems about it | |
| `PublicDNS` | `dns.Service.Reconcile`, call by call | `MCPublicDNS`, `PublicDNSProofs` |
| `PublicDNSProofs` | theorems about it | |
| `PrivateDNS` | `privatedns.Service`, call by call | `MCPrivateDNS`, `PrivateDNSProofs` |
| `PrivateDNSProofs` | theorems about it | |
| `Credentials` | `NewScope`, the identities and secrets, the clients made from them | `MCCredentials`, `CredentialsProofs` |
| `CredentialsProofs` | theorems about it | |
| `DNSService` | abstract: what a DNS service promises its caller | instantiated by `ClusterReconciler`, `PublicDNS`, `PrivateDNS` |
| `Conditions` | `setUnstructuredCAPICondition`, with theorems about it | |

In the state machines a step is one call to Azure or to the API server together with
the decisions taken on its answer, so that every other actor can act between
any two calls; the few places where two calls are one step are named below. `pc` names
the next call. `Call`, `Read` and `Write` stand for all the methods of a client;
`PROJECT.json` maps each to one of them. Two history variables are shared by
the services: `calm` says that nobody else has changed anything since the pass
began, `succeeded` that the last pass returned no error. Operators whose comment begins with
"Wrong:" are plausible bugs of the operator that follows them; the next-state
relations never use them. They are there to see that each property can fail.

### ClusterReconciler

`cluster` and `seen` are the Cluster in the API server and in the cache,
`infra` is the infrastructure cluster in the API server, `scope` what a
reconcile holds of it, edited in memory, and `stale` says that somebody has
written the object since it was read. `azure[c]` is the set of the resources
that exist for the cluster: what is in them is left to the other two modules.
`cleaned` is a history variable.

| Action | Code |
|---|---|
| `Reconcile` | `Reconcile` up to the choice between normal and delete: not found, paused (either object) and NewScope's errors end it with nothing changed |
| `RegisterFinalizer`, `CheckReady`, `ReconcilePrivateApi`, `ReconcilePrivateIngress`, `CreateClusterResourceGroup`, `CreateClusterDNSZone`, `CreateClusterNSRecord`, `UpdateRecords`, `SetGSDNSZoneReady`, `FinalPatch` | `reconcileNormal` in order |
| `DeletePrivateApi`, `DeletePrivateIngress`, `DeleteClusterNSRecords`, `DeleteClusterResourceGroup`, `RemoveFinalizer` | `reconcileDelete` in order |
| `Close` | the deferred `Patcher.Close` |

`PatchObject` has the three behaviours of the code. For an
AzureASOManagedCluster it is one `Update`, which stores the finalizers. For
other kinds `Status().Update` comes first and the API server's answer replaces
the object in memory, finalizers included, so that the `Update` after it
stores the finalizers the server had. For an AzureCluster it is CAPZ's patch
helper around a typed object that `NewScope` read on its own, which knows
nothing of the edits to the unstructured object. An update of an outdated
object, or of none, is refused. `Status().Update` and the `Update` after it are one
step: the second sends back what the answer to the first has just brought and changes
nothing in the API server, and that it fails alone is the case of an update that is
stored and whose answer is lost.

After a restart (`Crash`) the informer lists anew. The list may come from the API
server's own cache, so `seen` may be as old as before; it is not taken to be older.

Assumed of the surroundings: the API server drops an object that is being
deleted when its last finalizer goes; CAPZ deletes the group of an AzureCluster
before it drops its own finalizer; Azure answers success to a delete of a
record set or group that does not exist (how it answers a second delete of a
private zone is left open); one process runs at a time (`Recreate` in the
chart); cluster names are unique across namespaces, since zone and group are
named after the cluster alone.

### PublicDNS

One cluster, `dns.Service.Reconcile` again and again. `Start` fixes what the
scope holds (endpoint, wildcard target, tags asked for); then come group and tags
(`GetResourceGroup`, `CreateResourceGroup`, `UpdateResourceGroupTags`), the
record sets as listed (`ListRecordSets`, `CreateClusterDNSZone`), the
delegation (`GetZone`, `ListBaseRecordSets`, `CreateClusterNSRecord`), the A
records (`CalculateMissingARecords`, `UpdateARecord`) and the CNAME. Each new
zone has name servers of its own (`made` counts them), so a delegation to a
deleted zone is told apart from one to its successor. Record sets are found by
name whatever their type, as in the code: where a name has several types,
either may be found. Everything others may change between two calls is an
action of its own, switched on by the constant `Edits`. Addresses, targets and
tags are small sets of values; an address stands for the A records and TTL that
the code compares and writes together. The list of wanted A records is a
function from places (1 for `api`, 2 for `apiserver`, 3 for the ingress, then the
gateways); a record that is not wanted leaves its place out, and the records are
written in the order of the places. The endpoint may be no address (`NoIP`,
a host name): `PublicIPService.Get` then fails, and with it the list of A records
(`Unresolved`). `DeleteGroup` and `DeleteDelegation` are also what the deletion
of a Cluster of the same name in another namespace does: zone, group and NS
record are named after the cluster alone.

A new group takes the location that is set for the operator, or that of the management
cluster's group (`GetLocation`, `azure/services/dns/resourcegroup.go:27-42`). The
latter is looked up with the client of the cluster, so `location` is one of `given`,
`found` and `missing`: no AzureCluster of the management cluster, or its group in
another subscription. A missing location ends every pass that has to make the group.

`Start` takes endpoint and wildcard target as they are; the code takes them from a
cached Cluster, which may be older: that only makes an edit reach the passes later, as
if it were made later. `CalculateMissingARecords` is one step for the read of the
public IP, the kubeconfig and the two lists of Services.

### PrivateDNS

One private zone, `privatedns.Service.Reconcile` until the cluster is deleted
and `ReconcileDelete` from then on until it succeeds. Links have a name and a
network; Azure links a network to a zone once, and refuses to delete a zone
that has links (external behaviour, taken from how the code works around it).
An error of `GetPrivateZone` is only logged, and the empty result dereferenced;
the model takes this as the end of the pass.

How Azure answers the deletion of what is not there is left open, since
`ReconcileDelete` returns every error (`privatedns.go:144-150`): `tolerated` says, once
for every behaviour, whether a missing link, or a link in a missing zone and a missing
zone too, count as deleted. Where they do not, a zone that is deleted and whose answer
is lost stops the clean-up for good, and `DeletionCompletes` says that nothing else
does. Record sets of other types at `*`, which would exclude the wildcard CNAME, are
only in `PublicDNS`.

### Credentials

One cluster, reconciled again and again and then deleted. A subscription, a
client and a tenant are named after where they come from: the environment
(`env`), the cluster's own objects (`own`), the flags (`flag`) or the management
cluster (`mc`). `held` is what the reconcile remembers: the three values of the
Patcher, what the Scope caches of the management cluster, and the identity of
the service being made.

| Action | Code |
|---|---|
| `Reconcile`, `NewClusterScope`, `NewScopeIdentity`, `NewScopeManagementCluster` | `NewScope`: CAPZ's scope for an AzureCluster; otherwise environment, then annotations, and all three values from the management cluster when one is missing |
| `GetManagementCluster`, `GetIdentity`, `GetSecret`, `GetManagementCAPICluster` | `getPrivateDnsServiceForMcToWcApi`, `getPrivateDnsServiceForWcToMcIngress`, `getDnsServiceForPublicRecords`, read by read; an identity that is not found is empty, one whose read fails is replaced by the management cluster's, and a missing secret ends the reconcile (for a private zone by a panic, as the service is nil) |
| `UseService` | `newAzureClient`, `newPrivateDNSClient` and the service's `Reconcile` or `ReconcileDelete`, of which the zone is left and what can fail for good (`Work`) |

Azure accepts a client in its own subscription, accepts or refuses one in another
(the README leaves role assignments to the user), and never accepts an empty
identity. Between any two reads identities come, go or change their type, secrets
and the management cluster's objects come and go, and annotations change: those of an
AzureASOManagedCluster name subscription and identity, those of an AzureCluster ask for
the private zones (`links`; `dropped` remembers which annotation was ever removed). A
reconcile goes by the annotations it read when it began (`held.links`).

`Work` is a whole service in one step; group and zone are made and removed together.
Two things can keep it from succeeding although the client is right. A new group has no
location (`Located`): none is set, and the management cluster's AzureCluster is missing
or its group is not in the client's subscription (`shared` is FALSE). And a private zone
that is to be deleted is not there, which Azure may call an error (`tolerant` is FALSE).

The two reads of `NewScopeManagementCluster`, AzureCluster and identity, are one step,
and so are those of `ManagementClusterIdentity`. Of the environment four set-ups are
distinguished (nothing, the subscription alone, the location alone, everything), of
the flags none, one or both.

### DNSService and the refinements

`exists` is a set of kinds of resources, `Needs` says which must be there before
which, `phase` where a pass is. A pass of `Reconcile` adds, a pass of
`ReconcileDelete` takes away, in the order of needs; one that returns no error
has left everything, or nothing, behind; and a pass answers for what it finds
only as long as `calm` holds. All three state machines are shown to implement it:

| Module | `exists` | `phase` |
|---|---|---|
| `ClusterReconciler` | `azure[c]` where the group is the operator's | from `pc`; `created` when the condition is about to be raised, `deleted` when the finalizer is about to go; `calm` is TRUE: nobody else deletes there |
| `PublicDNS` | group, zone, delegation, and the wildcard as the last record set written | `creating` during a pass, `created` after one that succeeded |
| `PrivateDNS` | zone, the operator's link, the wildcard | the same, and `deleting`, `deleted` |

This is the link between the modules: `ClusterReconciler` abstracts from what is
in the resources, and the two services, call by call, keep the promise it builds
on.

### Conditions

The list of conditions as a sequence, and what setting one does to it. Reason,
severity and message go with the status; fields the Go type does not have are
lost in the conversion (`extra`). The list may hold a type twice. An entry that cannot
be converted makes the code return an error before anything is written
(`scope.go:536-554`, `573-579`); lists with such an entry are left out.

## 3. Runs

All runs that pass also fire every action of their next-state relation.

| Run | Instance | Shows |
|---|---|---|
| `reconciler` | one cluster of any of the three kinds; 2 faults, 1 restart, 2 edits, under fairness; about 810,000 states | `ASONeverOrphaned`, `NoLameDelegation`, `NoResurrection`, `ConditionTruthful`, `ImplementsDNSService`; a settled cluster is `EventuallyServed`; `DeletionCompletes` |
| `public_cloud` | every kind; zone, group, delegation, records, tags, annotations, endpoint, wildcard and the location of the management cluster's group edited, 2 edits, 1 fault; about 700,000 states | `SuccessIsTruthful`, `Converges`, `RecordsSettle`, `ImplementsDNSService` |
| `public_services` | non-Azure kind; ingress and gateway Services edited, with names that clash with each other, with `api` and with `*`; about 340,000 states | `SuccessIsTruthful`, `Converges`, `RecordsSettle`; `ApiConverges`: clashing Services never cost a cluster its zone, delegation or API server records |
| `private_zone` | zone, links, records, annotations edited, cluster deleted; 2 edits, 2 faults, every answer to a deletion of what is not there; about 660,000 states | `SuccessIsTruthful`, `Converges`, `ARecordsSettle`, `DeletionCompletes`, `ImplementsDNSService` |
| `credentials` | every kind, type of identity and set-up; 1 edit, 1 fault, deletion at any time; about 1.5 million states | `RightClient`, `CleanupFindsAll`, `EventuallyThere`, `EventuallyGone` |

Why these bounds are enough. Clusters share nothing but the process that
restarts: lemma `Frame` of the proofs says that an action of one cluster
leaves every other alone, so one cluster shows what several would. Two faults
allow a lost answer followed by a failed retry, and a fault in the reconcile
followed by one in its `Close`. A second restart loses nothing the first
one did not. Two edits allow one change under a running pass and a second one
under the pass that repairs it; the properties say that all is well when the
edits stop. In `credentials` one edit is enough: what is missing in the beginning
is one of the initial states, so one edit makes it appear, or vanish, between any
two reads, and the deletion of the cluster is not counted. The counters of faults, restarts and edits are the only bounds: there is no
bound on the number of reconciles or passes. Two addresses tell an old value
from a new one, and `Other` stands for a value never wanted.

Deadlock. A cluster and its objects may all be gone in the end, and a clean-up
may have succeeded: `CHECK_DEADLOCK FALSE` is set for the reconciler runs,
`private_zone` and `credentials`. The public DNS runs check deadlock.

Fairness. `WF(Step)`, `WF(Pass)`: a started reconcile goes on to its next call,
as Go code does; a call that is given up is a fault. `WF(Reconcile)`,
`WF(Start)`: the key comes back, after an error through the rate limited
queue, after a success through `RequeueAfter: 5 * time.Minute`, after a
return without requeue through the cache's resync (`sync-period`, 5 minutes, in
`main.go`). `WF(Sync)`: the informer
delivers. `WF(CAPZDeleteGroup)`, `WF(ProviderRelease)`: providers finish their
own deletions. Nobody is assumed ever to provision, edit, unpause or delete
anything, and every liveness property is conditional on what the others leave in
place.

### Runs that show a disagreement

| Run | The code | Said |
|---|---|---|
| `orphaned_azurecluster` | For an AzureCluster the finalizer goes into the unstructured object while CAPZ's `ClusterScope` patches its own typed copy. It is never stored; the object goes while its NS record or private zone exists. | "Register the finalizer immediately to avoid orphaning Azure resources on delete", `controllers/cluster_controller.go:146` |
| `orphaned_other_kinds` | For other non-ASO kinds the answer to `Status().Update` takes the finalizer out of the object that `Update` stores next. The comment in `pkg/infracluster/common_patcher.go:65` describes exactly this and avoids it for AKS only. | the same |
| `tags_rewritten` | Tags are compared by number and merged by adding, so a group with a tag nobody asked for is written on every pass. | "check whether tags need to be updated", `azure/services/dns/resourcegroup.go:65` |
| `api_unserved` | An ingress Service without an address yet keeps `api` and `apiserver` from being written. | "`api` and `apiserver` should refer ...", `README.md:79-82` |
| `wrong_subscription` | The identity an AKS cluster refers to is not there when `NewScope` reads it, which is no error: subscription, client and tenant all come from the management cluster. It is created before the DNS service is made, which reads it again and gets a valid client: the zone is made in the management cluster's subscription. | "The zone is created in the Azure subscription referenced by the `giantswarm.io/azure-subscription-id` annotation on the `Cluster` object.", `README.md:26` |
| `annotation_removed` | `reconcileDelete` looks for a private zone only while the annotation that asked for it is there, and `reconcileNormal` removes none: a zone whose annotation was removed stays behind a finished clean-up. | "Register the finalizer immediately to avoid orphaning Azure resources on delete", `controllers/cluster_controller.go:146` |
| `aks_location` | Without `CLUSTER_AZURE_LOCATION` the location of an AKS cluster's group is that of the management cluster's group, looked up in the AKS cluster's own subscription. In another subscription than the management cluster's every pass fails there, and no zone is ever made. | "The zone is created in the Azure subscription referenced by the ... annotation", `README.md:26`; subscription and identity are "both pieces" an AKS cluster provides, `README.md:35-36` |

Two more are plain to see in the code and have no run. `isClusterReadyForDnsManagements`
tests that the condition `LoadBalancersReady` is present, whatever its status, against
"only act on Clusters where the LoadBalancersReady condition is true"
(`controllers/cluster_controller.go:504-509`; `IsReadyForDnsManagement` is as the code
is). And the private client lists A record sets only
(`azure/services/privatedns/client.go:113`; `Listed`), so the wildcard CNAME of a
private zone is found missing and written on every pass; `ARecordsSettle` therefore
speaks of A records alone.

The passing properties are stated so that they hold beside these:
`ASONeverOrphaned` is `NeverOrphaned` for the kind whose finalizer is stored,
and `Converges` of `PublicDNS` supposes the wanted records `Possible` (the
ingress and the endpoint have their addresses, no two Services ask for one name,
none asks for `*`, and the group exists or has a location); `ApiConverges` drops that condition for the records of the
API server, as long as no Service asks for their names. `RightClient` speaks of
reconciles that nobody disturbs, in the set-ups the README describes
(`Documented`), and `CleanupFindsAll` leaves out the AzureASOManagedCluster,
whose subscription can change between two reconciles, and private zones whose
annotation somebody removed. `EventuallyThere` supposes a location (`LocationThere`),
and `EventuallyGone` and `DeletionCompletes` of `PrivateDNS` allow one way for a
clean-up to stop: Azure calls the absence of a private zone an error.
`EventuallyServed` of `ClusterReconciler` supposes that the services can succeed: their
calls fail a bounded number of times there, and what makes them fail for good (an
ingress or endpoint without an address, clashing names, no location, missing
credentials) is in the other modules and in `api_unserved` and `aks_location`.
`ClusterNSRecordExists` is always false in the model, as the code compares the
addresses of two strings; the NS record is therefore written on every pass,
which is what lets the delegation follow a zone that was created again.

## 4. Proofs

Every invariant, every action property and every refinement that a passing run
checks is also a theorem, for every value of the constants.

| Module | Theorem | Statement | By the invariant |
|---|---|---|---|
| `ClusterReconcilerProofs` | `TypeCorrect` | `Spec => []TypeOK` | inductive as it stands |
| | `FinalizerProtects` | `Spec => []ASONeverOrphaned` | `Protection` |
| | `DelegationIsLive` | `Spec => []NoLameDelegation` | `Delegation` |
| | `CleanupIsFinal` | `Spec => NoResurrection` | `Ending` |
| | `ConditionIsTruthful` | `Spec => ConditionTruthful` | `Truth` |
| | `ServiceIsImplemented` | `Spec => ImplementsDNSService` | `Order` |
| `PublicDNSProofs` | `TypeCorrect` | `Spec => []TypeOK` | `TypeInv` |
| | `SuccessIsEarned` | `Spec => []SuccessIsTruthful` | `PassInv` |
| | `ServiceIsImplemented` | `Spec => ImplementsDNSService` | `PassInv` |
| `PrivateDNSProofs` | `TypeCorrect` | `Spec => []TypeOK` | inductive as it stands |
| | `SuccessIsEarned` | `Spec => []SuccessIsTruthful` | `PassInv` |
| | `ServiceIsImplemented` | `Spec => ImplementsDNSService` | `PassInv` |
| `CredentialsProofs` | `TypeCorrect` | `Spec => []TypeOK` | `CredInv` |
| | `CleanupIsComplete` | `Spec => []CleanupFindsAll` | `CredInv` |
| | `ClientIsRight` | `Spec => []RightClient` | `CredInv` |
| `Conditions` | `ConditionIsSet`, `OthersUntouched` | facts about `SetCondition`, for every list | none |

The assumptions are those that the modules name: the kinds are among the three
that the code tells apart, bounds are natural numbers, the reserved values
(`Other`, `NoIP`, ...) are none of the addresses. The sets of clusters, networks,
addresses, hosts and tags and the number of gateways are arbitrary.

### ClusterReconciler

None of the four safety properties is inductive. `ASONeverOrphaned` speaks of
objects that are gone, while what keeps it true happens while they exist:
`Protection` says that Azure resources exist only under the stored finalizer,
that a reconcile about to create some has seen the finalizer stored and holds
it, and that a reconcile holding an object without it leaves nothing behind,
because its `Close` may write that object back. `Delegation` adds that the NS
record is gone when the group is about to be deleted. `Ending` says that a
deletion once seen is never unseen, neither by the cache nor after a restart,
so that no `reconcileNormal` starts after a clean-up. `Truth` says that what
`reconcileNormal` has created is still there when it raises the condition, or
that the object it holds is outdated and the API server refuses the update:
this is what makes the condition right although the deletion may begin between
any two calls.

Each invariant is a conjunction over the clusters. `Frame` reduces the step of
one cluster to that cluster; then there is one case for each action. The
`...Effect` lemmas state once what a call, a skip, a patch or an edit may
change.

For the refinement, `ActMoves` reduces all actions of a cluster, restarts
included, to `Move(c)`: what may happen to its Azure resources and its `pc`
together. `Ordered(c)` says that what the reconcile has created is still there,
and what it has deleted is not; `MoveRefines` shows that a move from such a state
is a step of `DNSService` or a stutter.

### PublicDNS

`TypeOK` bounds the zones ever made by the edits, which is no matter of types:
`ZonesCounted` says that a zone is made again only after an edit took the last
one away.

`SuccessIsTruthful` compares the end of a pass with the world, while each
decision of the pass was taken on something read earlier. `Knowledge` says what
an undisturbed pass has learnt so far and that it is still so: the tags it will
write cover the wanted ones, the name servers it holds are those of this zone, the
record sets are as listed until it writes one itself, and each wanted A record is
there or still on its list. `Result` says what it leaves behind. A name
that two Services ask for is why the A records carry the condition `NoNameTwice`:
writing the second record undoes the first.

The refinement needed one thing more, which the failed proof step showed:
`ServersHeld`, that the NS record is written with the name servers of some zone
even when others are at work. `Knowledge` speaks of calm passes only, and
a disturbed one could otherwise be seen to "write" no delegation at all.

### PrivateDNS

The same argument, with the network link in the place of the delegation.
`PassShape` is what holds whatever others do; the link a pass drops is
never the operator's own, for instance.

### Credentials

`Scoped` says what `NewScope` has settled so far for each kind, `Identified` from
which identity the service at hand is made, and that it is still that one in calm.
Together they give `RightClient`. `CleanupFindsAll` rests on `Cleaning`: every zone
of a cluster that does not choose its subscription is in the subscription
`SubOf` its service, whichever reconcile made it, and a clean-up has
removed the zones of the services it has passed, but for those in `dropped`.
A reconcile goes by annotations that may have changed since it read them, so both
parts speak of `Asked`, the zones it looks for, and `Annotated` ties these to the
annotations of the moment: what was asked for is asked for still, or is in `dropped`.
That is what carries `Cleaning` from one reconcile to the next.

### What the attempts showed

The candidate invariants were run through TLC before they were proved. Some
definitions by `CASE` had arms that overlap: TLC takes the first that is true, the
language says that any may be taken, and the prover would not choose. They are
`IF`s now, in the order of the Go code.

### Model-checked only

The liveness properties (`Converges`, `EventuallyServed`, `DeletionCompletes`,
`RecordsSettle` and the like): they need fairness and ENABLED, which the prover
does not handle. And the disagreements, which are counterexamples.

## 5. Not modelled

- **Metrics**: written along the way, read by no decision of the operator.
- **Set-up and Helm chart**: run before any reconcile; the flags and variables that
  choose credentials are in `Credentials`. The base zone's own credentials are
  required by `main` and never change. The base domain is not required (`main.go:117`):
  an empty one makes every reconcile fail in `NewDNSScope` and `NewPrivateDNSScope`.
- **`setUnstructuredCondition`**, the variant for `metav1.Condition`: only tests call
  it.
- **The client for the workload cluster** (`getClusterK8sClient`): a read of
  `PublicDNS` that may fail.
- **Time**: the 5 minutes between two passes, the queue's back-off and time-outs
  are the order of steps and faults.
- **Malformed conditions** and **record sets that clash with a private zone's wildcard**:
  see `Conditions` and `PrivateDNS` above.
- `client.DeleteZone` and `ListRecordSets` of the private client: no caller.

## 6. Plan

Done: the five state machines and functions above with their runs; theorems for all
invariants, action properties and refinements of the passing runs.

Next, to prove: what single calls may never do, as action properties of the two
services (which record sets a pass may write, and that an undisturbed pass drops
no link of another network); lemmas on comparing tags, which would say for every group
when `TagsEqual` and `MergeTags` agree.

Next, to model: the life of the metrics' series beside the zones they describe.
