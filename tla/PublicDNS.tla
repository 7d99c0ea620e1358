------------------------------ MODULE PublicDNS ------------------------------
(***************************************************************************)
(* The public DNS of one cluster: dns.Service.Reconcile                    *)
(* (azure/services/dns), run again and again against an Azure that others  *)
(* change too. ClusterReconciler takes a pass as four steps that succeed   *)
(* or fail; here are the calls of a pass, what each reads and writes, and  *)
(* the decisions taken on what was read some calls before.                 *)
(*                                                                         *)
(* An address stands for the ARecords and the TTL of a record set, which   *)
(* the code compares and writes together; Other stands for any that is     *)
(* never wanted. DNSService is what a pass promises its caller.            *)
(***************************************************************************)
EXTENDS Naturals, FiniteSets

CONSTANTS
  Kinds,         \* the infrastructure kinds considered
  Addresses,     \* the addresses of load balancers and API servers
  Hosts,         \* the record names that services ask for
  NumGateways,   \* Services of envoy-gateway-system
  TagKeys, TagValues,
  Locations,     \* where a new resource group may get its location from
  Edits,         \* the kinds of change that others make
  MaxEdits,      \* bound: how many of them
  MaxFaults      \* bound: calls that fail or whose answer is lost

AzureCluster == "AzureCluster"
ASOManaged   == "AzureASOManagedCluster"
VSphere      == "VSphereCluster"

Absent == "absent"   \* there is no Service that qualifies
NoIP   == "no IP"    \* its load balancer has no address yet
Other  == "other"

AllEdits == {"zone", "group", "delegation", "record", "text", "endpoint", "ingress",
             "gateway", "wildcard", "tags", "annotations", "location"}

AnyLocation == {"given", "found", "missing"}

ASSUME PublicAssumption ==
  /\ Kinds \subseteq {AzureCluster, ASOManaged, VSphere}
  /\ Addresses # {} /\ Addresses \intersect {Absent, NoIP, Other} = {}
  /\ NumGateways \in Nat /\ MaxEdits \in Nat /\ MaxFaults \in Nat
  /\ Locations # {} /\ Locations \subseteq AnyLocation
  /\ Edits \subseteq AllEdits

VARIABLES
  kind,        \* infraCluster.GetKind()
  endpoint,    \* the address of the API server, or NoIP
  ingress,     \* the first nginx Service that qualifies
  gateways,    \* the Services of envoy-gateway-system that qualify
  wildcard,    \* the target of the wildcard CNAME
  wanted,      \* the tags the annotations ask for
  location,    \* set with CLUSTER_AZURE_LOCATION ("given"), or else that of the group
               \* of the management cluster: the cluster's client can read it, or not
  group,       \* the cluster's resource group
  zone,        \* the cluster's zone: its name servers, or 0
  made,        \* how many zones there have been: each has its own name servers
  rrsets,      \* the record sets of the zone
  delegation,  \* the NS record in the base zone: name servers, or 0
  pc, held,    \* the next call of the pass, and what the pass remembers
  succeeded,   \* the last pass returned no error
  calm,        \* history: others changed nothing since that pass began
  faults, edits

inputs == <<kind, endpoint, ingress, gateways, wildcard, wanted, location>>
cloud  == <<group, zone, made, rrsets, delegation>>
vars   == <<inputs, cloud, pc, held, succeeded, calm, faults, edits>>

Service  == [host: Hosts, ip: Addresses \union {Absent, NoIP}]
Gateway  == [host: Hosts, ip: Addresses \union {NoIP}]
Targets  == {"ingress", "custom"}
Tags     == UNION {[K -> TagValues] : K \in SUBSET TagKeys}
NoTags   == [k \in {} |-> Other]
Group    == [exists: BOOLEAN, tags: Tags]

Record(name, type, data) == [name |-> name, type |-> type, data |-> data]

RecordSet ==
  [name: Hosts \union {"api", "apiserver"}, type: {"A"}, data: Addresses \union {Other}]
    \union [name: Hosts, type: {"TXT"}, data: {Other}]
    \union [name: {"*"}, type: {"CNAME"}, data: Targets \union {Other}]

PC == {"idle", "getGroup", "locate", "createGroup", "putTags", "list", "createZone",
       "getZone", "listBase", "ns", "diffA", "putA", "diffCname", "putCname"}

\* A list of A records: a function from places in the list, 1 for api, 2 for
\* apiserver, 3 for the ingress, then the gateways; a place may be left out.
Lists == UNION {[P -> RecordSet] : P \in SUBSET (1..(NumGateways + 3))}
EmptyList == [p \in {} |-> Other]

\* api, target: the endpoint and the wildcard target when the pass began;
\* current: the zone's record sets as listed; servers: its name servers as
\* read; todo: the A records left to write; tags: the tags to write.
NothingHeld == [api |-> Other, target |-> Other, current |-> {}, servers |-> 0,
                todo |-> EmptyList, tags |-> NoTags]

Held == [api: Addresses \union {NoIP, Other}, target: Targets \union {Other},
         current: SUBSET RecordSet, servers: Nat, todo: Lists, tags: Tags]

Init ==
  /\ kind \in Kinds
  /\ endpoint \in Addresses \union {NoIP}
  /\ ingress \in [host: Hosts, ip: {Absent}]
  /\ gateways \in [1..NumGateways -> [host: Hosts, ip: {NoIP}]]
  /\ wildcard = "ingress" /\ wanted = NoTags
  /\ location \in IF kind = AzureCluster THEN {"given"} ELSE Locations
  /\ group = [exists |-> kind = AzureCluster, tags |-> NoTags]
  /\ zone = 0 /\ made = 0 /\ rrsets = {} /\ delegation = 0
  /\ pc = "idle" /\ held = NothingHeld /\ succeeded = FALSE /\ calm = FALSE
  /\ faults = 0 /\ edits = 0

------------------------------------------------------------------------------
(***************************************************************************)
(* What a pass wants, and what it finds missing.                           *)
(***************************************************************************)
ServiceRecord(s) == Record(s.host, "A", s.ip)

\* getIngressARecord returns ingressNotReadyError.
IngressNotReady == kind = VSphere /\ ingress.ip = NoIP

\* Wrong: a Service is taken before its load balancer has an address.
GatewaysTooEarly == DOMAIN gateways

\* getGatewayARecords passes over a Service without an address.
GatewaysReady == {i \in DOMAIN gateways : gateways[i].ip # NoIP}

ApiPlaces == IF kind = ASOManaged THEN {} ELSE {1, 2}
ServicePlaces ==
  IF kind # VSphere THEN {}
  ELSE (IF ingress.ip = Absent THEN {} ELSE {3}) \union {i + 3 : i \in GatewaysReady}

ARecordAt(p, api) ==
  IF p = 1 THEN Record("api", "A", api)
  ELSE IF p = 2 THEN Record("apiserver", "A", api)
  ELSE ServiceRecord(IF p = 3 THEN ingress ELSE gateways[p - 3])

\* Wrong: the records of the Services are written before those of the API server.
DesiredARecordsServicesFirst(api) ==
  LET last == NumGateways + 3
  IN [p \in ServicePlaces \union {last + q : q \in ApiPlaces} |->
        ARecordAt(IF p > last THEN p - last ELSE p, api)]

DesiredARecords(api) == [p \in ApiPlaces \union ServicePlaces |-> ARecordAt(p, api)]

DesiredCname(target) == Record("*", "CNAME", target)

\* The scope was made from objects read when the pass began; only the public
\* IP of an AzureCluster is asked for now.
ApiAddresses == IF kind = AzureCluster THEN {held.api, endpoint} ELSE {held.api}

\* The host of the control plane endpoint is no IP address (or CAPZ's public IP
\* has none yet): PublicIPService.Get fails, and with it the list of A records.
Unresolved(api) == kind # ASOManaged /\ api = NoIP

\* The list of record sets is searched for the name alone: with several types
\* under a name it depends on the order of the list which one is found.
TypeOrders == {[A |-> 1, CNAME |-> 2, TXT |-> 3], [TXT |-> 1, CNAME |-> 2, A |-> 3]}

\* Wrong: a record set that exists is never compared.
MissingByName(current, order, d) == \A r \in current : r.name # d.name

\* calculateMissingARecords and calculateMissingCnameRecords: no record set of
\* the name, or the one found has other data (of another type: none at all).
Missing(current, order, d) ==
  \/ d \notin current
  \/ \E r \in current : r.name = d.name /\ order[r.type] < order[d.type]

\* resourceGroupTagsEqual, and mergeResourceTags below.
TagsEqual(existing, new) ==
  /\ Cardinality(DOMAIN existing) = Cardinality(DOMAIN new)
  /\ \A k \in DOMAIN new : k \in DOMAIN existing /\ existing[k] = new[k]

\* Wrong: a tag the group has keeps its value.
MergeTagsKeeping(existing, new) ==
  [k \in DOMAIN existing \union DOMAIN new |->
     IF k \in DOMAIN existing THEN existing[k] ELSE new[k]]

MergeTags(existing, new) ==
  [k \in DOMAIN existing \union DOMAIN new |->
     IF k \in DOMAIN new THEN new[k] ELSE existing[k]]

------------------------------------------------------------------------------
(***************************************************************************)
(* Calls. A call that fails ends the pass; it may have taken effect.       *)
(***************************************************************************)
Goto(step) == pc' = step /\ succeeded' = (step = "idle")

Fail == pc' = "idle" /\ held' = NothingHeld /\ succeeded' = FALSE

Fault == faults < MaxFaults /\ faults' = faults + 1

\* A call that only reads.
Read(next, h) ==
  /\ \/ Goto(next) /\ held' = h /\ UNCHANGED faults
     \/ Fault /\ Fail
  /\ UNCHANGED <<inputs, cloud, calm, edits>>

\* Azure answers with an error, or the pass itself stops.
Refused == Fail /\ UNCHANGED <<inputs, cloud, calm, faults, edits>>

\* A call that writes: effect gives the primed cloud.
Write(effect, next, h) ==
  /\ \/ effect /\ Goto(next) /\ held' = h /\ UNCHANGED faults
     \/ Fault /\ Fail /\ (effect \/ UNCHANGED cloud)
  /\ UNCHANGED <<inputs, calm, edits>>

SetGroup(tags) ==
  /\ group' = [exists |-> TRUE, tags |-> tags]
  /\ UNCHANGED <<zone, made, rrsets, delegation>>

SetZone ==
  /\ IF zone = 0 THEN made' = made + 1 /\ zone' = made + 1 ELSE UNCHANGED <<made, zone>>
  /\ UNCHANGED <<group, rrsets, delegation>>

SetDelegation(servers) ==
  /\ delegation' = servers
  /\ UNCHANGED <<group, zone, made, rrsets>>

SetRecord(r) ==
  /\ rrsets' = {s \in rrsets : <<s.name, s.type>> # <<r.name, r.type>>} \union {r}
  /\ UNCHANGED <<group, zone, made, delegation>>

\* A CNAME shares its name with no other record set.
Clashes(r) ==
  \E s \in rrsets : s.name = r.name /\ s.type # r.type /\ "CNAME" \in {r.type, s.type}

CreateOrUpdateRecordSet(r, next, h) ==
  IF zone = 0 \/ Clashes(r) THEN Refused ELSE Write(SetRecord(r), next, h)

------------------------------------------------------------------------------
(***************************************************************************)
(* dns.Service.Reconcile, call by call.                                    *)
(***************************************************************************)
\* The scope is made from a Cluster as others last left it: how old the cached
\* one may be is ClusterReconciler's matter.
Start ==
  /\ pc = "idle"
  /\ Goto(IF kind = AzureCluster THEN "list" ELSE "getGroup")
  /\ held' = [NothingHeld EXCEPT !.api = endpoint, !.target = wildcard, !.tags = wanted]
  /\ calm' = TRUE
  /\ UNCHANGED <<inputs, cloud, faults, edits>>

\* createClusterResourceGroup, up to its decision.
GetResourceGroup ==
  /\ pc = "getGroup"
  /\ Read(IF ~group.exists THEN IF location = "given" THEN "createGroup" ELSE "locate"
          ELSE IF TagsEqual(group.tags, held.tags) THEN "list" ELSE "putTags",
          [held EXCEPT !.tags = IF group.exists THEN MergeTags(group.tags, @) ELSE @])

\* Its new group lies where the management cluster's group does, if no location is
\* set: the AzureCluster is read and its group looked up with the cluster's own
\* client, whose subscription may be another one. Any error ends the pass.
GetLocation ==
  /\ pc = "locate"
  /\ IF location = "missing" THEN Refused ELSE Read("createGroup", held)

CreateResourceGroup ==
  /\ pc = "createGroup"
  /\ Write(SetGroup(held.tags), "list", held)

\* updateClusterResourceGroup
UpdateResourceGroupTags ==
  /\ pc = "putTags"
  /\ Write(SetGroup(held.tags), "list", held)

\* A missing zone (ParentResourceNotFound) is created, a missing group is an error.
ListRecordSets ==
  /\ pc = "list"
  /\ IF ~group.exists THEN Refused
     ELSE Read(IF zone = 0 THEN "createZone" ELSE "getZone",
               [held EXCEPT !.current = rrsets])

CreateClusterDNSZone ==
  /\ pc = "createZone"
  /\ IF group.exists THEN Write(SetZone, "getZone", held) ELSE Refused

GetZone ==
  /\ pc = "getZone"
  /\ IF zone = 0 THEN Refused ELSE Read("listBase", [held EXCEPT !.servers = zone])

\* Wrong: an NS record that exists is taken to be right.
ClusterNSRecordExistsByName(ns) == ns # 0

\* The loop compares the pointers of two names, which never are the same.
ClusterNSRecordExists(ns) == FALSE

ListBaseRecordSets ==
  /\ pc = "listBase"
  /\ Read(IF ClusterNSRecordExists(delegation) THEN "diffA" ELSE "ns", held)

CreateClusterNSRecord ==
  /\ pc = "ns"
  /\ Write(SetDelegation(held.servers), "diffA", held)

AfterDiff(todo) == IF DOMAIN todo = {} THEN "diffCname" ELSE "putA"

\* Wrong: every desired record is written, whatever the list says.
CalculateMissingARecordsAnew ==
  /\ pc = "diffA"
  /\ IF IngressNotReady THEN Refused
     ELSE LET todo == DesiredARecords(held.api)
          IN Read(AfterDiff(todo), [held EXCEPT !.todo = todo])

MissingARecords(order, api) ==
  LET desired == DesiredARecords(api)
  IN [p \in {q \in DOMAIN desired : Missing(held.current, order, desired[q])} |-> desired[p]]

\* calculateMissingARecords reads the workload cluster for the desired records. The
\* public IP, the kubeconfig and the lists of Services are read in one step: the
\* pass compares no two of them, and any of the four may fail.
CalculateMissingARecords ==
  /\ pc = "diffA"
  /\ IF IngressNotReady THEN Refused
     ELSE \E order \in TypeOrders, api \in ApiAddresses :
            IF Unresolved(api) THEN Refused
            ELSE LET todo == MissingARecords(order, api)
                 IN Read(AfterDiff(todo), [held EXCEPT !.todo = todo])

UpdateARecord ==
  /\ pc = "putA"
  /\ \E p \in DOMAIN held.todo :
       /\ \A q \in DOMAIN held.todo : p <= q
       /\ LET rest == [q \in DOMAIN held.todo \ {p} |-> held.todo[q]]
          IN CreateOrUpdateRecordSet(held.todo[p], AfterDiff(rest), [held EXCEPT !.todo = rest])

\* Wrong: the wildcard is left alone when there are no A records to update.
CalculateMissingCnameWithA ==
  /\ pc = "diffCname"
  /\ \E order \in TypeOrders :
       IF kind # ASOManaged /\ Missing(held.current, order, DesiredCname(held.target))
       THEN Goto("putCname") /\ UNCHANGED held
       ELSE Goto("idle") /\ held' = NothingHeld
  /\ UNCHANGED <<inputs, cloud, calm, faults, edits>>

CalculateMissingCnameRecords ==
  /\ pc = "diffCname"
  /\ \E order \in TypeOrders :
       IF Missing(held.current, order, DesiredCname(held.target))
       THEN Goto("putCname") /\ UNCHANGED held
       ELSE Goto("idle") /\ held' = NothingHeld
  /\ UNCHANGED <<inputs, cloud, calm, faults, edits>>

UpdateCnameRecord ==
  /\ pc = "putCname"
  /\ CreateOrUpdateRecordSet(DesiredCname(held.target), "idle", NothingHeld)

Pass ==
  \/ GetResourceGroup \/ GetLocation \/ CreateResourceGroup \/ UpdateResourceGroupTags
  \/ ListRecordSets \/ CreateClusterDNSZone \/ GetZone
  \/ ListBaseRecordSets \/ CreateClusterNSRecord
  \/ CalculateMissingARecords \/ UpdateARecord
  \/ CalculateMissingCnameRecords \/ UpdateCnameRecord

------------------------------------------------------------------------------
(***************************************************************************)
(* The others.                                                             *)
(***************************************************************************)
Edit(what) ==
  /\ what \in Edits /\ edits < MaxEdits /\ edits' = edits + 1
  /\ calm' = FALSE
  /\ UNCHANGED <<kind, made, pc, held, succeeded, faults>>

DeleteZone ==
  /\ Edit("zone") /\ zone # 0
  /\ zone' = 0 /\ rrsets' = {}
  /\ UNCHANGED <<endpoint, ingress, gateways, wildcard, wanted, location, group, delegation>>

DeleteGroup ==
  /\ Edit("group") /\ kind # AzureCluster /\ group.exists
  /\ group' = [exists |-> FALSE, tags |-> NoTags] /\ zone' = 0 /\ rrsets' = {}
  /\ UNCHANGED <<endpoint, ingress, gateways, wildcard, wanted, location, delegation>>

\* The zone, its group and the NS record are named after the cluster alone: the
\* deletion of a Cluster of that name in another namespace removes them too.
DeleteDelegation ==
  /\ Edit("delegation") /\ delegation # 0 /\ delegation' = 0
  /\ UNCHANGED <<endpoint, ingress, gateways, wildcard, wanted, location, group, zone, rrsets>>

\* Somebody deletes or changes a record set, or adds one of another type.
EditRecord ==
  /\ Edit("record")
  /\ \E r \in rrsets :
       rrsets' \in {rrsets \ {r}, (rrsets \ {r}) \union {[r EXCEPT !.data = Other]}}
  /\ UNCHANGED <<endpoint, ingress, gateways, wildcard, wanted, location, group, zone, delegation>>

AddText ==
  /\ Edit("text") /\ zone # 0
  /\ \E host \in Hosts :
       /\ ~Clashes(Record(host, "TXT", Other))
       /\ rrsets' = rrsets \union {Record(host, "TXT", Other)}
  /\ UNCHANGED <<endpoint, ingress, gateways, wildcard, wanted, location, group, zone, delegation>>

EditTags ==
  /\ Edit("tags") /\ group.exists
  /\ \E tags \in Tags : group' = [group EXCEPT !.tags = tags]
  /\ UNCHANGED <<endpoint, ingress, gateways, wildcard, wanted, location, zone, rrsets, delegation>>

MoveEndpoint ==
  /\ Edit("endpoint") /\ endpoint' \in Addresses \union {NoIP}
  /\ UNCHANGED <<ingress, gateways, wildcard, wanted, location, group, zone, rrsets, delegation>>

EditIngress ==
  /\ Edit("ingress") /\ ingress' \in Service
  /\ UNCHANGED <<endpoint, gateways, wildcard, wanted, location, group, zone, rrsets, delegation>>

EditGateway ==
  /\ Edit("gateway")
  /\ \E i \in DOMAIN gateways, s \in Gateway : gateways' = [gateways EXCEPT ![i] = s]
  /\ UNCHANGED <<endpoint, ingress, wildcard, wanted, location, group, zone, rrsets, delegation>>

EditWildcard ==
  /\ Edit("wildcard") /\ wildcard' \in Targets
  /\ UNCHANGED <<endpoint, ingress, gateways, wanted, location, group, zone, rrsets, delegation>>

EditAnnotations ==
  /\ Edit("annotations") /\ wanted' \in Tags
  /\ UNCHANGED <<endpoint, ingress, gateways, wildcard, location, group, zone, rrsets, delegation>>

\* The management cluster's AzureCluster, its group or the right to read it come or go.
EditLocation ==
  /\ Edit("location") /\ location # "given"
  /\ location' \in {"found", "missing"}
  /\ UNCHANGED <<endpoint, ingress, gateways, wildcard, wanted, group, zone, rrsets, delegation>>

Others ==
  \/ DeleteZone \/ DeleteGroup \/ DeleteDelegation \/ EditRecord \/ AddText \/ EditTags
  \/ MoveEndpoint \/ EditIngress \/ EditGateway \/ EditWildcard \/ EditAnnotations
  \/ EditLocation

Next == Start \/ Pass \/ Others

Spec == Init /\ [][Next]_vars

\* Passes follow one another for ever (5 minutes apart, or after an error), and
\* a pass that has started goes on.
FairSpec == Spec /\ WF_vars(Start) /\ WF_vars(Pass)

------------------------------------------------------------------------------
(***************************************************************************)
(* Properties.                                                             *)
(***************************************************************************)
\* Every variable has its type (the state of dns.Service and of Azure DNS).
TypeOK ==
  /\ kind \in Kinds /\ endpoint \in Addresses \union {NoIP}
  /\ ingress \in Service /\ gateways \in [1..NumGateways -> Gateway]
  /\ wildcard \in Targets /\ wanted \in Tags /\ location \in AnyLocation
  /\ group \in Group
  /\ made \in 0..(MaxEdits + 1) /\ zone \in 0..made /\ delegation \in 0..made
  /\ rrsets \subseteq RecordSet
  /\ pc \in PC /\ succeeded \in BOOLEAN /\ calm \in BOOLEAN
  /\ held \in Held /\ held.servers <= made
  /\ faults \in 0..MaxFaults /\ edits \in 0..MaxEdits

WantedARecords == DesiredARecords(endpoint)

Wanted ==
  {WantedARecords[i] : i \in DOMAIN WantedARecords} \union {DesiredCname(wildcard)}

NoNameTwice ==
  \A i, j \in DOMAIN WantedARecords :
    WantedARecords[i].name = WantedARecords[j].name => i = j

\* There is a group, or a place for one.
GroupPossible == group.exists \/ location # "missing"

\* Nothing stands in the way of the wanted records: a new group has a location, API
\* server and ingress have addresses, no two records want the same name, and no
\* record set excludes one.
Possible ==
  /\ GroupPossible
  /\ ~Unresolved(endpoint) /\ ~IngressNotReady
  /\ NoNameTwice
  /\ \A r \in Wanted : r.type = "A" => r.name # "*"
  /\ \A r \in rrsets : r.name = "*" => r.type = "CNAME"

Converged ==
  /\ zone # 0 /\ delegation = zone
  /\ Wanted \subseteq rrsets
  /\ kind # AzureCluster =>
       \A k \in DOMAIN wanted : k \in DOMAIN group.tags /\ group.tags[k] = wanted[k]

\* Whatever others did to the zone, its group, its records and its tags, and
\* however the wanted records changed between two calls of a pass, once they
\* leave it at that the passes of dns.Service bring Azure to what is wanted: a
\* zone, a delegation to the name servers of that zone, and every record.
Converges == <>[]Possible => <>[]Converged

\* GSDNSZoneReady rests on Reconcile's answer: a pass that returned no error,
\* undisturbed, has left nothing undone. Every early return, every list read
\* before the zone existed and every record taken to be right is behind this.
\* (Of two Services that ask for one name the later has its way.)
SuccessIsTruthful == succeeded /\ calm /\ NoNameTwice => Converged

ApiNames == {"api", "apiserver"}

\* Services may ask for whatever names they like, each other's and the
\* wildcard's, but not for those of the API server.
ApiPossible ==
  /\ GroupPossible
  /\ ~Unresolved(endpoint) /\ ~IngressNotReady
  /\ kind = VSphere =>
       \A s \in {ingress} \union {gateways[i] : i \in DOMAIN gateways} :
         s.ip \in Addresses => s.host \notin ApiNames

ApiRight ==
  /\ zone # 0 /\ delegation = zone
  /\ kind # ASOManaged => \A name \in ApiNames : Record(name, "A", endpoint) \in rrsets

\* Two Services that overwrite each other's record set, or one that asks for `*`
\* and makes every pass fail at one of two writes, never keep a cluster from
\* having its zone, its delegation and its api and apiserver records.
ApiConverges == <>[]ApiPossible => <>[]ApiRight

\* No foreign record set shares its name with a wanted one.
Unshared == \A r \in rrsets, d \in Wanted : r.name = d.name => r.type = d.type

\* When all is as wanted no A or CNAME record is written again ("All DNS A
\* records have already been created").
RecordsSettle == <>[](Possible /\ Unshared) => <>[](pc \notin {"putA", "putCname"})

\* updateClusterResourceGroup checks "whether tags need to be updated"
\* (resourcegroup.go:65): when nobody changes them any more it stops writing.
TagsSettle == <>[](pc # "putTags")

\* `api` and `apiserver` refer to the API server (README.md:79-82), in the end.
ApiServed ==
  <>[](\A name \in ApiNames :
         kind # ASOManaged => Record(name, "A", endpoint) \in rrsets)

------------------------------------------------------------------------------
(***************************************************************************)
(* Refinement: what the caller of Reconcile may rely on.                   *)
(***************************************************************************)
Resources == {"rg", "zone", "ns", "records"}
Needs == [r \in Resources |-> CASE r = "rg" -> {} [] r = "zone" -> {"rg"} [] OTHER -> {"zone"}]

\* The wildcard is the last record set that a pass writes.
Exists ==
  {r \in Resources :
     CASE r = "rg" -> group.exists
       [] r = "zone" -> zone # 0
       [] r = "ns" -> delegation # 0
       [] r = "records" -> \E s \in rrsets : s.type = "CNAME"}

Phase == IF pc # "idle" THEN "creating" ELSE IF succeeded THEN "created" ELSE "idle"

DNS == INSTANCE DNSService WITH exists <- Exists, phase <- Phase

\* dns.Service.Reconcile implements the abstract service: zone after group,
\* delegation and records after zone, and success only when all are there.
ImplementsDNSService == DNS!Spec
==============================================================================
