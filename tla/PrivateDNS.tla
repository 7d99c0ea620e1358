------------------------------ MODULE PrivateDNS ------------------------------
(***************************************************************************)
(* A private DNS zone of one cluster: privatedns.Service                   *)
(* (azure/services/privatedns), whose Reconcile runs again and again until *)
(* the cluster is deleted, and whose ReconcileDelete runs from then on     *)
(* until it succeeds. The zone is linked to one virtual network, Ours.     *)
(*                                                                         *)
(* ClusterReconciler takes a pass as one step; here are its calls. The     *)
(* resource group is there all the time. As in PublicDNS, an address and a *)
(* target stand for what the code compares and writes together.            *)
(* DNSService is what a pass promises its caller.                          *)
(***************************************************************************)
EXTENDS Naturals

CONSTANTS
  Addresses,    \* the addresses of private endpoints
  LinkNames,    \* the names of virtual network links
  OwnLink,      \* virtualNetworkLinkName: the one the operator uses
  Networks,     \* virtual networks
  Ours,         \* the one the zone is for
  Edits,        \* the kinds of change that others make
  MaxEdits,     \* bound: how many of them
  MaxFaults     \* bound: calls that fail or whose answer is lost

None  == "none"
Other == "other"
AllEdits == {"zone", "link", "record", "annotations", "delete"}

ASSUME PrivateAssumption ==
  /\ Addresses # {} /\ Addresses \intersect {None, Other} = {}
  /\ OwnLink \in LinkNames /\ Ours \in Networks
  /\ Edits \subseteq AllEdits /\ MaxEdits \in Nat /\ MaxFaults \in Nat

VARIABLES
  wanted,        \* the addresses and the wildcard target asked for
  deleting,      \* the cluster is being deleted
  tolerated,     \* what may be missing, link or zone, for Azure to call it deleted
  zone,          \* the private zone exists
  links,         \* its virtual network links
  records,       \* its record sets
  cleaned,       \* ReconcileDelete has succeeded
  pc, held,      \* the next call of the pass, and what the pass remembers
  succeeded,     \* the last pass returned no error
  calm,          \* history: others changed nothing since that pass began
  faults, edits

inputs == <<wanted, deleting, tolerated>>
cloud  == <<zone, links, records>>
vars   == <<inputs, cloud, cleaned, pc, held, succeeded, calm, faults, edits>>

Names   == {"apiserver", "ingress"}       \* the A records
Targets == {"default", "custom"}          \* what the wildcard * points to
Link    == [name: LinkNames, net: Networks]

Wish == [apiserver: Addresses \union {None}, ingress: Addresses \union {None},
         cname: Targets]
Zone == [apiserver: Addresses \union {None, Other}, ingress: Addresses \union {None, Other},
         cname: Targets \union {None, Other}]

Empty == [apiserver |-> None, ingress |-> None, cname |-> None]

PC == {"idle", "list", "createZone", "links", "dropLink", "createLink", "getZone",
       "putA", "putCname", "delLink", "delZone"}

\* wish: what the scope was made from; current: the record sets as listed;
\* drop: the link to delete; todo: the A records left to write.
NothingHeld == [wish |-> Empty, current |-> Empty, drop |-> OwnLink, todo |-> {}]

Init ==
  /\ wanted \in {w \in Wish : (w.apiserver = None) # (w.ingress = None)}
  /\ tolerated \in {{}, {"link"}, {"link", "zone"}}
  /\ deleting = FALSE /\ zone = FALSE /\ links = {} /\ records = Empty
  /\ cleaned = FALSE /\ pc = "idle" /\ held = NothingHeld
  /\ succeeded = FALSE /\ calm = FALSE
  /\ faults = 0 /\ edits = 0

------------------------------------------------------------------------------
(***************************************************************************)
(* Calls. A call that fails ends the pass; it may have taken effect.       *)
(***************************************************************************)
Goto(step) == pc' = step /\ succeeded' = (step = "idle")

Fail == pc' = "idle" /\ held' = NothingHeld /\ succeeded' = FALSE

Fault == faults < MaxFaults /\ faults' = faults + 1

Read(next, h) ==
  /\ \/ Goto(next) /\ held' = h /\ UNCHANGED faults
     \/ Fault /\ Fail
  /\ UNCHANGED <<inputs, cloud, cleaned, calm, edits>>

\* Azure answers with an error, or the pass itself stops.
Refused == Fail /\ UNCHANGED <<inputs, cloud, cleaned, calm, faults, edits>>

Write(effect, next, h) ==
  /\ \/ effect /\ Goto(next) /\ held' = h /\ UNCHANGED faults
     \/ Fault /\ Fail /\ (effect \/ UNCHANGED cloud)
  /\ UNCHANGED <<inputs, cleaned, calm, edits>>

SetZone == zone' = TRUE /\ UNCHANGED <<links, records>>

SetLinks(new) == links' = new /\ UNCHANGED <<zone, records>>

SetRecord(name, data) ==
  /\ records' = [records EXCEPT ![name] = data]
  /\ UNCHANGED <<zone, links>>

\* Azure links a network to a zone once, and never moves a link.
LinkConflict(name, net) ==
  \E l \in links : (l.name = name) # (l.net = net)

CreateOrUpdateRecordSet(name, data, next, h) ==
  IF zone THEN Write(SetRecord(name, data), next, h) ELSE Refused

\* Azure may answer the deletion of a link that is not there, or whose zone is not
\* there, with an error, which the client returns like any other.
NotFound(name) ==
  /\ \A l \in links : l.name # name
  /\ (IF zone THEN "link" ELSE "zone") \notin tolerated

DeleteVirtualNetworkLink(name, next, h) ==
  IF NotFound(name) THEN Refused
  ELSE Write(SetLinks({l \in links : l.name # name}), next, h)

------------------------------------------------------------------------------
(***************************************************************************)
(* Service.Reconcile.                                                      *)
(***************************************************************************)
Start ==
  /\ pc = "idle" /\ ~cleaned
  /\ Goto(IF deleting THEN "delLink" ELSE "list")
  /\ held' = [NothingHeld EXCEPT !.wish = wanted]
  /\ calm' = TRUE
  /\ UNCHANGED <<inputs, cloud, cleaned, faults, edits>>

\* ListPrivateRecordSets asks for record sets of type A.
Listed(r) == [r EXCEPT !.cname = None]

ListPrivateRecordSets ==
  /\ pc = "list"
  /\ Read(IF zone THEN "links" ELSE "createZone", [held EXCEPT !.current = Listed(records)])

CreateOrUpdatePrivateZone ==
  /\ pc = "createZone"
  /\ Write(SetZone, "links", held)

\* Wrong: a link of another name to the network is not looked for.
ListByName ==
  /\ pc = "links"
  /\ IF ~zone THEN Refused
     ELSE IF \E l \in links : l.name = OwnLink THEN Read("getZone", held)
     ELSE Read("createLink", held)

\* A link is the operator's by its name; otherwise one of another name to the
\* same network has to go first.
ListVirtualNetworkLink ==
  /\ pc = "links"
  /\ IF ~zone THEN Refused
     ELSE IF \E l \in links : l.name = OwnLink THEN Read("getZone", held)
     ELSE IF \E l \in links : l.net = Ours
          THEN \E l \in links :
                 l.net = Ours /\ Read("dropLink", [held EXCEPT !.drop = l.name])
          ELSE Read("createLink", held)

DropLink ==
  /\ pc = "dropLink"
  /\ DeleteVirtualNetworkLink(held.drop, "createLink", held)

CreateLink ==
  /\ pc = "createLink"
  /\ IF ~zone \/ LinkConflict(OwnLink, Ours) THEN Refused
     ELSE Write(SetLinks(links \union {[name |-> OwnLink, net |-> Ours]}), "getZone", held)

\* Wrong: what the zone has is not compared.
MissingAlways(name) == held.wish[name] # None

\* calculateMissingARecords, of getDesiredPrivateARecords.
Missing(name) == held.wish[name] # None /\ held.current[name] # held.wish[name]

\* getDesiredPrivateARecords has the API server before the ingress.
First(todo) == IF "apiserver" \in todo THEN "apiserver" ELSE "ingress"

\* Wrong: the wildcard is left alone when all A records are right.
AfterAOnly(todo) == IF todo # {} THEN "putA"
                    ELSE IF held.todo # {} THEN "putCname" ELSE "idle"

AfterA(todo) == IF todo # {} THEN "putA"
                ELSE IF held.current.cname # held.wish.cname THEN "putCname" ELSE "idle"

\* An error is only logged, and what it left empty dereferenced: a panic.
GetPrivateZone ==
  /\ pc = "getZone"
  /\ IF ~zone THEN Refused
     ELSE LET todo == {name \in Names : Missing(name)}
              next == AfterA(todo)
          IN Read(next, IF next = "idle" THEN NothingHeld ELSE [held EXCEPT !.todo = todo])

UpdateARecord ==
  /\ pc = "putA"
  /\ LET name == First(held.todo)
         next == AfterA(held.todo \ {name})
     IN CreateOrUpdateRecordSet(name, held.wish[name], next,
          IF next = "idle" THEN NothingHeld ELSE [held EXCEPT !.todo = @ \ {name}])

\* Wrong: the wildcard is written with the address of the ingress.
UpdateCnameWithAddress ==
  /\ pc = "putCname"
  /\ CreateOrUpdateRecordSet("cname", held.wish.ingress, "idle", NothingHeld)

UpdateCnameRecord ==
  /\ pc = "putCname"
  /\ CreateOrUpdateRecordSet("cname", held.wish.cname, "idle", NothingHeld)

------------------------------------------------------------------------------
(***************************************************************************)
(* Service.ReconcileDelete.                                                *)
(***************************************************************************)
\* Wrong: the zone is deleted first, which Azure refuses while it is linked.
DeleteLinkLater ==
  /\ pc = "delLink"
  /\ IF links # {} THEN Refused
     ELSE DeleteVirtualNetworkLink(OwnLink, "delZone", held)

DeleteLink ==
  /\ pc = "delLink"
  /\ DeleteVirtualNetworkLink(OwnLink, "delZone", held)

\* Wrong: that Azure refuses to delete the zone is logged and not returned.
DeletePrivateZoneIgnoringErrors ==
  /\ pc = "delZone"
  /\ Goto("idle") /\ held' = NothingHeld /\ cleaned' = TRUE
  /\ zone' = (links # {}) /\ records' = IF links = {} THEN Empty ELSE records
  /\ UNCHANGED <<inputs, links, calm, faults, edits>>

DeletePrivateZone ==
  /\ pc = "delZone"
  /\ IF links # {} \/ (~zone /\ "zone" \notin tolerated) THEN Refused
     ELSE /\ \/ Goto("idle") /\ held' = NothingHeld /\ cleaned' = TRUE
                /\ zone' = FALSE /\ records' = Empty /\ UNCHANGED faults
             \/ Fault /\ Fail /\ UNCHANGED cleaned
                /\ \/ zone' = FALSE /\ records' = Empty
                   \/ UNCHANGED <<zone, records>>
          /\ UNCHANGED <<inputs, links, calm, edits>>

Pass ==
  \/ ListPrivateRecordSets \/ CreateOrUpdatePrivateZone
  \/ ListVirtualNetworkLink \/ DropLink \/ CreateLink
  \/ GetPrivateZone \/ UpdateARecord \/ UpdateCnameRecord
  \/ DeleteLink \/ DeletePrivateZone

------------------------------------------------------------------------------
(***************************************************************************)
(* The others.                                                             *)
(***************************************************************************)
Edit(what) ==
  /\ what \in Edits /\ edits < MaxEdits /\ edits' = edits + 1
  /\ calm' = FALSE
  /\ UNCHANGED <<cleaned, pc, held, succeeded, faults>>

\* Azure refuses to delete a zone that is linked.
DeleteZone ==
  /\ Edit("zone") /\ zone /\ links = {}
  /\ zone' = FALSE /\ records' = Empty
  /\ UNCHANGED <<inputs, links>>

\* Somebody, CAPZ for one, adds or deletes a link.
AddLink ==
  /\ Edit("link") /\ zone
  /\ \E l \in Link : ~LinkConflict(l.name, l.net) /\ links' = links \union {l}
  /\ UNCHANGED <<inputs, zone, records>>

DeleteOtherLink ==
  /\ Edit("link")
  /\ \E l \in links : links' = links \ {l}
  /\ UNCHANGED <<inputs, zone, records>>

EditRecord ==
  /\ Edit("record") /\ zone
  /\ \E name \in DOMAIN records, data \in {None, Other} :
       records' = [records EXCEPT ![name] = data]
  /\ UNCHANGED <<inputs, zone, links>>

EditAnnotations ==
  /\ Edit("annotations")
  /\ wanted' \in {w \in Wish : w.apiserver # None \/ w.ingress # None}
  /\ UNCHANGED <<deleting, tolerated, cloud>>

DeleteCluster ==
  /\ Edit("delete") /\ ~deleting /\ deleting' = TRUE
  /\ UNCHANGED <<wanted, tolerated, cloud>>

Others ==
  \/ DeleteZone \/ AddLink \/ DeleteOtherLink \/ EditRecord
  \/ EditAnnotations \/ DeleteCluster

Next == Start \/ Pass \/ Others

Spec == Init /\ [][Next]_vars

\* Passes follow one another until the clean-up succeeds, and a pass that has
\* started goes on.
FairSpec == Spec /\ WF_vars(Start) /\ WF_vars(Pass)

------------------------------------------------------------------------------
(***************************************************************************)
(* Properties.                                                             *)
(***************************************************************************)
\* Every variable has its type (the state of privatedns.Service and its zone).
TypeOK ==
  /\ wanted \in Wish /\ deleting \in BOOLEAN /\ cleaned \in BOOLEAN
  /\ tolerated \subseteq {"link", "zone"}
  /\ zone \in BOOLEAN /\ links \subseteq Link /\ records \in Zone
  /\ pc \in PC /\ succeeded \in BOOLEAN /\ calm \in BOOLEAN
  /\ held \in [wish: Wish \union {Empty}, current: Zone,
               drop: LinkNames, todo: SUBSET Names]
  /\ faults \in 0..MaxFaults /\ edits \in 0..MaxEdits

\* The zone resolves in the network, under the operator's link.
Linked == [name |-> OwnLink, net |-> Ours] \in links

\* Nobody has taken the operator's name for a link to another network.
NameFree == \A l \in links : l.name = OwnLink => l.net = Ours

Converged ==
  /\ zone /\ Linked
  /\ \A name \in Names :
       wanted[name] # None => records[name] = wanted[name]
  /\ records.cname = wanted.cname

\* Whatever others did to the zone, its links, its records and the annotations
\* between two calls, once they leave it at that and the cluster lives on, the
\* passes of privatedns.Service end with the zone linked to the network, under
\* the operator's name, and with every record.
Converges == <>[](NameFree /\ ~deleting) => <>[]Converged

\* A pass that returned no error, undisturbed, has left nothing undone:
\* Reconcile the linked zone with every record, ReconcileDelete neither zone nor
\* the operator's link. reconcileNormal goes on to the public zone, and
\* reconcileDelete to the removal of the finalizer, on the strength of that.
SuccessIsTruthful ==
  succeeded /\ calm /\ NameFree => IF cleaned THEN ~zone /\ ~Linked ELSE Converged

\* When all is as wanted no A record is written again ("All DNS A records have
\* already been created").
ARecordsSettle == <>[]~deleting => <>[](pc # "putA")

\* ReconcileDelete comes to its end, link first and zone after it, whatever failed
\* or was lost on the way, unless somebody else's link holds the zone. Only one
\* thing can stop it for good: the link, or the zone with it, is already gone, by
\* an earlier pass or by others, and Azure says so.
DeletionCompletes ==
  <>[](deleting /\ \A l \in links : l.name = OwnLink) =>
    <>[](cleaned /\ ~zone /\ links = {}) \/ <>[](~cleaned /\ NotFound(OwnLink))

------------------------------------------------------------------------------
(***************************************************************************)
(* Refinement: what the caller of Reconcile and ReconcileDelete may rely   *)
(* on.                                                                     *)
(***************************************************************************)
Resources == {"zone", "link", "records"}
Needs == [r \in Resources |-> IF r = "zone" THEN {} ELSE {"zone"}]

\* A link is the operator's by its name, and the wildcard is written last.
Exists ==
  {r \in Resources :
     CASE r = "zone" -> zone
       [] r = "link" -> \E l \in links : l.name = OwnLink
       [] r = "records" -> records.cname # None}

Phase ==
  CASE pc \in {"delLink", "delZone"} -> "deleting"
    [] pc \notin {"delLink", "delZone", "idle"} -> "creating"
    [] pc = "idle" -> IF ~succeeded THEN "idle" ELSE IF cleaned THEN "deleted" ELSE "created"

DNS == INSTANCE DNSService WITH exists <- Exists, phase <- Phase

\* privatedns.Service implements the abstract service: zone, then link and
\* records; link, then zone with its records; success only when all is done.
ImplementsDNSService == DNS!Spec
==============================================================================
