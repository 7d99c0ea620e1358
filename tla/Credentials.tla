----------------------------- MODULE Credentials -----------------------------
(***************************************************************************)
(* In which subscription, and as whom, the operator works on the zones of  *)
(* a cluster. NewScope (pkg/infracluster/scope.go) settles subscription    *)
(* and client when a reconcile begins; each DNS service is made later,     *)
(* from an identity and a secret that are read then                        *)
(* (controllers/cluster_controller.go), and its client from both           *)
(* (newAzureClient, newPrivateDNSClient). AzureClusterIdentities, secrets  *)
(* and the management cluster's objects come and go between these reads,   *)
(* and a missing identity is an empty one, not an error.                   *)
(*                                                                         *)
(* A subscription, a client and a tenant are named after where they come   *)
(* from: the environment, an identity or the management cluster. Of a DNS  *)
(* service only its success is left, and what can keep it from succeeding  *)
(* for good: the zone, with the group the operator makes for it, exists,   *)
(* or is gone. PublicDNS and PrivateDNS have the calls of a service.       *)
(***************************************************************************)
EXTENDS Naturals

CONSTANTS
  Kinds,        \* the infrastructure kinds considered
  Types,        \* the types of AzureClusterIdentities considered
  Edits,        \* the kinds of change that others make
  MaxEdits,     \* bound: how many of them
  MaxFaults     \* bound: reads and calls that fail, or whose answer is lost

AzureCluster == "AzureCluster"
ASOManaged   == "AzureASOManagedCluster"
VSphere      == "VSphereCluster"

None   == ""
Absent == "absent"
MSI    == "UserAssignedMSI"
Manual == "ManualServicePrincipal"
Workload == "WorkloadIdentity"

AllEdits == {"identity", "secret", "management", "annotations"}

ASSUME CredentialsAssumption ==
  /\ Kinds \subseteq {AzureCluster, ASOManaged, VSphere}
  /\ Types \subseteq {MSI, Manual, Workload}
  /\ Edits \subseteq AllEdits /\ MaxEdits \in Nat /\ MaxFaults \in Nat

VARIABLES
  kind,         \* infraCluster.GetKind()
  env,          \* which of the CLUSTER_AZURE_* variables are set
  flags,        \* which parts of --azure-identity-ref are given
  shared,       \* the management cluster's group is in the cluster's subscription too
  tolerant,     \* Azure calls a missing private zone deleted
  annotations,  \* of an AzureASOManagedCluster: what they refer to
  links,        \* of an AzureCluster: the private zones its annotations ask for
  dropped,      \* history: those whose annotation was ever removed
  idents,       \* the AzureClusterIdentities: their type, or Absent
  secrets,      \* the identities whose secret exists
  mgmt,         \* the management cluster's AzureCluster and Cluster
  deleting,     \* the cluster is being deleted
  zones,        \* the zones that exist, each with its subscription
  gone,         \* reconcileDelete ran to its end
  pc, held,     \* the next read or call, and what the reconcile remembers
  calm,         \* history: since it began nobody changed anything, and no read failed
  faults, edits

config  == <<kind, env, flags, shared, tolerant>>
objects == <<annotations, links, dropped, idents, secrets, mgmt, deleting>>
azure   == <<zones, gone>>
vars    == <<config, objects, azure, pc, held, calm, faults, edits>>

Names     == {"own", "flag", "mc"}      \* identities
Sources   == Names \union {"env", None} \* where a client or tenant comes from
Private   == {"privateApi", "privateIngress"}
Stages    == Private \union {"public"}
Identity  == [name: Names, type: Types] \union {[name |-> None, type |-> None]}
Unread    == [name |-> Absent, type |-> Absent]
Zone      == [stage: Stages, sub: {"own", "env", "mc"}]

\* sub, client, tenant: of the Patcher; ref: an identity annotation was read;
\* links: the private zones that were asked for when the reconcile began; mgmt, mc:
\* managementCluster ("found", or "empty") and managementClusterIdentity of the
\* Scope; stage: the service being made; ident: its identity; deleting: this is
\* a reconcileDelete.
NothingHeld == [sub |-> None, client |-> None, tenant |-> None, ref |-> FALSE, links |-> {},
                mgmt |-> Absent, mc |-> Unread, stage |-> "public", ident |-> Unread,
                deleting |-> FALSE]

PC == {"idle", "capz", "scope", "scopeMC", "management", "identity", "secret", "capi", "use"}

\* The identities a cluster of this kind can come to use.
Usable == CASE kind = AzureCluster -> {"own", "mc"}
            [] kind = VSphere -> {"flag", "mc"}
            [] OTHER -> Names

\* What cannot matter for a kind is fixed. One flag without the other is as good as
\* none, which is tried with one kind.
Init ==
  /\ kind \in Kinds
  /\ env \in IF kind = AzureCluster THEN {{}}
             ELSE {{}, {"sub"}, {"location"}, {"sub", "client", "tenant", "location"}}
  /\ flags \in CASE kind = AzureCluster -> {{}}
               [] kind = ASOManaged -> {{}, {"name", "namespace"}}
               [] OTHER -> SUBSET {"name", "namespace"}
  /\ annotations \in IF kind = ASOManaged THEN SUBSET {"subscription", "identity"} ELSE {{}}
  /\ links \in IF kind = AzureCluster THEN SUBSET Private ELSE {{}}
  /\ shared \in IF kind = AzureCluster \/ "location" \in env THEN {TRUE} ELSE BOOLEAN
  /\ tolerant \in IF kind = AzureCluster THEN BOOLEAN ELSE {TRUE}
  /\ dropped = {}
  /\ \E type \in Types, there \in SUBSET Usable :
       idents = [name \in Names |-> IF name \in there THEN type ELSE Absent]
  /\ secrets = Usable /\ mgmt = {"AzureCluster", "Cluster"}
  /\ deleting = FALSE /\ zones = {} /\ gone = FALSE
  /\ pc = "idle" /\ held = NothingHeld /\ calm = FALSE
  /\ faults = 0 /\ edits = 0

------------------------------------------------------------------------------
(***************************************************************************)
(* Reads.                                                                  *)
(***************************************************************************)
\* azureClusterIdentity: one that is not found is empty.
AzureClusterIdentity(name) ==
  IF idents[name] = Absent THEN [name |-> None, type |-> None]
                           ELSE [name |-> name, type |-> idents[name]]

Env(what) == IF what \in env THEN "env" ELSE None

\* Both flags are needed for a reference (main.go).
ClusterIdentityRef == flags = {"name", "namespace"}

Fault == faults < MaxFaults /\ faults' = faults + 1

Goto(step, h) == pc' = step /\ held' = h /\ UNCHANGED azure

\* The reconcile ends with an error, or by a panic.
Fail == Goto("idle", NothingHeld)

\* The first service that is made, and the one after stage, as the annotations
\* read when the reconcile began ask for them.
FirstStage(asked) ==
  IF "privateApi" \in asked THEN "privateApi"
  ELSE IF "privateIngress" \in asked THEN "privateIngress" ELSE "public"

NextStage(stage) ==
  IF stage = "privateApi" /\ "privateIngress" \in held.links THEN "privateIngress" ELSE "public"

\* A private zone's service begins with the management cluster.
FirstRead(stage) == IF stage = "public" THEN "identity" ELSE "management"

MakeService(h, stage) ==
  Goto(FirstRead(stage), [h EXCEPT !.stage = stage, !.ident = Unread])

Reading == UNCHANGED <<config, objects, edits>>

------------------------------------------------------------------------------
(***************************************************************************)
(* NewScope.                                                               *)
(***************************************************************************)
\* Wrong: what is missing stays empty.
NothingIncomplete(h) == FALSE

Incomplete(h) == None \in {h.sub, h.client, h.tenant}

ScopeOrManagementCluster(h) ==
  IF Incomplete(h) THEN Goto("scopeMC", h) ELSE MakeService(h, FirstStage(h.links))

\* Cluster and infrastructure cluster are read, annotations included.
Reconcile ==
  /\ pc = "idle" /\ ~gone
  /\ LET aso == kind = ASOManaged
         h == [NothingHeld EXCEPT
                 !.sub = IF aso /\ "subscription" \in annotations THEN "own" ELSE Env("sub"),
                 !.client = Env("client"), !.tenant = Env("tenant"),
                 !.ref = aso /\ "identity" \in annotations,
                 !.links = links, !.deleting = deleting]
     IN IF kind = AzureCluster THEN Goto("capz", h)
        ELSE IF h.ref THEN Goto("scope", h) ELSE ScopeOrManagementCluster(h)
  /\ calm' = TRUE
  /\ Reading /\ UNCHANGED faults

\* CAPZ's ClusterScope needs the identity of the AzureCluster, with its secret.
NewClusterScope ==
  /\ pc = "capz"
  /\ \/ LET id == AzureClusterIdentity("own")
        IN /\ IF id.name = None \/ (id.type = Manual /\ "own" \notin secrets) THEN Fail
              ELSE MakeService([held EXCEPT !.sub = "own", !.client = "own", !.tenant = "own"],
                               FirstStage(held.links))
           /\ UNCHANGED faults
     \/ Fault /\ Fail
  /\ Reading /\ UNCHANGED calm

\* The identity an AzureASOManagedCluster refers to is read for its client.
NewScopeIdentity ==
  /\ pc = "scope"
  /\ \/ LET id == AzureClusterIdentity("own")
        IN ScopeOrManagementCluster([held EXCEPT !.client = id.name, !.tenant = id.name])
           /\ UNCHANGED faults
     \/ Fault /\ Fail
  /\ Reading /\ UNCHANGED calm

\* One value missing, and all three come from the management cluster: its
\* AzureCluster (a missing one is empty and refers to no identity), and then
\* the identity, taken as one read here.
NewScopeManagementCluster ==
  /\ pc = "scopeMC"
  /\ \/ /\ IF "AzureCluster" \notin mgmt THEN Fail
           ELSE LET id == AzureClusterIdentity("mc")
                IN MakeService([held EXCEPT !.sub = "mc", !.client = id.name,
                                            !.tenant = id.name, !.mgmt = "found", !.mc = id],
                               FirstStage(held.links))
        /\ UNCHANGED faults
     \/ Fault /\ Fail
  /\ Reading /\ UNCHANGED calm

------------------------------------------------------------------------------
(***************************************************************************)
(* getDnsServiceForPublicRecords, getPrivateDnsServiceForMcToWcApi and     *)
(* getPrivateDnsServiceForWcToMcIngress.                                   *)
(***************************************************************************)
\* Scope.ManagementCluster: read once in a reconcile, and empty if not found.
ManagementCluster ==
  IF held.mgmt # Absent THEN held.mgmt
  ELSE IF "AzureCluster" \in mgmt THEN "found" ELSE "empty"

GetManagementCluster ==
  /\ pc = "management"
  /\ \/ Goto("identity", [held EXCEPT !.mgmt = ManagementCluster]) /\ UNCHANGED faults
     \/ held.mgmt = Absent /\ Fault /\ Fail
  /\ Reading /\ UNCHANGED calm

\* Scope.ManagementClusterIdentity: read once as well; an empty management
\* cluster refers to none.
ManagementClusterIdentity ==
  IF held.mc # Unread THEN Goto("secret", [held EXCEPT !.ident = held.mc])
  ELSE IF ManagementCluster = "empty" THEN Fail
  ELSE LET id == AzureClusterIdentity("mc")
       IN Goto("secret", [held EXCEPT !.ident = id, !.mgmt = "found", !.mc = id])

\* Wrong: the identity of the flags goes before the one a cluster refers to.
InfraClusterIdentityOfFlags ==
  IF kind = AzureCluster THEN {"own"}
  ELSE IF ClusterIdentityRef THEN {"flag"}
  ELSE IF held.ref THEN {"own"} ELSE {}

\* Scope.InfraClusterIdentity: whose identity is read, if any.
InfraClusterIdentity ==
  IF kind = AzureCluster \/ held.ref THEN {"own"}
  ELSE IF ClusterIdentityRef THEN {"flag"} ELSE {}

\* A read that fails falls back to the management cluster's identity, except
\* for the one an annotation refers to.
GetIdentity ==
  /\ pc = "identity"
  /\ LET names == IF held.stage = "privateApi" THEN {} ELSE InfraClusterIdentity
     IN \/ /\ IF names = {} THEN ManagementClusterIdentity
              ELSE \E name \in names :
                     Goto("secret", [held EXCEPT !.ident = AzureClusterIdentity(name)])
           /\ UNCHANGED <<faults, calm>>
        \/ /\ names # {} \/ held.mc = Unread
           /\ Fault /\ calm' = FALSE
           /\ IF names = {} \/ held.ref THEN Fail ELSE ManagementClusterIdentity
  /\ Reading

AfterSecret == IF held.stage = "privateIngress" THEN "capi" ELSE "use"

\* Wrong: a private zone whose service cannot be made is passed over.
GetSecretOrSkip ==
  /\ pc = "secret"
  /\ IF held.ident.type # Manual \/ held.ident.name \in secrets
     THEN Goto(AfterSecret, held)
     ELSE IF held.stage = "public" THEN Fail ELSE MakeService(held, NextStage(held.stage))
  /\ Reading /\ UNCHANGED <<calm, faults>>

\* Wrong: a secret is asked for whatever the type of the identity.
GetSecretAlways ==
  /\ pc = "secret"
  /\ IF held.ident.name \in secrets THEN Goto(AfterSecret, held) ELSE Fail
  /\ Reading /\ UNCHANGED <<calm, faults>>

\* A missing secret is an error, or leaves a private service nil and no error:
\* the call on it panics.
GetSecret ==
  /\ pc = "secret"
  /\ \/ /\ IF held.ident.type # Manual \/ held.ident.name \in secrets
           THEN Goto(AfterSecret, held) ELSE Fail
        /\ UNCHANGED faults
     \/ held.ident.type = Manual /\ Fault /\ Fail
  /\ Reading /\ UNCHANGED calm

\* The management cluster's Cluster, which has the name of its AzureCluster.
GetManagementCAPICluster ==
  /\ pc = "capi"
  /\ \/ /\ IF held.mgmt = "found" /\ "Cluster" \in mgmt THEN Goto("use", held) ELSE Fail
        /\ UNCHANGED faults
     \/ Fault /\ Fail
  /\ Reading /\ UNCHANGED calm

------------------------------------------------------------------------------
(***************************************************************************)
(* newAzureClient and newPrivateDNSClient, and the service at work.        *)
(***************************************************************************)
\* As whom the client authenticates. Only the managed identity of the public
\* client is known by the Patcher's client ID; an empty identity is nobody.
Credential ==
  IF held.stage = "public" /\ held.ident.type = MSI THEN held.client ELSE held.ident.name

Client == [sub |-> CASE held.stage = "public" -> held.sub
                     [] held.stage = "privateApi" -> "mc"
                     [] OTHER -> "own",
           cred |-> Credential]

\* The role assignments the README asks for. Whether an identity may work in
\* another subscription is left open.
Granted == {[sub |-> "own", cred |-> "own"], [sub |-> "mc", cred |-> "mc"],
            [sub |-> "env", cred |-> "env"], [sub |-> "env", cred |-> "flag"]}

\* A new group needs a location: the one that is set, or that of the management
\* cluster's group, which is looked up with this client (resourcegroup.go:27-42).
Located ==
  \/ "location" \in env
  \/ ManagementCluster = "found" /\ (Client.sub = "mc" \/ shared)

\* Wrong: a public zone that is already gone is an error.
WorkOnExisting(next) ==
  LET zone == [stage |-> held.stage, sub |-> Client.sub]
  IN IF held.deleting /\ held.stage = "public" /\ zone \notin zones THEN Fail
     ELSE /\ zones' = IF held.deleting THEN zones \ {zone} ELSE zones \union {zone}
          /\ next

\* Reconcile makes the zone, in a group made for it unless CAPZ has made one;
\* ReconcileDelete removes both. That a private zone is already gone may be an
\* error of Azure's, which it returns; of a group it is none.
Work(next) ==
  LET zone == [stage |-> held.stage, sub |-> Client.sub]
      impossible == IF held.stage = "public"
                    THEN ~held.deleting /\ kind # AzureCluster /\ ~Located
                    ELSE held.deleting /\ ~tolerant
  IN IF zone \notin zones /\ impossible THEN Fail
     ELSE /\ zones' = IF held.deleting THEN zones \ {zone} ELSE zones \union {zone}
          /\ next

Proceed ==
  IF held.stage = "public"
  THEN pc' = "idle" /\ held' = NothingHeld /\ gone' = held.deleting
  ELSE /\ pc' = FirstRead(NextStage(held.stage)) /\ UNCHANGED gone
       /\ held' = [held EXCEPT !.stage = NextStage(@), !.ident = Unread]

UseService ==
  /\ pc = "use"
  /\ \/ Credential # None /\ Work(Proceed) /\ UNCHANGED faults
     \/ Client \notin Granted /\ Fail /\ UNCHANGED faults         \* refused
     \/ Fault /\ Fail                                             \* never arrived
     \/ Fault /\ Credential # None                                \* answer lost
        /\ Work(pc' = "idle" /\ held' = NothingHeld /\ UNCHANGED gone)
  /\ Reading /\ UNCHANGED calm

Step ==
  \/ NewClusterScope \/ NewScopeIdentity \/ NewScopeManagementCluster
  \/ GetManagementCluster \/ GetIdentity \/ GetSecret \/ GetManagementCAPICluster \/ UseService

------------------------------------------------------------------------------
(***************************************************************************)
(* The others.                                                             *)
(***************************************************************************)
Edit(what) ==
  /\ what \in Edits /\ edits < MaxEdits /\ edits' = edits + 1
  /\ calm' = FALSE
  /\ UNCHANGED <<config, azure, pc, held, faults>>

EditIdentity ==
  /\ Edit("identity")
  /\ \E name \in Usable, type \in Types \union {Absent} :
       idents[name] # type /\ idents' = [idents EXCEPT ![name] = type]
  /\ UNCHANGED <<annotations, links, dropped, secrets, mgmt, deleting>>

EditSecret ==
  /\ Edit("secret")
  /\ \E name \in Usable :
       secrets' \in {secrets \ {name}, secrets \union {name}} \ {secrets}
  /\ UNCHANGED <<annotations, links, dropped, idents, mgmt, deleting>>

EditManagementCluster ==
  /\ Edit("management")
  /\ mgmt' \in SUBSET {"AzureCluster", "Cluster"} \ {mgmt}
  /\ UNCHANGED <<annotations, links, dropped, idents, secrets, deleting>>

EditAnnotations ==
  /\ Edit("annotations")
  /\ \/ /\ kind = ASOManaged
        /\ annotations' \in SUBSET {"subscription", "identity"} \ {annotations}
        /\ UNCHANGED <<links, dropped>>
     \/ /\ kind = AzureCluster
        /\ links' \in SUBSET Private \ {links}
        /\ dropped' = dropped \union (links \ links')
        /\ UNCHANGED annotations
  /\ UNCHANGED <<idents, secrets, mgmt, deleting>>

\* A reconcile looks at the deletion timestamp once, when it begins.
DeleteCluster ==
  /\ ~deleting /\ deleting' = TRUE
  /\ UNCHANGED <<config, annotations, links, dropped, idents, secrets, mgmt, azure, pc, held,
                 calm, faults, edits>>

Others ==
  \/ EditIdentity \/ EditSecret \/ EditManagementCluster \/ EditAnnotations
  \/ DeleteCluster

Next == Reconcile \/ Step \/ Others

Spec == Init /\ [][Next]_vars

\* Reconciles follow one another, and one that has started goes on.
FairSpec == Spec /\ WF_vars(Reconcile) /\ WF_vars(Step)

------------------------------------------------------------------------------
(***************************************************************************)
(* Properties.                                                             *)
(***************************************************************************)
\* Every variable has its type; every zone is in a subscription (NewScope,
\* newAzureClient).
TypeOK ==
  /\ kind \in Kinds /\ env \subseteq {"sub", "client", "tenant", "location"}
  /\ flags \subseteq {"name", "namespace"} /\ shared \in BOOLEAN /\ tolerant \in BOOLEAN
  /\ annotations \subseteq {"subscription", "identity"}
  /\ links \subseteq Private /\ dropped \subseteq Private
  /\ idents \in [Names -> Types \union {Absent}] /\ secrets \subseteq Names
  /\ mgmt \subseteq {"AzureCluster", "Cluster"}
  /\ deleting \in BOOLEAN /\ gone \in BOOLEAN /\ calm \in BOOLEAN
  /\ zones \subseteq Zone
  /\ pc \in PC
  /\ held \in [sub: Sources, client: Sources, tenant: Sources, ref: BOOLEAN,
               links: SUBSET Private, mgmt: {Absent, "found", "empty"},
               mc: Identity \union {Unread}, stage: Stages,
               ident: Identity \union {Unread}, deleting: BOOLEAN]
  /\ faults \in 0..MaxFaults /\ edits \in 0..MaxEdits

\* The set-ups README.md describes: both annotations for AKS clusters (26, 35-41);
\* for non-Azure clusters the management cluster's credentials, or both flags
\* and the subscription's details, the location among them (163-166).
Documented ==
  /\ kind = ASOManaged => annotations = {"subscription", "identity"}
  /\ kind = VSphere =>
       (flags = {} /\ env = {}) \/ (ClusterIdentityRef /\ env = {"sub", "client", "tenant", "location"})

\* The subscription and the credentials README.md promises for a zone.
Expected(stage) ==
  IF stage = "privateApi" THEN [sub |-> {"mc"}, cred |-> {"mc"}]
  ELSE IF stage = "privateIngress" \/ kind # VSphere THEN [sub |-> {"own"}, cred |-> {"own"}]
  ELSE IF ClusterIdentityRef THEN [sub |-> {"env"}, cred |-> {"env", "flag"}]
  ELSE [sub |-> {"mc"}, cred |-> {"mc"}]

\* In a documented set-up a reconcile that nobody disturbs works on every zone
\* in the promised subscription and as the promised client, or as nobody:
\* NewScope's values and the identity read afterwards fit together.
RightClient ==
  pc = "use" /\ calm /\ Documented /\ Credential # None
    => Client.sub \in Expected(held.stage).sub /\ Client.cred \in Expected(held.stage).cred

\* reconcileDelete comes to its end only when it has removed what was created:
\* a secret or identity that is missing, a management cluster that is not
\* found, or a fallback to other credentials never makes it pass over a zone.
\* It passes over those only whose annotation somebody has removed, and never
\* over the public one. (An AzureASOManagedCluster can change its subscription.)
CleanupFindsAll == gone /\ kind # ASOManaged => \A z \in zones : z.stage \in dropped

Wanted == links \union {"public"}

\* The identities a reconcile needs, and the management cluster, are there.
CredentialsThere ==
  /\ \A stage \in Wanted :
       \A name \in Expected(stage).cred \ {"env"} :
         idents[name] # Absent /\ (idents[name] = Manual => name \in secrets)
  /\ "mc" \in UNION {Expected(stage).sub : stage \in Wanted} => "AzureCluster" \in mgmt
  /\ "privateIngress" \in links => mgmt = {"AzureCluster", "Cluster"}

\* And a new group has a location.
LocationThere ==
  \/ kind = AzureCluster \/ "location" \in env
  \/ "AzureCluster" \in mgmt /\ (shared \/ Expected("public").sub = {"mc"})

Available == CredentialsThere /\ LocationThere

\* Whatever was missing, failed or panicked before, once the objects of a
\* documented set-up are there, with a location, every zone is made where it
\* belongs.
EventuallyThere ==
  <>[](Documented /\ Available /\ ~deleting)
    => <>[](\A stage \in Wanted : \E sub \in Expected(stage).sub :
              [stage |-> stage, sub |-> sub] \in zones)

\* And once the cluster is being deleted, the clean-up comes to its end. Only one
\* thing can stop it for good: a private zone that is not there, removed by an
\* earlier reconcile or never made, of which Azure says so.
EventuallyGone ==
  <>[](Documented /\ CredentialsThere /\ deleting)
    => <>gone \/ <>[](~tolerant /\ \E stage \in links : \A z \in zones : z.stage # stage)

\* The finalizer is there "to avoid orphaning Azure resources on delete"
\* (controllers/cluster_controller.go:146): once it is removed no zone is left.
NothingOrphaned == gone => zones = {}

\* For AKS clusters "the zone is created in the Azure subscription referenced by the
\* giantswarm.io/azure-subscription-id annotation" (README.md:26), and subscription
\* and identity are all that they have to give (35-41).
AKSZoneCreated ==
  <>[](kind = ASOManaged /\ Documented /\ CredentialsThere /\ ~deleting)
    => <>([stage |-> "public", sub |-> "own"] \in zones)

\* "The zone is created in the Azure subscription referenced by the
\* giantswarm.io/azure-subscription-id annotation on the Cluster object"
\* (README.md:26).
RightSubscription ==
  kind = ASOManaged /\ Documented => \A zone \in zones : zone.sub = "own"
==============================================================================
