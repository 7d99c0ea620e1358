-------------------------- MODULE CredentialsProofs --------------------------
(***************************************************************************)
(* Theorems about Credentials, for every choice of kinds, identity types   *)
(* and edits and every bound on edits and faults.                          *)
(***************************************************************************)
EXTENDS Credentials, TLAPS

USE DEF AzureCluster, ASOManaged, VSphere

------------------------------------------------------------------------------
(***************************************************************************)
(* The inductive invariant.                                                *)
(***************************************************************************)
\* NewScope is done and a DNS service is being made.
Making == {"management", "identity", "secret", "capi", "use"}

\* The private zones that the reconcile under way, or the next one, looks for: those
\* asked for when it began.
Asked == IF pc = "idle" THEN links ELSE held.links

\* An annotation that has been read is still there, or was removed since.
Annotated ==
  /\ Asked \subseteq links \union dropped
  /\ kind # AzureCluster => links = {} /\ Asked = {}

\* The environment has the subscription, its client and its tenant.
FullEnv == {"sub", "client", "tenant"} \subseteq env

\* Nobody has touched the objects of a documented AzureASOManagedCluster.
CalmASO == calm /\ Documented /\ kind = ASOManaged

\* What NewScope settles. The identity an AzureASOManagedCluster refers to may be
\* missing; then everything comes from the management cluster.
Settled ==
  /\ held.sub # None
  /\ kind = AzureCluster => held.sub = "own" /\ held.client = "own"
  /\ kind = VSphere /\ FullEnv => held.sub = "env" /\ held.client = "env"
  /\ kind = VSphere /\ ~FullEnv =>
       held.sub = "mc" /\ held.client \in {"mc", None} /\ held.mc # Unread
  /\ CalmASO => (held.sub = "own" /\ held.client = "own") \/ idents["own"] = Absent

\* How far NewScope has come.
Scoped ==
  /\ held.sub \in {"own", "env", "mc", None}
  /\ held.mc # Unread => held.mc.name \in {"mc", None}
  /\ held.ref => kind = ASOManaged
  /\ pc # "idle" /\ CalmASO => held.ref
  /\ pc = "capz" => kind = AzureCluster
  /\ pc = "scope" => held.ref /\ (CalmASO => held.sub = "own")
  /\ pc = "scopeMC" =>
       /\ kind # AzureCluster /\ (kind = VSphere => ~FullEnv)
       /\ CalmASO => idents["own"] = Absent
  /\ pc \in Making => Settled

\* The identity a service is made from; it is still the same in calm.
Identified ==
  pc \in {"secret", "capi", "use"} =>
    /\ held.stage = "privateApi" => held.ident.name \in {"mc", None}
    /\ calm /\ held.stage # "privateApi" /\ InfraClusterIdentity = {} =>
         held.ident.name \in {"mc", None}
    /\ calm /\ held.stage # "privateApi" =>
         \A name \in InfraClusterIdentity : held.ident = AzureClusterIdentity(name)

\* Where the zones of a cluster are that does not choose its subscription.
SubOf(stage) ==
  IF stage = "privateApi" THEN "mc"
  ELSE IF stage = "privateIngress" \/ kind = AzureCluster THEN "own"
  ELSE IF FullEnv THEN "env" ELSE "mc"

\* The order of the services in a reconcile.
Before(stage, other) ==
  stage # other /\ (stage = "privateApi" \/ other = "public")

\* A zone that is looked for, or whose annotation was removed, in its place.
Known(z, asked) ==
  z.stage \in asked \union dropped \union {"public"} /\ z.sub = SubOf(z.stage)

\* Zones are where the next reconcile looks for them, if it looks for them at all,
\* and one that deletes has removed those of the services before this one.
Cleaning ==
  /\ gone => pc = "idle"
  /\ pc \in Making => held.stage \in held.links \union {"public"}
  /\ kind # ASOManaged =>
       /\ \A z \in zones : Known(z, Asked)
       /\ pc \in Making /\ held.deleting =>
            \A z \in zones : Before(z.stage, held.stage) => z.stage \in dropped
       /\ gone => \A z \in zones : z.stage \in dropped

CredInv == TypeOK /\ Annotated /\ Scoped /\ Identified /\ Cleaning
------------------------------------------------------------------------------
(***************************************************************************)
(* What the reads return, and the order of the services.                   *)
(***************************************************************************)
Held == [sub: Sources, client: Sources, tenant: Sources, ref: BOOLEAN,
         links: SUBSET Private, mgmt: {Absent, "found", "empty"},
         mc: Identity \union {Unread}, stage: Stages,
         ident: Identity \union {Unread}, deleting: BOOLEAN]

\* Between two reconciles nothing is held.
LEMMA NothingHeldType == NothingHeld \in Held
BY DEF NothingHeld, Held, Sources, Stages

\* azureClusterIdentity returns the identity asked for, or an empty one.
LEMMA IdentityRead ==
  ASSUME TypeOK, NEW name \in Names
  PROVE  /\ AzureClusterIdentity(name) \in Identity
         /\ AzureClusterIdentity(name) # Unread
         /\ AzureClusterIdentity(name).name = IF idents[name] = Absent THEN None ELSE name
         /\ idents[name] = Absent => AzureClusterIdentity(name).type = None
<1>1. CASE idents[name] = Absent
  BY <1>1 DEF AzureClusterIdentity, Identity, Unread, None, Absent
<1>2. CASE idents[name] # Absent
  <2>1. idents[name] \in Types
    BY <1>2 DEF TypeOK
  <2>2. AzureClusterIdentity(name) = [name |-> name, type |-> idents[name]]
    BY <1>2 DEF AzureClusterIdentity
  <2>3. name # Absent
    BY DEF Names, Absent
  <2> QED BY <1>2, <2>1, <2>2, <2>3 DEF Identity, Unread
<1> QED BY <1>1, <1>2

\* The first service comes before every other that is asked for.
LEMMA FirstStageFirst ==
  ASSUME NEW asked \in SUBSET Private
  PROVE  /\ FirstStage(asked) \in asked \union {"public"} /\ FirstStage(asked) \in Stages
         /\ \A stage \in asked \union {"public"} : ~Before(stage, FirstStage(asked))
BY DEF FirstStage, Before, Private, Stages

\* And none lies between a private service and the next one.
LEMMA NextStageNext ==
  ASSUME held.links \in SUBSET Private, NEW stage \in held.links
  PROVE  /\ NextStage(stage) \in held.links \union {"public"} /\ NextStage(stage) \in Stages
         /\ \A other \in held.links \union {"public"} :
              other # stage /\ Before(other, NextStage(stage)) => Before(other, stage)
BY DEF NextStage, Before, Private, Stages

------------------------------------------------------------------------------
(***************************************************************************)
(* Ways a step can end.                                                    *)
(***************************************************************************)
\* The bound on faults is kept.
LEMMA FaultsType ==
  ASSUME TypeOK, UNCHANGED faults \/ Fault
  PROVE  faults' \in 0..MaxFaults
BY CredentialsAssumption DEF TypeOK, Fault

\* A step of a reconcile that keeps what it holds well typed keeps all types.
LEMMA StepType ==
  ASSUME TypeOK, Reading, UNCHANGED faults \/ Fault, pc' \in PC, held' \in Held,
         calm' \in BOOLEAN, zones' \subseteq Zone, gone' \in BOOLEAN
  PROVE  TypeOK'
<1>1. faults' \in 0..MaxFaults
  BY FaultsType
<1> QED BY <1>1 DEF TypeOK, Reading, config, objects, Held

\* The set-up stays, and with it what is derived from it.
LEMMA ConfigStays ==
  ASSUME UNCHANGED config
  PROVE  /\ UNCHANGED kind /\ (FullEnv' <=> FullEnv)
         /\ \A stage : SubOf(stage)' = SubOf(stage)
BY DEF FullEnv, SubOf, config

\* A reconcile that ends leaves nothing to be wrong about, as long as the zones
\* are where they are looked for.
LEMMA EndInv ==
  ASSUME CredInv, TypeOK', Reading, pc' = "idle", held' = NothingHeld,
         kind # ASOManaged =>
           /\ \A z \in zones' : Known(z, Asked)
           /\ gone' => \A z \in zones' : z.stage \in dropped
  PROVE  CredInv'
<1>1. UNCHANGED <<kind, links, dropped, config>>
  BY DEF Reading, config, objects
<1>2. Annotated'
  BY <1>1 DEF CredInv, Annotated, Asked
<1>3. Scoped'
  BY DEF Scoped, NothingHeld, None, Unread, Making
<1>4. Identified'
  BY DEF Identified
<1>5. kind # ASOManaged => \A z \in zones' : Known(z, links)
  BY DEF CredInv, Annotated, Known
<1>6. Asked' = links
  BY <1>1 DEF Asked
<1>7. kind # ASOManaged => \A z \in zones' : Known(z, Asked)'
  BY <1>1, <1>5, <1>6, ConfigStays DEF Known
<1>8. Cleaning'
  BY <1>1, <1>7 DEF Cleaning, Making
<1> QED BY <1>2, <1>3, <1>4, <1>8 DEF CredInv

\* A reconcile that fails.
LEMMA FailInv ==
  ASSUME CredInv, Fail, Reading, UNCHANGED faults \/ Fault, calm' \in BOOLEAN
  PROVE  CredInv'
<1>1. pc' = "idle" /\ held' = NothingHeld /\ zones' = zones /\ gone' = gone
  BY DEF Fail, Goto, azure
<1>2. TypeOK'
  BY <1>1, NothingHeldType, StepType DEF CredInv, TypeOK, PC
<1>3. kind # ASOManaged =>
        /\ \A z \in zones' : Known(z, Asked)
        /\ gone' => \A z \in zones' : z.stage \in dropped
  BY <1>1 DEF CredInv, Cleaning
<1> QED BY <1>1, <1>2, <1>3, EndInv

\* The next service is about to be made.
LEMMA MakeInv ==
  ASSUME CredInv, TypeOK', Reading, pc' \in {"identity", "management"}, ~gone',
         Settled', held'.ref => kind = ASOManaged, CalmASO' => held'.ref,
         held'.mc # Unread => held'.mc.name \in {"mc", None},
         held'.sub \in {"own", "env", "mc", None},
         held'.links = Asked, held'.stage \in Asked \union {"public"},
         kind # ASOManaged =>
           /\ \A z \in zones' : Known(z, Asked)
           /\ held'.deleting =>
                \A z \in zones' : Before(z.stage, held'.stage) => z.stage \in dropped
  PROVE  CredInv'
<1>1. UNCHANGED <<kind, links, dropped, config>>
  BY DEF Reading, config, objects
<1>2. Asked' = Asked /\ Asked' = held'.links
  BY DEF Asked
<1>3. Annotated'
  BY <1>1, <1>2 DEF CredInv, Annotated
<1>4. Scoped'
  BY <1>1 DEF Scoped, Making
<1>5. Identified'
  BY DEF Identified
<1>6. kind # ASOManaged => \A z \in zones' : Known(z, Asked)'
  BY <1>1, <1>2, ConfigStays DEF Known
<1>7. Cleaning'
  BY <1>1, <1>2, <1>6 DEF Cleaning, Making, Before
<1> QED BY <1>3, <1>4, <1>5, <1>7 DEF CredInv

------------------------------------------------------------------------------
(***************************************************************************)
(* NewScope.                                                               *)
(***************************************************************************)
\* What MakeService holds.
LEMMA MakeServiceHolds ==
  ASSUME NEW h \in Held, NEW stage \in Stages, MakeService(h, stage)
  PROVE  /\ held' \in Held /\ pc' \in {"identity", "management"}
         /\ held'.sub = h.sub /\ held'.client = h.client /\ held'.ref = h.ref
         /\ held'.mc = h.mc /\ held'.deleting = h.deleting /\ held'.stage = stage
         /\ held'.links = h.links /\ zones' = zones /\ gone' = gone
<1>1. held' = [h EXCEPT !.stage = stage, !.ident = Unread] /\ pc' = FirstRead(stage)
      /\ zones' = zones /\ gone' = gone
  BY DEF MakeService, Goto, azure
<1>2. pc' \in {"identity", "management"}
  BY <1>1 DEF FirstRead
<1>3. held' \in Held
  BY <1>1 DEF Held
<1>4. /\ held'.sub = h.sub /\ held'.client = h.client /\ held'.ref = h.ref
      /\ held'.mc = h.mc /\ held'.deleting = h.deleting /\ held'.stage = stage
      /\ held'.links = h.links
  BY <1>1 DEF Held
<1> QED BY <1>1, <1>2, <1>3, <1>4

\* NewScope is done: the first service is about to be made.
LEMMA FirstServiceInv ==
  ASSUME CredInv, ~gone, Reading, UNCHANGED faults \/ Fault, calm' \in BOOLEAN,
         NEW h \in Held, MakeService(h, FirstStage(h.links)), Settled', h.links = Asked,
         h.ref => kind = ASOManaged, CalmASO' => h.ref,
         h.mc # Unread => h.mc.name \in {"mc", None},
         h.sub \in {"own", "env", "mc", None}
  PROVE  CredInv'
<1> DEFINE first == FirstStage(h.links)
<1>1. /\ first \in Asked \union {"public"} /\ first \in Stages
      /\ \A stage \in Asked \union {"public"} : ~Before(stage, first)
  <2>1. h.links \in SUBSET Private
    BY DEF Held
  <2> QED BY <2>1, FirstStageFirst
<1> HIDE DEF first
<1>2. /\ held' \in Held /\ pc' \in {"identity", "management"}
      /\ held'.sub = h.sub /\ held'.ref = h.ref
      /\ held'.mc = h.mc /\ held'.stage = first /\ held'.links = Asked
      /\ zones' = zones /\ gone' = gone
  BY <1>1, MakeServiceHolds DEF first
<1>3. TypeOK'
  BY <1>2, StepType DEF CredInv, TypeOK, PC
<1>4. kind # ASOManaged =>
        /\ \A z \in zones' : Known(z, Asked)
        /\ \A z \in zones' : Before(z.stage, held'.stage) => z.stage \in dropped
  BY <1>1, <1>2 DEF CredInv, Cleaning, Known
<1> QED BY <1>1, <1>2, <1>3, <1>4, MakeInv

\* NewScope goes on with another read.
LEMMA ScopeReadInv ==
  ASSUME CredInv, ~gone, Reading, UNCHANGED faults \/ Fault, calm' \in BOOLEAN,
         NEW h \in Held, NEW step \in {"capz", "scope", "scopeMC"}, Goto(step, h),
         h.links = Asked, Scoped'
  PROVE  CredInv'
<1>1. pc' = step /\ held' = h /\ zones' = zones /\ gone' = gone
  BY DEF Goto, azure
<1>2. TypeOK'
  BY <1>1, StepType DEF CredInv, TypeOK, PC
<1>3. UNCHANGED <<kind, links, dropped, config>>
  BY DEF Reading, config, objects
<1>4. Asked' = Asked
  BY <1>1 DEF Asked
<1>5. Annotated'
  BY <1>3, <1>4 DEF CredInv, Annotated
<1>6. Identified'
  BY <1>1 DEF Identified
<1>7. kind # ASOManaged => \A z \in zones' : Known(z, Asked)'
  BY <1>1, <1>3, <1>4, ConfigStays DEF CredInv, Cleaning, Known
<1>8. Cleaning'
  BY <1>1, <1>3, <1>7 DEF Cleaning, Making
<1> QED BY <1>2, <1>5, <1>6, <1>8 DEF CredInv

\* Something is missing, and the management cluster is read next.
LEMMA ScopeMCInv ==
  ASSUME CredInv, ~gone, Reading, UNCHANGED faults \/ Fault, calm' \in BOOLEAN,
         NEW h \in Held, Goto("scopeMC", h), h.links = Asked,
         kind # AzureCluster, kind = VSphere => ~FullEnv,
         h.ref => kind = ASOManaged, CalmASO' => h.ref /\ idents["own"] = Absent,
         h.mc # Unread => h.mc.name \in {"mc", None},
         h.sub \in {"own", "env", "mc", None}
  PROVE  CredInv'
<1>1. pc' = "scopeMC" /\ held' = h
  BY DEF Goto
<1>2. UNCHANGED <<kind, idents>> /\ (FullEnv' <=> FullEnv)
  BY ConfigStays DEF Reading, config, objects
<1>3. Scoped'
  BY <1>1, <1>2 DEF Scoped, Making
<1> QED BY <1>3, ScopeReadInv

\* What a reconcile begins with is of the type of what it holds.
LEMMA BeginType ==
  ASSUME NEW sub \in Sources, NEW client \in Sources, NEW tenant \in Sources,
         NEW ref \in BOOLEAN, NEW asked \in SUBSET Private, NEW del \in BOOLEAN
  PROVE  [NothingHeld EXCEPT !.sub = sub, !.client = client, !.tenant = tenant, !.ref = ref,
                             !.links = asked, !.deleting = del] \in Held
BY NothingHeldType DEF Held

\* A reconcile looks at annotations and environment first.
LEMMA ReconcileInv ==
  ASSUME CredInv, Reconcile
  PROVE  CredInv'
<1> DEFINE aso == kind = ASOManaged
           h == [NothingHeld EXCEPT
                   !.sub = IF aso /\ "subscription" \in annotations THEN "own" ELSE Env("sub"),
                   !.client = Env("client"), !.tenant = Env("tenant"),
                   !.ref = aso /\ "identity" \in annotations,
                   !.links = links, !.deleting = deleting]
<1>0. /\ ~gone /\ Reading /\ UNCHANGED faults /\ calm' = TRUE /\ Asked = links
      /\ IF kind = AzureCluster THEN Goto("capz", h)
         ELSE IF h.ref THEN Goto("scope", h) ELSE ScopeOrManagementCluster(h)
  BY DEF Reconcile, Asked
<1>1. h \in Held
  <2>1. deleting \in BOOLEAN /\ links \in SUBSET Private
    BY DEF CredInv, TypeOK
  <2>2. /\ (IF aso /\ "subscription" \in annotations THEN "own" ELSE Env("sub")) \in Sources
        /\ Env("client") \in Sources /\ Env("tenant") \in Sources
    BY DEF Sources, Names, Env
  <2>3. (aso /\ "identity" \in annotations) \in BOOLEAN
    OBVIOUS
  <2> QED BY <2>1, <2>2, <2>3, BeginType
<1>2. /\ h.sub = IF aso /\ "subscription" \in annotations THEN "own" ELSE Env("sub")
      /\ h.client = Env("client") /\ h.tenant = Env("tenant")
      /\ h.mc = Unread /\ h.links = links
      /\ h.ref <=> (aso /\ "identity" \in annotations)
  BY DEF NothingHeld
<1> HIDE DEF h
<1>3. h.sub \in {"own", "env", "mc", None}
  BY <1>2 DEF Env
<1>4. CalmASO' => aso /\ annotations = {"subscription", "identity"}
  BY <1>0 DEF CalmASO, Documented, Reading, config, objects
<1>5. UNCHANGED config /\ UNCHANGED kind
  BY <1>0 DEF Reading, config
<1>6. FullEnv' <=> FullEnv
  BY <1>5, ConfigStays
<1>7. ASSUME NEW step \in {"capz", "scope"}, Goto(step, h),
             step = "capz" => kind = AzureCluster, step = "scope" => h.ref
      PROVE  CredInv'
  <2>1. pc' = step /\ held' = h
    BY <1>7 DEF Goto
  <2>2. Scoped'
    BY <1>2, <1>3, <1>4, <1>5, <1>7, <2>1 DEF Scoped, Making, CalmASO
  <2>3. step \in {"capz", "scope", "scopeMC"}
    OBVIOUS
  <2> QED BY <1>0, <1>1, <1>2, <1>7, <2>2, <2>3, ScopeReadInv
<1>8. CASE kind = AzureCluster
  BY <1>0, <1>7, <1>8
<1>9. CASE kind # AzureCluster /\ h.ref
  BY <1>0, <1>7, <1>9
<1>10. CASE kind # AzureCluster /\ ~h.ref
  <2>0. ~CalmASO' /\ ScopeOrManagementCluster(h)
    BY <1>0, <1>2, <1>4, <1>10
  <2>1. CASE Incomplete(h)
    <3>1. kind = VSphere => ~FullEnv
      BY <1>2, <2>1 DEF Incomplete, FullEnv, Env, None
    <3> QED
      BY <1>0, <1>1, <1>2, <1>3, <1>10, <2>0, <2>1, <3>1, ScopeMCInv
         DEF ScopeOrManagementCluster
  <2>2. CASE ~Incomplete(h)
    <3>1. MakeService(h, FirstStage(h.links))
      BY <2>0, <2>2 DEF ScopeOrManagementCluster
    <3>2. FirstStage(h.links) \in Stages
      BY <1>1, FirstStageFirst DEF Held
    <3>3. held'.sub = h.sub /\ held'.client = h.client
      BY <1>1, <3>1, <3>2, MakeServiceHolds
    <3>4. h.sub # None /\ h.client # None /\ h.tenant # None
      BY <2>2 DEF Incomplete
    <3>5. kind = VSphere => FullEnv /\ h.sub = "env" /\ h.client = "env"
      BY <1>2, <3>4 DEF FullEnv, Env
    <3>6. Settled'
      BY <1>5, <1>6, <1>10, <2>0, <3>3, <3>4, <3>5 DEF Settled
    <3> QED BY <1>0, <1>1, <1>2, <1>3, <1>10, <2>0, <3>1, <3>6, FirstServiceInv
  <2> QED BY <2>1, <2>2
<1> QED BY <1>8, <1>9, <1>10

\* CAPZ's ClusterScope takes everything from the AzureCluster's own identity.
LEMMA ClusterScopeInv ==
  ASSUME CredInv, NewClusterScope
  PROVE  CredInv'
<1>0. /\ pc = "capz" /\ Reading /\ UNCHANGED calm /\ ~gone /\ kind = AzureCluster
      /\ held \in Held /\ calm' \in BOOLEAN /\ held.links = Asked
  BY DEF NewClusterScope, CredInv, Cleaning, Scoped, TypeOK, Held, Asked
<1>1. CASE Fail /\ (UNCHANGED faults \/ Fault)
  BY <1>0, <1>1, FailInv
<1> DEFINE h == [held EXCEPT !.sub = "own", !.client = "own", !.tenant = "own"]
<1>2. CASE MakeService(h, FirstStage(held.links)) /\ UNCHANGED faults
  <2>1. /\ h \in Held /\ h.sub = "own" /\ h.client = "own" /\ h.mc = held.mc
        /\ h.ref = held.ref /\ h.links = held.links
    BY <1>0 DEF Held, Sources, Names
  <2> HIDE DEF h
  <2>2. FirstStage(h.links) \in Stages
    BY <2>1, FirstStageFirst DEF Held
  <2>3. held'.sub = "own" /\ held'.client = "own"
    BY <1>2, <2>1, <2>2, MakeServiceHolds
  <2>4. UNCHANGED kind /\ ~CalmASO'
    BY <1>0 DEF Reading, config, CalmASO
  <2>5. Settled'
    BY <1>0, <2>3, <2>4 DEF Settled, None
  <2>6. /\ h.ref => kind = ASOManaged
        /\ h.mc # Unread => h.mc.name \in {"mc", None}
        /\ h.sub \in {"own", "env", "mc", None}
    BY <2>1 DEF CredInv, Scoped
  <2> QED BY <1>0, <1>2, <2>1, <2>4, <2>5, <2>6, FirstServiceInv
<1> QED BY <1>1, <1>2 DEF NewClusterScope

\* The identity an annotation refers to, or the management cluster's.
LEMMA ScopeIdentityInv ==
  ASSUME CredInv, NewScopeIdentity
  PROVE  CredInv'
<1>0. /\ pc = "scope" /\ Reading /\ UNCHANGED calm /\ ~gone /\ held.ref
      /\ kind = ASOManaged /\ held \in Held /\ calm' \in BOOLEAN /\ held.links = Asked
  BY DEF NewScopeIdentity, CredInv, Cleaning, Scoped, TypeOK, Held, Asked
<1>1. CASE Fail /\ Fault
  BY <1>0, <1>1, FailInv
<1> DEFINE id == AzureClusterIdentity("own")
           h == [held EXCEPT !.client = id.name, !.tenant = id.name]
<1>2. CASE ScopeOrManagementCluster(h) /\ UNCHANGED faults
  <2>1. id \in Identity /\ id.name = IF idents["own"] = Absent THEN None ELSE "own"
    BY IdentityRead DEF CredInv, Names
  <2>2. id.name \in Sources
    BY <2>1 DEF Sources, Names
  <2> HIDE DEF id
  <2>3. /\ h \in Held /\ h.sub = held.sub /\ h.client = id.name /\ h.tenant = id.name
        /\ h.mc = held.mc /\ h.ref = held.ref /\ h.links = held.links
    BY <1>0, <2>2 DEF Held
  <2> HIDE DEF h
  <2>4. UNCHANGED kind /\ UNCHANGED idents /\ (CalmASO' <=> CalmASO)
    BY <1>0 DEF Reading, config, objects, CalmASO, Documented, ClusterIdentityRef
  <2>5. /\ h.mc # Unread => h.mc.name \in {"mc", None}
        /\ h.sub \in {"own", "env", "mc", None}
        /\ CalmASO => h.sub = "own" /\ h.ref
    BY <1>0, <2>3 DEF CredInv, Scoped
  <2>6. CASE Incomplete(h)
    <3>1. CalmASO => idents["own"] = Absent
      BY <2>1, <2>3, <2>5, <2>6 DEF Incomplete, None
    <3>2. Goto("scopeMC", h)
      BY <1>2, <2>6 DEF ScopeOrManagementCluster
    <3> QED BY <1>0, <1>2, <2>3, <2>4, <2>5, <3>1, <3>2, ScopeMCInv
  <2>7. CASE ~Incomplete(h)
    <3>1. MakeService(h, FirstStage(h.links))
      BY <1>2, <2>7 DEF ScopeOrManagementCluster
    <3>2. FirstStage(h.links) \in Stages
      BY <2>3, FirstStageFirst DEF Held
    <3>3. held'.sub = h.sub /\ held'.client = h.client
      BY <2>3, <3>1, <3>2, MakeServiceHolds
    <3>4. h.sub # None /\ h.client = "own"
      BY <2>1, <2>3, <2>7 DEF Incomplete
    <3>5. Settled'
      BY <1>0, <2>4, <2>5, <3>3, <3>4 DEF Settled
    <3> QED BY <1>0, <1>2, <2>3, <2>4, <2>5, <3>1, <3>5, FirstServiceInv
  <2> QED BY <2>6, <2>7
<1> QED BY <1>1, <1>2 DEF NewScopeIdentity

\* All three from the management cluster.
LEMMA ScopeManagementClusterInv ==
  ASSUME CredInv, NewScopeManagementCluster
  PROVE  CredInv'
<1>0. /\ pc = "scopeMC" /\ Reading /\ UNCHANGED calm /\ ~gone
      /\ kind # AzureCluster /\ (kind = VSphere => ~FullEnv)
      /\ (CalmASO => idents["own"] = Absent) /\ (CalmASO => held.ref)
      /\ held \in Held /\ calm' \in BOOLEAN /\ held.links = Asked
  BY DEF NewScopeManagementCluster, CredInv, Cleaning, Scoped, TypeOK, Held, Asked
<1>1. CASE Fail /\ (UNCHANGED faults \/ Fault)
  BY <1>0, <1>1, FailInv
<1> DEFINE id == AzureClusterIdentity("mc")
           h == [held EXCEPT !.sub = "mc", !.client = id.name, !.tenant = id.name,
                             !.mgmt = "found", !.mc = id]
<1>2. CASE MakeService(h, FirstStage(held.links)) /\ UNCHANGED faults
  <2>1. id \in Identity /\ id.name \in {"mc", None} /\ id # Unread
    BY IdentityRead DEF CredInv, Names
  <2>2. id.name \in Sources
    BY <2>1 DEF Sources, Names
  <2> HIDE DEF id
  <2>3. h \in Held
    BY <1>0, <2>1, <2>2 DEF Held, Sources, Names
  <2>4. /\ h.sub = "mc" /\ h.client = id.name /\ h.mc = id /\ h.ref = held.ref
        /\ h.links = held.links
    BY <1>0 DEF Held
  <2> HIDE DEF h
  <2>5. FirstStage(h.links) \in Stages
    BY <2>3, FirstStageFirst DEF Held
  <2>6. held'.sub = h.sub /\ held'.client = h.client /\ held'.mc = h.mc
    BY <1>2, <2>3, <2>4, <2>5, MakeServiceHolds
  <2>7. /\ UNCHANGED kind /\ UNCHANGED idents /\ (CalmASO' <=> CalmASO)
        /\ (FullEnv' <=> FullEnv)
    BY <1>0 DEF Reading, config, objects, CalmASO, Documented, FullEnv, ClusterIdentityRef
  <2>8. Settled'
    BY <1>0, <2>1, <2>4, <2>6, <2>7 DEF Settled, None
  <2>9. h.ref => kind = ASOManaged
    BY <2>4 DEF CredInv, Scoped
  <2> QED BY <1>0, <1>2, <2>1, <2>3, <2>4, <2>7, <2>8, <2>9, FirstServiceInv
<1> QED BY <1>1, <1>2 DEF NewScopeManagementCluster
------------------------------------------------------------------------------
(***************************************************************************)
(* Making a service, and using it.                                         *)
(***************************************************************************)
\* Objects that a step leaves alone keep what was derived from them.
LEMMA ReadingKeeps ==
  ASSUME CredInv, Reading, calm' => calm
  PROVE  /\ UNCHANGED <<kind, links, dropped, idents, flags, config>>
         /\ (FullEnv' <=> FullEnv) /\ (CalmASO' => CalmASO)
         /\ \A stage : SubOf(stage)' = SubOf(stage)
<1>1. UNCHANGED <<kind, links, dropped, idents, flags, config>>
  BY DEF Reading, config, objects
<1>2. CalmASO' => CalmASO
  BY DEF Reading, config, objects, CalmASO, Documented, ClusterIdentityRef
<1> QED BY <1>1, <1>2, ConfigStays

\* A read on the way to a service keeps what NewScope has settled.
LEMMA ReadInv ==
  ASSUME CredInv, Reading, UNCHANGED faults \/ Fault, UNCHANGED azure,
         calm' \in BOOLEAN, calm' => calm,
         pc \in Making, pc' \in Making, held' \in Held,
         held'.sub = held.sub, held'.client = held.client, held'.ref = held.ref,
         held'.stage = held.stage, held'.deleting = held.deleting, held'.links = held.links,
         held'.mc = held.mc \/ (held'.mc # Unread /\ held'.mc.name \in {"mc", None}),
         Identified'
  PROVE  CredInv'
<1>1. /\ UNCHANGED <<kind, links, dropped, idents, config>>
      /\ (FullEnv' <=> FullEnv) /\ (CalmASO' => CalmASO)
      /\ \A stage : SubOf(stage)' = SubOf(stage)
  BY ReadingKeeps
<1>2. TypeOK'
  <2>1. zones' = zones /\ gone' = gone
    BY DEF azure
  <2> QED BY <2>1, StepType DEF CredInv, TypeOK, PC, Making
<1>3. Settled'
  BY <1>1 DEF CredInv, Scoped, Settled, Making
<1>4. Scoped'
  BY <1>1, <1>3 DEF CredInv, Scoped, Making
<1>5. Asked' = Asked
  BY DEF Asked, Making
<1>6. Annotated'
  BY <1>1, <1>5 DEF CredInv, Annotated
<1>7. \A z : Known(z, Asked)' <=> Known(z, Asked)
  BY <1>1, <1>5 DEF Known
<1>8. Cleaning'
  BY <1>1, <1>7 DEF CredInv, Cleaning, Making, azure, Before
<1> QED BY <1>2, <1>4, <1>6, <1>8 DEF CredInv

\* Scope.ManagementCluster.
LEMMA ManagementClusterInv ==
  ASSUME CredInv, GetManagementCluster
  PROVE  CredInv'
<1>0. pc = "management" /\ Reading /\ UNCHANGED calm /\ held \in Held /\ calm' \in BOOLEAN
  BY DEF GetManagementCluster, CredInv, TypeOK, Held
<1>1. CASE Fail /\ Fault
  BY <1>0, <1>1, FailInv
<1>2. CASE Goto("identity", [held EXCEPT !.mgmt = ManagementCluster]) /\ UNCHANGED faults
  <2>1. ManagementCluster \in {Absent, "found", "empty"}
    BY <1>0 DEF ManagementCluster, Held
  <2>2. /\ pc' = "identity" /\ UNCHANGED azure
        /\ held' = [held EXCEPT !.mgmt = ManagementCluster]
    BY <1>2 DEF Goto
  <2>3. /\ held' \in Held
        /\ held'.sub = held.sub /\ held'.client = held.client /\ held'.ref = held.ref
        /\ held'.stage = held.stage /\ held'.deleting = held.deleting /\ held'.mc = held.mc
        /\ held'.links = held.links
    BY <1>0, <2>1, <2>2 DEF Held
  <2>4. Identified'
    BY <2>2 DEF Identified
  <2> QED BY <1>0, <1>2, <2>2, <2>3, <2>4, ReadInv DEF Making
<1> QED BY <1>1, <1>2 DEF GetManagementCluster

\* Whose identity an infrastructure cluster names.
LEMMA InfraIdentityNames == InfraClusterIdentity \subseteq {"own", "flag"}
BY DEF InfraClusterIdentity

\* Scope.ManagementClusterIdentity returns the management cluster's identity, or
\* an empty one, or fails.
LEMMA ManagementClusterIdentityReturns ==
  ASSUME CredInv, held \in Held, ManagementClusterIdentity, ~Fail
  PROVE  /\ pc' = "secret" /\ UNCHANGED azure /\ held' \in Held
         /\ held'.sub = held.sub /\ held'.client = held.client /\ held'.ref = held.ref
         /\ held'.stage = held.stage /\ held'.deleting = held.deleting /\ held'.links = held.links
         /\ held'.mc = held.mc \/ (held'.mc # Unread /\ held'.mc.name \in {"mc", None})
         /\ held'.ident.name \in {"mc", None}
<1>1. CASE held.mc # Unread
  <2>1. pc' = "secret" /\ UNCHANGED azure /\ held' = [held EXCEPT !.ident = held.mc]
    BY <1>1 DEF ManagementClusterIdentity, Goto
  <2>2. held.mc.name \in {"mc", None} /\ held.mc \in Identity \union {Unread}
    BY <1>1 DEF CredInv, Scoped, Held
  <2>3. /\ held' \in Held /\ held'.ident = held.mc
        /\ held'.sub = held.sub /\ held'.client = held.client /\ held'.ref = held.ref
        /\ held'.stage = held.stage /\ held'.deleting = held.deleting /\ held'.mc = held.mc
        /\ held'.links = held.links
    BY <2>1, <2>2 DEF Held
  <2> QED BY <2>1, <2>2, <2>3
<1>2. CASE held.mc = Unread
  <2> DEFINE id == AzureClusterIdentity("mc")
  <2>1. /\ pc' = "secret" /\ UNCHANGED azure
        /\ held' = [held EXCEPT !.ident = id, !.mgmt = "found", !.mc = id]
    BY <1>2 DEF ManagementClusterIdentity, Goto
  <2>2. id \in Identity /\ id # Unread /\ id.name \in {"mc", None}
    BY IdentityRead DEF CredInv, Names
  <2> HIDE DEF id
  <2>3. /\ held' \in Held /\ held'.ident = id /\ held'.mc = id
        /\ held'.sub = held.sub /\ held'.client = held.client /\ held'.ref = held.ref
        /\ held'.stage = held.stage /\ held'.deleting = held.deleting /\ held'.links = held.links
    BY <2>1, <2>2 DEF Held
  <2> QED BY <2>1, <2>2, <2>3
<1> QED BY <1>1, <1>2

\* A service is made from the identity of the cluster it is for, or from the
\* management cluster's; from the latter in place of the former only after a
\* failed read.
LEMMA GetIdentityInv ==
  ASSUME CredInv, GetIdentity
  PROVE  CredInv'
<1>0. pc = "identity" /\ Reading /\ held \in Held /\ (UNCHANGED faults \/ Fault)
      /\ calm' \in BOOLEAN /\ (calm' => calm)
  <2>1. pc = "identity" /\ Reading /\ held \in Held /\ calm \in BOOLEAN
    BY DEF GetIdentity, CredInv, TypeOK, Held
  <2>2. UNCHANGED <<faults, calm>> \/ (Fault /\ calm' = FALSE)
    BY DEF GetIdentity
  <2>3. calm' \in BOOLEAN /\ (calm' => calm)
    <3>1. CASE calm' = calm
      BY <2>1, <3>1
    <3>2. CASE calm' = FALSE
      BY <3>2
    <3> QED BY <2>2, <3>1, <3>2
  <2>4. UNCHANGED faults \/ Fault
    BY <2>2
  <2> QED BY <2>1, <2>3, <2>4
<1>1. CASE Fail
  BY <1>0, <1>1, FailInv
<1> DEFINE names == IF held.stage = "privateApi" THEN {} ELSE InfraClusterIdentity
<1>2. CASE ManagementClusterIdentity /\ ~Fail /\ (names = {} \/ ~calm')
  <2>1. /\ pc' = "secret" /\ UNCHANGED azure /\ held' \in Held
        /\ held'.sub = held.sub /\ held'.client = held.client /\ held'.ref = held.ref
        /\ held'.stage = held.stage /\ held'.deleting = held.deleting /\ held'.links = held.links
        /\ held'.mc = held.mc \/ (held'.mc # Unread /\ held'.mc.name \in {"mc", None})
        /\ held'.ident.name \in {"mc", None}
    BY <1>0, <1>2, ManagementClusterIdentityReturns
  <2>2. UNCHANGED InfraClusterIdentity
    BY <1>0, <2>1, ReadingKeeps DEF InfraClusterIdentity, ClusterIdentityRef
  <2>3. Identified'
    BY <1>2, <2>1, <2>2 DEF Identified
  <2> QED BY <1>0, <2>1, <2>3, ReadInv DEF Making
<1>3. CASE names # {} /\ \E name \in names :
              Goto("secret", [held EXCEPT !.ident = AzureClusterIdentity(name)])
  <2>0. held.stage # "privateApi" /\ names = InfraClusterIdentity
    BY <1>3
  <2>1. PICK name \in names :
          Goto("secret", [held EXCEPT !.ident = AzureClusterIdentity(name)])
    BY <1>3
  <2> DEFINE id == AzureClusterIdentity(name)
  <2>2. pc' = "secret" /\ UNCHANGED azure /\ held' = [held EXCEPT !.ident = id]
    BY <2>1 DEF Goto
  <2>3. id \in Identity
    BY <2>0, InfraIdentityNames, IdentityRead DEF CredInv, Names
  <2>4. names = {name}
    BY <2>0 DEF InfraClusterIdentity
  <2> HIDE DEF id, names
  <2>5. /\ held' \in Held /\ held'.ident = id
        /\ held'.sub = held.sub /\ held'.client = held.client /\ held'.ref = held.ref
        /\ held'.stage = held.stage /\ held'.deleting = held.deleting /\ held'.mc = held.mc
        /\ held'.links = held.links
    BY <1>0, <2>2, <2>3 DEF Held
  <2>6. UNCHANGED <<InfraClusterIdentity, idents>>
    BY <1>0, <2>5, ReadingKeeps DEF InfraClusterIdentity, ClusterIdentityRef
  <2>7. InfraClusterIdentity' = {name} /\ AzureClusterIdentity(name)' = id
    BY <2>0, <2>4, <2>6 DEF AzureClusterIdentity, id
  <2>8. Identified'
    BY <2>0, <2>5, <2>7 DEF Identified
  <2> QED BY <1>0, <2>2, <2>5, <2>8, ReadInv DEF Making
<1> QED BY <1>1, <1>2, <1>3 DEF GetIdentity

\* Reading the secret and the management cluster's Cluster changes nothing held.
LEMMA GetSecretInv ==
  ASSUME CredInv, GetSecret \/ GetManagementCAPICluster
  PROVE  CredInv'
<1>0. /\ pc \in {"secret", "capi"} /\ Reading /\ UNCHANGED calm
      /\ held \in Held /\ calm' \in BOOLEAN /\ (UNCHANGED faults \/ Fault)
  BY DEF GetSecret, GetManagementCAPICluster, CredInv, TypeOK, Held
<1>1. CASE Fail
  BY <1>0, <1>1, FailInv
<1>2. CASE ~Fail
  <2>1. pc' \in {"capi", "use"} /\ held' = held /\ UNCHANGED azure
    BY <1>2 DEF GetSecret, GetManagementCAPICluster, Goto, AfterSecret
  <2>2. UNCHANGED <<InfraClusterIdentity, idents>>
    BY <1>0, <2>1, ReadingKeeps DEF InfraClusterIdentity, ClusterIdentityRef
  <2>3. \A name : AzureClusterIdentity(name)' = AzureClusterIdentity(name)
    BY <2>2 DEF AzureClusterIdentity
  <2>4. Identified'
    BY <1>0, <2>1, <2>2, <2>3 DEF CredInv, Identified
  <2> QED BY <1>0, <2>1, <2>4, ReadInv DEF Making
<1> QED BY <1>1, <1>2

\* A service works in the subscription where the zone of its cluster belongs.
LEMMA WorksWhereZonesAre ==
  ASSUME CredInv, pc = "use"
  PROVE  /\ Client.sub \in {"own", "env", "mc"}
         /\ kind # ASOManaged => Client.sub = SubOf(held.stage)
<1>1. Settled /\ held.sub \in {"own", "env", "mc"} /\ held.stage \in Stages
  BY DEF CredInv, Scoped, Settled, Making, TypeOK
<1>2. Client.sub = IF held.stage = "public" THEN held.sub
                   ELSE IF held.stage = "privateApi" THEN "mc" ELSE "own"
  BY DEF Client
<1>3. kind # ASOManaged => kind = AzureCluster \/ kind = VSphere
  BY CredentialsAssumption DEF CredInv, TypeOK
<1> QED BY <1>1, <1>2, <1>3 DEF Settled, SubOf, Stages, Private

\* A service makes its zone, or removes it; the next one is made, or the
\* reconcile ends. One that deletes leaves no zone that it looked for.
LEMMA UseServiceInv ==
  ASSUME CredInv, UseService
  PROVE  CredInv'
<1> DEFINE zone == [stage |-> held.stage, sub |-> Client.sub]
<1>0. /\ pc = "use" /\ Reading /\ UNCHANGED calm /\ held \in Held /\ calm' \in BOOLEAN
      /\ (UNCHANGED faults \/ Fault) /\ ~gone /\ gone \in BOOLEAN /\ zones \subseteq Zone
      /\ held.stage \in Stages /\ held.stage \in Asked \union {"public"} /\ Settled
      /\ Asked = held.links
  BY DEF UseService, CredInv, TypeOK, Held, Cleaning, Scoped, Making, Asked
<1>1. /\ UNCHANGED <<kind, links, dropped, idents, config>>
      /\ (FullEnv' <=> FullEnv) /\ (CalmASO' => CalmASO)
  BY <1>0, ReadingKeeps
<1>2. CASE Fail
  BY <1>0, <1>2, FailInv
<1>3. ASSUME zones' = IF held.deleting THEN zones \ {zone} ELSE zones \union {zone}
      PROVE  /\ zones' \subseteq Zone
             /\ kind # ASOManaged =>
                  /\ \A z \in zones' : Known(z, Asked)
                  /\ held.deleting => \A z \in zones' :
                       z.stage = held.stage \/ Before(z.stage, held.stage) => z.stage \in dropped
  <2>1. zone \in Zone /\ zone.stage = held.stage /\ zone.sub = Client.sub
    BY <1>0, WorksWhereZonesAre DEF Zone
  <2>2. kind # ASOManaged => Known(zone, Asked)
    BY <1>0, <2>1, WorksWhereZonesAre DEF Known
  <2>3. kind # ASOManaged => \A z \in zones : Known(z, Asked)
    BY DEF CredInv, Cleaning
  <2> HIDE DEF zone
  <2>4. kind # ASOManaged /\ held.deleting => \A z \in zones' :
          z.stage = held.stage \/ Before(z.stage, held.stage) => z.stage \in dropped
    <3> SUFFICES ASSUME kind # ASOManaged, held.deleting, NEW z \in zones',
                        z.stage = held.stage \/ Before(z.stage, held.stage)
                 PROVE  z.stage \in dropped
      OBVIOUS
    <3>1. z \in zones /\ z # zone /\ z \in Zone
      BY <1>0, <1>3
    <3>2. Before(z.stage, held.stage) => z.stage \in dropped
      BY <1>0, <3>1 DEF CredInv, Cleaning, Making
    <3>3. CASE z.stage = held.stage
      <4>1. z.sub = zone.sub
        BY <2>1, <2>2, <2>3, <3>1, <3>3 DEF Known
      <4>2. z = zone
        BY <2>1, <3>1, <3>3, <4>1 DEF Zone
      <4> QED BY <3>1, <4>2
    <3> QED BY <3>2, <3>3
  <2>5. zones' \subseteq Zone
    BY <1>0, <1>3, <2>1
  <2>6. kind # ASOManaged => \A z \in zones' : Known(z, Asked)
    BY <1>3, <2>2, <2>3
  <2> QED BY <2>4, <2>5, <2>6
<1>4. CASE Work(Proceed) /\ held.stage = "public" /\ ~Fail
  <2>1. /\ zones' = IF held.deleting THEN zones \ {zone} ELSE zones \union {zone}
        /\ pc' = "idle" /\ held' = NothingHeld /\ gone' = held.deleting
    BY <1>4 DEF Work, Proceed
  <2>2. held.deleting \in BOOLEAN
    BY <1>0 DEF Held
  <2>3. TypeOK'
    BY <1>0, <1>3, <2>1, <2>2, NothingHeldType, StepType DEF CredInv, PC
  <2>4. kind # ASOManaged /\ gone' => \A z \in zones' : z.stage \in dropped
    BY <1>3, <1>4, <2>1 DEF Before
  <2> QED BY <1>0, <1>3, <2>1, <2>3, <2>4, EndInv
<1>5. CASE Work(pc' = "idle" /\ held' = NothingHeld /\ UNCHANGED gone) /\ ~Fail
  <2>1. /\ zones' = IF held.deleting THEN zones \ {zone} ELSE zones \union {zone}
        /\ pc' = "idle" /\ held' = NothingHeld /\ gone' = gone
    BY <1>5 DEF Work
  <2>2. TypeOK'
    BY <1>0, <1>3, <2>1, NothingHeldType, StepType DEF CredInv, PC
  <2> QED BY <1>0, <1>1, <1>3, <2>1, <2>2, EndInv
<1>6. CASE Work(Proceed) /\ held.stage # "public" /\ ~Fail
  <2> DEFINE next == NextStage(held.stage)
  <2>1. /\ zones' = IF held.deleting THEN zones \ {zone} ELSE zones \union {zone}
        /\ pc' = FirstRead(next) /\ UNCHANGED gone
        /\ held' = [held EXCEPT !.stage = next, !.ident = Unread]
    BY <1>6 DEF Work, Proceed
  <2>2. held.stage \in held.links /\ held.links \in SUBSET Private
    BY <1>0, <1>6 DEF Held
  <2>3. /\ next \in Asked \union {"public"} /\ next \in Stages
        /\ \A other \in Asked \union {"public"} :
             other # held.stage /\ Before(other, next) => Before(other, held.stage)
    BY <1>0, <2>2, NextStageNext
  <2> HIDE DEF next
  <2>4. held' \in Held
    BY <1>0, <2>1, <2>3 DEF Held
  <2>5. /\ held'.sub = held.sub /\ held'.client = held.client /\ held'.ref = held.ref
        /\ held'.mc = held.mc /\ held'.deleting = held.deleting /\ held'.stage = next
        /\ held'.links = held.links
    BY <1>0, <2>1 DEF Held
  <2>6. pc' \in {"identity", "management"}
    BY <2>1 DEF FirstRead
  <2>7. TypeOK'
    BY <1>0, <1>3, <2>1, <2>4, <2>6, StepType DEF CredInv, PC
  <2>8. Settled'
    BY <1>0, <1>1, <2>5 DEF Settled
  <2>9. /\ held'.ref => kind = ASOManaged
        /\ CalmASO' => held'.ref
        /\ held'.mc # Unread => held'.mc.name \in {"mc", None}
        /\ held'.sub \in {"own", "env", "mc", None}
    BY <1>0, <1>1, <2>5 DEF CredInv, Scoped
  <2>10. kind # ASOManaged =>
           /\ \A z \in zones' : Known(z, Asked)
           /\ held'.deleting =>
                \A z \in zones' : Before(z.stage, held'.stage) => z.stage \in dropped
    BY <1>3, <2>1, <2>3, <2>5 DEF Known
  <2> QED BY <1>0, <1>1, <2>1, <2>3, <2>5, <2>6, <2>7, <2>8, <2>9, <2>10, MakeInv
<1> QED BY <1>2, <1>4, <1>5, <1>6 DEF UseService

------------------------------------------------------------------------------
(***************************************************************************)
(* The others, and the theorems.                                           *)
(***************************************************************************)
\* Others end the calm, or delete the cluster, which a reconcile under way does
\* not notice.
LEMMA OthersInv ==
  ASSUME CredInv, Others
  PROVE  CredInv'
<1>1. UNCHANGED <<config, azure, pc, held>>
  BY DEF Others, EditIdentity, EditSecret, EditManagementCluster, EditAnnotations,
         DeleteCluster, Edit
<1>2. calm' = FALSE \/ UNCHANGED <<calm, annotations, idents>>
  BY DEF Others, EditIdentity, EditSecret, EditManagementCluster, EditAnnotations,
         DeleteCluster, Edit
<1>3. UNCHANGED <<kind, env, flags, zones, gone>>
  BY <1>1 DEF config, azure
<1>4. TypeOK'
  <2>1. edits' \in 0..MaxEdits
    <3>1. UNCHANGED edits \/ (edits < MaxEdits /\ edits' = edits + 1)
      BY DEF Others, EditIdentity, EditSecret, EditManagementCluster, EditAnnotations,
             DeleteCluster, Edit
    <3> QED BY <3>1, CredentialsAssumption DEF CredInv, TypeOK
  <2>2. UNCHANGED faults
    BY DEF Others, EditIdentity, EditSecret, EditManagementCluster, EditAnnotations,
           DeleteCluster, Edit
  <2>3. idents' \in [Names -> Types \union {Absent}]
    BY DEF Others, EditIdentity, EditSecret, EditManagementCluster, EditAnnotations,
           DeleteCluster, CredInv, TypeOK
  <2>4. secrets' \subseteq Names
    <3>1. Usable \subseteq Names
      BY DEF Usable, Names
    <3> QED
      BY <3>1 DEF Others, EditIdentity, EditSecret, EditManagementCluster, EditAnnotations,
                  DeleteCluster, CredInv, TypeOK
  <2>5. /\ mgmt' \subseteq {"AzureCluster", "Cluster"}
        /\ annotations' \subseteq {"subscription", "identity"}
    BY DEF Others, EditIdentity, EditSecret, EditManagementCluster, EditAnnotations,
           DeleteCluster, CredInv, TypeOK
  <2>6. deleting' \in BOOLEAN
    BY DEF Others, EditIdentity, EditSecret, EditManagementCluster, EditAnnotations,
           DeleteCluster, CredInv, TypeOK
  <2>7. calm' \in BOOLEAN
    BY <1>2 DEF CredInv, TypeOK
  <2>8. links' \subseteq Private /\ dropped' \subseteq Private
    BY DEF Others, EditIdentity, EditSecret, EditManagementCluster, EditAnnotations,
           DeleteCluster, CredInv, TypeOK
  <2>9. UNCHANGED <<shared, tolerant>>
    BY <1>1 DEF config
  <2> QED
    BY <1>1, <1>3, <2>1, <2>2, <2>3, <2>4, <2>5, <2>6, <2>7, <2>8, <2>9 DEF CredInv, TypeOK
<1>5. (FullEnv' <=> FullEnv) /\ \A stage : SubOf(stage)' = SubOf(stage)
  BY <1>1, ConfigStays
<1>6. CalmASO' => CalmASO /\ UNCHANGED idents
  BY <1>2, <1>3 DEF CalmASO, Documented, ClusterIdentityRef
<1>7. Settled => Settled'
  BY <1>1, <1>3, <1>5, <1>6 DEF Settled
<1>8. Scoped'
  BY <1>1, <1>3, <1>5, <1>6, <1>7 DEF CredInv, Scoped
<1>9. Identified'
  <2>1. InfraClusterIdentity' = InfraClusterIdentity
    BY <1>1, <1>3 DEF InfraClusterIdentity, ClusterIdentityRef
  <2>2. calm' => calm /\ \A name : AzureClusterIdentity(name)' = AzureClusterIdentity(name)
    BY <1>2 DEF AzureClusterIdentity
  <2> QED BY <1>1, <2>1, <2>2 DEF CredInv, Identified
<1>10. /\ dropped \subseteq dropped' /\ links \subseteq links' \union dropped'
       /\ kind # AzureCluster => UNCHANGED links
  BY DEF Others, EditIdentity, EditSecret, EditManagementCluster, EditAnnotations,
         DeleteCluster
<1>11. Asked \subseteq Asked' \union dropped' /\ (pc # "idle" => Asked' = Asked)
  BY <1>1, <1>10 DEF Asked
<1>12. Annotated'
  BY <1>1, <1>3, <1>10, <1>11 DEF CredInv, Annotated, Asked
<1>13. \A z : Known(z, Asked) => Known(z, Asked)'
  BY <1>5, <1>10, <1>11 DEF Known
<1>14. Cleaning'
  BY <1>1, <1>3, <1>10, <1>13 DEF CredInv, Cleaning, Before
<1> QED BY <1>4, <1>8, <1>9, <1>12, <1>14 DEF CredInv

\* CredInv is inductive.
LEMMA CredInvHolds == Spec => []CredInv
<1>1. Init => CredInv
  <2> SUFFICES ASSUME Init PROVE CredInv
    OBVIOUS
  <2>1. TypeOK
    <3>1. faults \in 0..MaxFaults /\ edits \in 0..MaxEdits
      BY CredentialsAssumption DEF Init
    <3>2. held \in Held
      BY NothingHeldType DEF Init
    <3>3. idents \in [Names -> Types \union {Absent}] /\ secrets \subseteq Names
      BY DEF Init, Usable, Names
    <3>4. /\ env \subseteq {"sub", "client", "tenant", "location"}
          /\ flags \subseteq {"name", "namespace"}
          /\ annotations \subseteq {"subscription", "identity"} /\ links \subseteq Private
      BY DEF Init
    <3>5. shared \in BOOLEAN /\ tolerant \in BOOLEAN
      BY DEF Init
    <3> QED BY <3>1, <3>2, <3>3, <3>4, <3>5 DEF Init, TypeOK, PC, Held
  <2>2. Annotated
    BY DEF Init, Annotated, Asked
  <2>3. Scoped
    BY DEF Init, Scoped, NothingHeld, None, Making
  <2>4. Identified /\ Cleaning
    BY DEF Init, Identified, Cleaning, Making
  <2> QED BY <2>1, <2>2, <2>3, <2>4 DEF CredInv
<1>2. CredInv /\ [Next]_vars => CredInv'
  <2> SUFFICES ASSUME CredInv, [Next]_vars PROVE CredInv'
    OBVIOUS
  <2>1. CASE UNCHANGED vars
    BY <2>1
       DEF vars, config, objects, azure, CredInv, TypeOK, Annotated, Asked, Known, Scoped, Settled, CalmASO,
           Documented, FullEnv, ClusterIdentityRef, Identified, InfraClusterIdentity,
           AzureClusterIdentity, Cleaning, SubOf, Before
  <2> QED
    BY <2>1, ReconcileInv, ClusterScopeInv, ScopeIdentityInv, ScopeManagementClusterInv,
       ManagementClusterInv, GetIdentityInv, GetSecretInv, UseServiceInv, OthersInv
       DEF Next, Step
<1> QED BY <1>1, <1>2, PTL DEF Spec

\* Every variable keeps its type; above all, no service ever works on a zone
\* without a subscription: newAzureClient and newPrivateDNSClient never get an
\* empty one, although any identity or environment variable may be missing.
THEOREM TypeCorrect == Spec => []TypeOK
<1>1. CredInv => TypeOK
  BY DEF CredInv
<1> QED BY <1>1, CredInvHolds, PTL

\* A reconcileDelete that came to its end has removed every zone whose annotation
\* nobody removed, the public one among them, of a cluster that cannot change its
\* subscription: it passes over none, however identities, secrets, annotations and
\* the management cluster come and go.
THEOREM CleanupIsComplete == Spec => []CleanupFindsAll
<1>1. CredInv => CleanupFindsAll
  BY DEF CredInv, Cleaning, CleanupFindsAll
<1> QED BY <1>1, CredInvHolds, PTL

\* In the set-ups of the README, every zone is worked on in the promised
\* subscription and as the promised client, or as nobody.
THEOREM ClientIsRight == Spec => []RightClient
<1>1. CredInv => RightClient
  <2> SUFFICES ASSUME CredInv, pc = "use", calm, Documented, Credential # None
               PROVE  /\ Client.sub \in Expected(held.stage).sub
                      /\ Client.cred \in Expected(held.stage).cred
    BY DEF RightClient
  <2>0. /\ Settled /\ TypeOK /\ held.stage \in Stages
        /\ held.stage \in held.links \union {"public"}
        /\ (CalmASO => held.ref) /\ (held.ref => kind = ASOManaged)
        /\ kind \in {AzureCluster, ASOManaged, VSphere}
    BY CredentialsAssumption DEF CredInv, Scoped, Making, Cleaning, TypeOK
  <2>1. Client.cred = Credential
    BY DEF Client
  <2>2. Client.sub = IF held.stage = "public" THEN held.sub
                     ELSE IF held.stage = "privateApi" THEN "mc" ELSE "own"
    BY DEF Client
  <2>3. CASE held.stage = "privateApi"
    <3>1. held.ident.name \in {"mc", None}
      BY <2>3 DEF CredInv, Identified
    <3> QED BY <2>1, <2>2, <2>3, <3>1 DEF Credential, Expected
  <2>4. /\ held.stage # "privateApi" /\ InfraClusterIdentity = {} =>
             held.ident.name \in {"mc", None}
        /\ held.stage # "privateApi" =>
             \A name \in InfraClusterIdentity : held.ident = AzureClusterIdentity(name)
    BY DEF CredInv, Identified
  <2>5. CASE held.stage # "privateApi" /\ kind = AzureCluster
    <3>1. held.ident = AzureClusterIdentity("own")
      BY <2>4, <2>5 DEF InfraClusterIdentity
    <3>2. held.ident.name \in {"own", None}
      BY <2>0, <3>1, IdentityRead DEF Names
    <3>3. held.sub = "own" /\ held.client = "own"
      BY <2>0, <2>5 DEF Settled
    <3>4. Credential = "own"
      BY <3>2, <3>3 DEF Credential
    <3>5. held.stage \in {"privateIngress", "public"}
      BY <2>0, <2>5 DEF Stages, Private
    <3> QED BY <2>1, <2>2, <2>5, <3>3, <3>4, <3>5 DEF Expected
  <2>6. CASE kind # AzureCluster
    <3>0. held.stage = "public"
      BY <2>0, <2>6 DEF CredInv, Annotated, Asked
    <3>1. CASE kind = ASOManaged
      <4>1. CalmASO /\ held.ref
        BY <2>0, <3>1 DEF CalmASO
      <4>2. held.ident = AzureClusterIdentity("own")
        BY <2>4, <3>0, <4>1 DEF InfraClusterIdentity
      <4>3. /\ held.ident.name = IF idents["own"] = Absent THEN None ELSE "own"
            /\ idents["own"] = Absent => held.ident.type = None
        BY <2>0, <4>2, IdentityRead DEF Names
      <4>4. idents["own"] # Absent
        BY <4>3 DEF Credential, None, MSI
      <4>5. held.sub = "own" /\ held.client = "own"
        BY <2>0, <4>1, <4>4 DEF Settled
      <4>6. Credential = "own"
        BY <4>3, <4>4, <4>5 DEF Credential
      <4> QED BY <2>1, <2>2, <3>0, <3>1, <4>5, <4>6 DEF Expected
    <3>2. CASE kind = VSphere /\ ~ClusterIdentityRef
      <4>1. flags = {} /\ env = {}
        BY <3>2 DEF Documented
      <4>2. held.sub = "mc" /\ held.client \in {"mc", None}
        BY <2>0, <3>2, <4>1 DEF Settled, FullEnv
      <4>3. InfraClusterIdentity = {}
        BY <2>0, <3>2 DEF InfraClusterIdentity
      <4>4. held.ident.name \in {"mc", None}
        BY <2>4, <3>0, <4>3
      <4>5. Credential = "mc"
        BY <4>2, <4>4 DEF Credential
      <4> QED BY <2>1, <2>2, <3>0, <3>2, <4>2, <4>5 DEF Expected
    <3>3. CASE kind = VSphere /\ ClusterIdentityRef
      <4>1. FullEnv
        BY <3>3 DEF Documented, ClusterIdentityRef, FullEnv
      <4>2. held.sub = "env" /\ held.client = "env"
        BY <2>0, <3>3, <4>1 DEF Settled
      <4>3. held.ident = AzureClusterIdentity("flag")
        BY <2>0, <2>4, <3>0, <3>3 DEF InfraClusterIdentity
      <4>4. held.ident.name \in {"flag", None}
        BY <2>0, <4>3, IdentityRead DEF Names
      <4>5. Credential \in {"env", "flag"}
        BY <4>2, <4>4 DEF Credential
      <4> QED BY <2>1, <2>2, <3>0, <3>3, <4>2, <4>5 DEF Expected
    <3> QED BY <2>0, <2>6, <3>1, <3>2, <3>3
  <2> QED BY <2>3, <2>5, <2>6
<1> QED BY <1>1, CredInvHolds, PTL
==============================================================================
