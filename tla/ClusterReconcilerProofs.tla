----------------------- MODULE ClusterReconcilerProofs -----------------------
(***************************************************************************)
(* Theorems about ClusterReconciler, for every set of clusters, every      *)
(* choice of infrastructure kinds and every bound on faults, restarts and  *)
(* edits.                                                                  *)
(***************************************************************************)
EXTENDS ClusterReconciler, TLAPS

\* One definition of the primitives every action is built from.
USE DEF AzureCluster, ASOManaged, VSphere

\* The initial objects, and the empty scope, are well typed.
LEMMA InitTypeOK == Init => TypeOK
BY KindsAssumption, BoundsAssumption
   DEF Init, TypeOK, ClusterObject, InfraObject, Scope, NoScope, Condition,
       Resources, Links, PC

\* An Azure call of the reconcile, lost or not, keeps the types.
LEMMA CallType ==
  ASSUME TypeOK, NEW c \in Clusters, NEW after \in SUBSET Resources,
         NEW next \in PC, Call(c, after, next)
  PROVE  TypeOK'
BY BoundsAssumption DEF TypeOK, Call, Fault, Goto, PC

\* So does a step that only moves on.
LEMMA SkipType ==
  ASSUME TypeOK, NEW c \in Clusters, NEW next \in PC, Skip(c, next)
  PROVE  TypeOK'
BY DEF TypeOK, Skip, Goto, bounds

\* The API server reaping an object changes only whether it exists.
LEMMA ReapType ==
  ASSUME NEW o \in InfraObject
  PROVE  /\ Reap(o) \in InfraObject
         /\ Reap(o).fin = o.fin /\ Reap(o).deleting = o.deleting
         /\ Reap(o).dnsReady = o.dnsReady
         /\ o.fin => Reap(o) = o
BY DEF InfraObject, Reap

\* Setting a flag of an infrastructure cluster keeps its type.
LEMMA InfraEdit ==
  ASSUME NEW o \in InfraObject, NEW b \in BOOLEAN
  PROVE  /\ [o EXCEPT !.fin = b] \in InfraObject
         /\ [o EXCEPT !.dnsReady = b] \in InfraObject
         /\ [o EXCEPT !.deleting = b] \in InfraObject
         /\ [o EXCEPT !.others = b] \in InfraObject
BY DEF InfraObject

\* Pausing an infrastructure cluster changes nothing the reconcile relies on.
LEMMA PauseEdit ==
  ASSUME NEW o \in InfraObject
  PROVE  LET p == [o EXCEPT !.paused = ~@]
         IN /\ p \in InfraObject
            /\ p.exists = o.exists /\ p.deleting = o.deleting
            /\ p.fin = o.fin /\ p.dnsReady = o.dnsReady
BY DEF InfraObject

\* What PatchObject stores is an infrastructure cluster.
LEMMA StoredType ==
  ASSUME TypeOK, NEW c \in Clusters, NEW m \in Scope
  PROVE  Stored(c, m) \in InfraObject
<1>0. infra[c] \in InfraObject /\ m.fin \in BOOLEAN /\ m.dnsReady \in BOOLEAN
  BY DEF TypeOK, Scope
<1>1. [infra[c] EXCEPT !.fin = m.fin] \in InfraObject
  BY <1>0, InfraEdit
<1>2. [infra[c] EXCEPT !.dnsReady = m.dnsReady] \in InfraObject
  BY <1>0, InfraEdit
<1> QED BY <1>1, <1>2, ReapType DEF Stored

\* PatchObject keeps the types, whichever patcher it is.
LEMMA PatchType ==
  ASSUME TypeOK, NEW c \in Clusters, NEW m \in Scope, NEW next \in PC, NEW failed \in PC,
         PatchObject(c, m, next, failed)
  PROVE  TypeOK'
<1>1. Stored(c, m) \in InfraObject
  BY StoredType
<1>2. Refreshed(c, m) \in Scope
  BY <1>1 DEF TypeOK, Refreshed, InfraObject, Scope, Observe
<1>3. NoScope \in Scope
  BY DEF NoScope, Scope, Condition
<1>4. pc' \in [Clusters -> PC]
  BY DEF TypeOK, PatchObject, CommonPatchObject, CAPZPatchObject, Goto
<1>5. infra' \in [Clusters -> InfraObject]
  BY <1>1 DEF TypeOK, PatchObject, CommonPatchObject, CAPZPatchObject
<1>6. scope' \in [Clusters -> Scope]
  BY <1>2, <1>3 DEF TypeOK, PatchObject, CommonPatchObject, CAPZPatchObject, Hold
<1>7. stale' \in [Clusters -> BOOLEAN]
  BY DEF TypeOK, PatchObject, CommonPatchObject, CAPZPatchObject, Outdate
<1>8. faults' \in 0..MaxFaults
  <2>1. UNCHANGED faults \/ Fault
    BY DEF PatchObject, CommonPatchObject, CAPZPatchObject
  <2> QED BY <2>1, BoundsAssumption DEF TypeOK, Fault
<1> QED BY <1>4, <1>5, <1>6, <1>7, <1>8 DEF TypeOK, PatchObject

\* A change of the Cluster by others keeps the types.
LEMMA ClusterEditType ==
  ASSUME TypeOK, NEW c \in Clusters, NEW o \in ClusterObject, SetCluster(c, o),
         edits' \in 0..MaxEdits
  PROVE  TypeOK'
BY DEF TypeOK, SetCluster

\* A change of the infrastructure cluster by others keeps the types.
LEMMA InfraEditType ==
  ASSUME TypeOK, NEW c \in Clusters, NEW o \in InfraObject, SetInfra(c, o),
         edits' \in 0..MaxEdits
  PROVE  TypeOK'
<1>1. Reap(o) \in InfraObject
  BY ReapType
<1>2. stale' \in [Clusters -> BOOLEAN]
  BY DEF TypeOK, SetInfra, Outdate
<1> QED BY <1>1, <1>2 DEF TypeOK, SetInfra

\* Every step of reconcileNormal and reconcileDelete keeps the types.
LEMMA StepType ==
  ASSUME TypeOK, NEW c \in Clusters, Step(c)
  PROVE  TypeOK'
<1>0. /\ scope[c] \in Scope /\ infra[c] \in InfraObject
      /\ azure[c] \in SUBSET Resources
      /\ NormalSteps \subseteq PC /\ DeleteSteps \subseteq PC /\ "close" \in PC
      /\ "idle" \in PC
  BY DEF TypeOK, PC
<1>1. CASE RegisterFinalizer(c)
  <2>1. [scope[c] EXCEPT !.fin = TRUE] \in Scope
    BY <1>0 DEF Scope
  <2>2. "ready" \in PC
    BY DEF PC, NormalSteps
  <2> QED BY <1>0, <1>1, <2>1, <2>2, SkipType, PatchType DEF RegisterFinalizer
<1>2. CASE CheckReady(c)
  BY <1>2, SkipType DEF CheckReady, PC, NormalSteps
<1>3. CASE ReconcilePrivateApi(c)
  BY <1>0, <1>3, SkipType, CallType
     DEF ReconcilePrivateApi, PC, NormalSteps, Resources, Links
<1>4. CASE ReconcilePrivateIngress(c)
  BY <1>0, <1>4, SkipType, CallType
     DEF ReconcilePrivateIngress, PC, NormalSteps, Resources, Links
<1>5. CASE CreateClusterResourceGroup(c)
  BY <1>0, <1>5, SkipType, CallType
     DEF CreateClusterResourceGroup, PC, NormalSteps, Resources
<1>6. CASE CreateClusterDNSZone(c)
  BY <1>0, <1>6, SkipType, CallType
     DEF CreateClusterDNSZone, PC, NormalSteps, Resources
<1>7. CASE CreateClusterNSRecord(c)
  BY <1>0, <1>7, SkipType, CallType
     DEF CreateClusterNSRecord, PC, NormalSteps, Resources
<1>8. CASE UpdateRecords(c)
  BY <1>0, <1>8, SkipType, CallType
     DEF UpdateRecords, PC, NormalSteps, Resources
<1>9. CASE SetGSDNSZoneReady(c)
  <2> DEFINE ready  == [scope[c] EXCEPT !.dnsReady = TRUE]
             stored == [infra[c] EXCEPT !.dnsReady = TRUE]
  <2>0. ready \in Scope /\ stored \in InfraObject /\ "patch" \in PC
    BY <1>0, InfraEdit DEF Scope, PC, NormalSteps
  <2>1. CASE kind[c] = ASOManaged
    BY <1>9, <2>0, <2>1, SkipType DEF SetGSDNSZoneReady
  <2>2. CASE kind[c] # ASOManaged
    <3>1. Observe(stored, ready.provisioned) \in Scope
      BY <2>0 DEF Observe, Scope, InfraObject
    <3>2. pc' \in [Clusters -> PC]
      BY <1>0, <1>9, <2>0, <2>2 DEF TypeOK, SetGSDNSZoneReady, Goto
    <3>3. infra' \in [Clusters -> InfraObject]
      BY <1>9, <2>0, <2>2 DEF TypeOK, SetGSDNSZoneReady
    <3>4. scope' \in [Clusters -> Scope]
      BY <1>9, <2>0, <2>2, <3>1 DEF TypeOK, SetGSDNSZoneReady, Hold
    <3>5. stale' \in [Clusters -> BOOLEAN]
      BY <1>9, <2>2 DEF TypeOK, SetGSDNSZoneReady, Outdate
    <3>6. faults' \in 0..MaxFaults
      <4>1. UNCHANGED faults \/ Fault
        BY <1>9, <2>2 DEF SetGSDNSZoneReady
      <4> QED BY <4>1, BoundsAssumption DEF TypeOK, Fault
    <3> QED BY <1>9, <2>2, <3>2, <3>3, <3>4, <3>5, <3>6 DEF TypeOK, SetGSDNSZoneReady
  <2> QED BY <2>1, <2>2
<1>10. CASE FinalPatch(c)
  BY <1>0, <1>10, PatchType DEF FinalPatch
<1>11. CASE DeletePrivateApi(c)
  BY <1>0, <1>11, SkipType, CallType DEF DeletePrivateApi, PC, DeleteSteps
<1>12. CASE DeletePrivateIngress(c)
  BY <1>0, <1>12, SkipType, CallType DEF DeletePrivateIngress, PC, DeleteSteps
<1>13. CASE DeleteClusterNSRecords(c)
  BY <1>0, <1>13, CallType DEF DeleteClusterNSRecords, PC, DeleteSteps
<1>14. CASE DeleteClusterResourceGroup(c)
  BY <1>0, <1>14, SkipType, CallType DEF DeleteClusterResourceGroup, PC, DeleteSteps
<1>15. CASE RemoveFinalizer(c)
  BY <1>0, <1>15 DEF RemoveFinalizer, TypeOK, Scope, Goto, bounds
<1>16. CASE Close(c)
  BY <1>0, <1>16, PatchType DEF Close
<1> QED BY <1>1, <1>2, <1>3, <1>4, <1>5, <1>6, <1>7, <1>8, <1>9, <1>10, <1>11,
           <1>12, <1>13, <1>14, <1>15, <1>16 DEF Step

\* Every step of users, providers and informer keeps the types.
LEMMA EnvironmentType ==
  ASSUME TypeOK, NEW c \in Clusters, Environment(c)
  PROVE  TypeOK'
<1>0. cluster[c] \in ClusterObject /\ infra[c] \in InfraObject
  BY DEF TypeOK
<1>1. Edit => edits' \in 0..MaxEdits
  BY BoundsAssumption DEF TypeOK, Edit
<1>2. UNCHANGED edits => edits' \in 0..MaxEdits
  BY DEF TypeOK
<1>3. CASE Provision(c)
  BY <1>0, <1>2, <1>3, ClusterEditType DEF Provision, ClusterObject
<1>4. CASE TogglePause(c)
  <2>1. [cluster[c] EXCEPT !.paused = ~@] \in ClusterObject
    BY <1>0 DEF ClusterObject
  <2> QED BY <1>1, <1>4, <2>1, ClusterEditType DEF TogglePause
<1>5. ASSUME NEW status \in Condition, SetLoadBalancersReady(c, status)
      PROVE  TypeOK'
  <2>1. [infra[c] EXCEPT !.lb = status] \in InfraObject
    BY <1>0 DEF InfraObject
  <2> QED BY <1>1, <1>5, <2>1, InfraEditType DEF SetLoadBalancersReady
<1>6. ASSUME NEW links \in SUBSET Links, Annotate(c, links)
      PROVE  TypeOK'
  <2>1. [infra[c] EXCEPT !.links = links] \in InfraObject
    BY <1>0 DEF InfraObject
  <2> QED BY <1>1, <1>6, <2>1, InfraEditType DEF Annotate
<1>7. CASE DeleteCluster(c)
  BY <1>0, <1>2, <1>7, ClusterEditType DEF DeleteCluster, ClusterObject
<1>8. CASE DeleteInfra(c)
  BY <1>0, <1>2, <1>8, InfraEdit, InfraEditType DEF DeleteInfra
<1>9. CASE CAPZDeleteGroup(c)
  BY <1>9 DEF CAPZDeleteGroup, TypeOK, bounds
<1>10. CASE ProviderRelease(c)
  BY <1>0, <1>2, <1>10, InfraEdit, InfraEditType DEF ProviderRelease
<1>11. CASE ForgetCluster(c)
  BY <1>0, <1>2, <1>11, ClusterEditType DEF ForgetCluster, ClusterObject
<1>12. CASE Sync(c)
  BY <1>12 DEF Sync, TypeOK, bounds
<1>13. CASE TogglePauseInfra(c)
  BY <1>0, <1>1, <1>13, PauseEdit, InfraEditType DEF TogglePauseInfra
<1> QED BY <1>3, <1>4, <1>5, <1>6, <1>7, <1>8, <1>9, <1>10, <1>11, <1>12, <1>13
        DEF Environment

\* TypeOK is inductive: Reconcile, a step, the others, a restart.
LEMMA NextType == TypeOK /\ [Next]_vars => TypeOK'
<1> SUFFICES ASSUME TypeOK, [Next]_vars PROVE TypeOK'
  OBVIOUS
<1>1. ASSUME NEW c \in Clusters, Reconcile(c) PROVE TypeOK'
  <2>1. Observe(infra[c], seen[c].provisioned) \in Scope
    BY DEF TypeOK, Observe, InfraObject, ClusterObject, Scope
  <2>2. pc' \in [Clusters -> PC]
    BY <1>1 DEF TypeOK, Reconcile, Goto, PC, NormalSteps, DeleteSteps
  <2> QED BY <1>1, <2>1, <2>2 DEF TypeOK, Reconcile, bounds
<1>2. CASE Crash
  <2>1. NoScope \in Scope
    BY DEF NoScope, Scope, Condition
  <2> QED BY <1>2, <2>1, BoundsAssumption DEF Crash, TypeOK, PC
<1>3. CASE UNCHANGED vars
  BY <1>3 DEF TypeOK, vars
<1> QED BY <1>1, <1>2, <1>3, StepType, EnvironmentType DEF Next

\* Every reachable state is well typed.
THEOREM TypeCorrect == Spec => []TypeOK
<1>1. TypeOK /\ [Next]_vars => TypeOK'
  BY NextType
<1> QED BY <1>1, InitTypeOK, PTL DEF Spec

------------------------------------------------------------------------------
(***************************************************************************)
(* An action of one cluster leaves every other cluster alone, so an        *)
(* invariant that is a conjunction over the clusters only has to be looked *)
(* at for the cluster that acts.                                           *)
(***************************************************************************)
Same(d) ==
  /\ kind'[d] = kind[d] /\ cluster'[d] = cluster[d] /\ seen'[d] = seen[d]
  /\ infra'[d] = infra[d] /\ azure'[d] = azure[d] /\ pc'[d] = pc[d]
  /\ scope'[d] = scope[d] /\ stale'[d] = stale[d] /\ cleaned'[d] = cleaned[d]

Act(c) == Reconcile(c) \/ Step(c) \/ Environment(c)

\* What an Azure call of c leaves alone, and the two ways it ends.
LEMMA CallEffect ==
  ASSUME TypeOK, NEW c \in Clusters, NEW after, NEW next, Call(c, after, next)
  PROVE  /\ \/ azure'[c] = after /\ pc'[c] = next
            \/ azure'[c] \in {azure[c], after} /\ pc'[c] = "close"
         /\ \A d \in Clusters \ {c} : azure'[d] = azure[d] /\ pc'[d] = pc[d]
         /\ UNCHANGED <<kind, cluster, seen, infra, scope, stale, cleaned>>
BY DEF TypeOK, Call, Goto

\* A skipped step changes the pc of c and nothing else.
LEMMA SkipEffect ==
  ASSUME TypeOK, NEW c \in Clusters, NEW next, Skip(c, next)
  PROVE  /\ pc'[c] = next
         /\ \A d \in Clusters \ {c} : pc'[d] = pc[d]
         /\ UNCHANGED <<kind, cluster, seen, infra, azure, scope, stale, cleaned>>
BY DEF TypeOK, Skip, Goto

\* What PatchObject does to the infrastructure cluster and to the scope.
LEMMA PatchEffect ==
  ASSUME TypeOK, NEW c \in Clusters, NEW m, NEW next, NEW failed,
         PatchObject(c, m, next, failed)
  PROVE  /\ \/ /\ kind[c] # AzureCluster /\ Accepted(c)
               /\ infra'[c] = Stored(c, m) /\ pc'[c] = next
               /\ next # "idle" => scope'[c] = Refreshed(c, m) /\ stale'[c] = FALSE
            \/ /\ kind[c] # AzureCluster /\ Accepted(c)
               /\ infra'[c] = Stored(c, m) /\ pc'[c] = failed
               /\ failed # "idle" => scope'[c] = m /\ stale'[c] = TRUE
            \/ /\ infra'[c] = infra[c] /\ pc'[c] = failed
               /\ failed # "idle" => scope'[c] = m /\ (stale[c] => stale'[c])
            \/ /\ kind[c] = AzureCluster
               /\ infra'[c] = infra[c] /\ pc'[c] = next
               /\ next # "idle" => scope'[c] = m /\ (stale[c] => stale'[c])
         /\ \A d \in Clusters \ {c} :
              /\ infra'[d] = infra[d] /\ pc'[d] = pc[d]
              /\ scope'[d] = scope[d] /\ stale'[d] = stale[d]
         /\ UNCHANGED <<kind, cluster, seen, azure, cleaned>>
<1>1. CASE CommonPatchObject(c, m, next, failed)
  BY <1>1 DEF TypeOK, PatchObject, CommonPatchObject, Goto, Hold, Outdate
<1>2. CASE CAPZPatchObject(c, m, next, failed)
  BY <1>2 DEF TypeOK, PatchObject, CAPZPatchObject, Goto, Hold, Outdate
<1> QED BY <1>1, <1>2 DEF PatchObject

\* The part of it that concerns a kind with a CommonPatcher.
LEMMA CommonPatchEffect ==
  ASSUME TypeOK, NEW c \in Clusters, NEW m, NEW next, NEW failed,
         PatchObject(c, m, next, failed), kind[c] # AzureCluster
  PROVE  /\ azure'[c] = azure[c]
         /\ \/ /\ infra[c].exists /\ ~stale[c]
               /\ infra'[c] = Stored(c, m)
               /\ \/ pc'[c] = next /\ (next # "idle" => scope'[c] = Refreshed(c, m))
                  \/ pc'[c] = failed /\ (failed # "idle" => scope'[c] = m)
            \/ /\ infra'[c] = infra[c] /\ pc'[c] = failed
               /\ failed # "idle" => scope'[c] = m
<1>1. azure' = azure /\ CommonPatchObject(c, m, next, failed)
  BY DEF PatchObject, CAPZPatchObject
<1> QED BY <1>1 DEF TypeOK, CommonPatchObject, Goto, Hold, Accepted

\* PatchObject for c leaves every other cluster alone.
LEMMA PatchFrame ==
  ASSUME TypeOK, NEW c \in Clusters, NEW d \in Clusters \ {c},
         NEW m, NEW next, NEW failed, PatchObject(c, m, next, failed)
  PROVE  Same(d)
<1>1. UNCHANGED <<kind, cluster, seen, azure, cleaned>>
  BY DEF PatchObject
<1>2. infra'[d] = infra[d] /\ pc'[d] = pc[d] /\ scope'[d] = scope[d] /\ stale'[d] = stale[d]
  BY PatchEffect
<1> QED BY <1>1, <1>2 DEF Same

\* What a change of the Cluster by others leaves alone.
LEMMA SetClusterEffect ==
  ASSUME TypeOK, NEW c \in Clusters, NEW o, SetCluster(c, o)
  PROVE  /\ cluster'[c] = o
         /\ \A d \in Clusters \ {c} : cluster'[d] = cluster[d]
         /\ UNCHANGED <<kind, seen, infra, azure, pc, scope, stale, cleaned>>
BY DEF TypeOK, SetCluster

\* What a change of the infrastructure cluster by others does.
LEMMA SetInfraEffect ==
  ASSUME TypeOK, NEW c \in Clusters, NEW o, SetInfra(c, o)
  PROVE  /\ infra'[c] = Reap(o)
         /\ stale'[c] = (pc[c] # "idle")
         /\ \A d \in Clusters \ {c} : infra'[d] = infra[d] /\ stale'[d] = stale[d]
         /\ UNCHANGED <<kind, cluster, seen, azure, pc, scope, cleaned>>
BY DEF TypeOK, SetInfra, Outdate

\* What a step of the reconcile does when it is not a call, a patch or nothing.
LEMMA ConditionEffect ==
  ASSUME TypeOK, NEW c \in Clusters, SetGSDNSZoneReady(c), kind[c] # ASOManaged
  PROVE  /\ \/ /\ Accepted(c)
               /\ infra'[c] = [infra[c] EXCEPT !.dnsReady = TRUE]
               /\ pc'[c] = "patch" /\ stale'[c] = stale[c]
               /\ scope'[c] = Observe(infra'[c], scope[c].provisioned)
            \/ /\ Accepted(c)
               /\ infra'[c] = [infra[c] EXCEPT !.dnsReady = TRUE]
               /\ pc'[c] = "close" /\ stale'[c] = TRUE
               /\ scope'[c] = [scope[c] EXCEPT !.dnsReady = TRUE]
            \/ /\ infra'[c] = infra[c]
               /\ pc'[c] = "close" /\ stale'[c] = stale[c]
               /\ scope'[c] = [scope[c] EXCEPT !.dnsReady = TRUE]
         /\ \A d \in Clusters \ {c} :
              /\ infra'[d] = infra[d] /\ pc'[d] = pc[d]
              /\ scope'[d] = scope[d] /\ stale'[d] = stale[d]
         /\ UNCHANGED <<kind, cluster, seen, azure, cleaned>>
<1> DEFINE ready  == [scope[c] EXCEPT !.dnsReady = TRUE]
           stored == [infra[c] EXCEPT !.dnsReady = TRUE]
<1>1. ready.provisioned = scope[c].provisioned
  BY DEF TypeOK, Scope
<1> QED BY <1>1 DEF TypeOK, SetGSDNSZoneReady, Goto, Hold, Outdate

\* An action of c leaves the state of every other cluster as it is.
LEMMA Frame ==
  ASSUME TypeOK, NEW c \in Clusters, NEW d \in Clusters \ {c}, Act(c)
  PROVE  Same(d)
<1>1. CASE Reconcile(c)
  BY <1>1 DEF Same, TypeOK, Reconcile, Goto
<1>2. CASE RegisterFinalizer(c)
  BY <1>2, SkipEffect, PatchFrame DEF Same, RegisterFinalizer
<1>3. CASE CheckReady(c) \/ FinalPatch(c) \/ Close(c)
  BY <1>3, SkipEffect, PatchFrame DEF Same, CheckReady, FinalPatch, Close
<1>4. CASE ReconcilePrivateApi(c) \/ ReconcilePrivateIngress(c)
  BY <1>4, SkipEffect, CallEffect DEF Same, ReconcilePrivateApi, ReconcilePrivateIngress
<1>5. CASE \/ CreateClusterResourceGroup(c) \/ CreateClusterDNSZone(c)
           \/ CreateClusterNSRecord(c) \/ UpdateRecords(c)
  BY <1>5, SkipEffect, CallEffect
     DEF Same, CreateClusterResourceGroup, CreateClusterDNSZone,
         CreateClusterNSRecord, UpdateRecords
<1>6. CASE SetGSDNSZoneReady(c)
  <2>1. CASE kind[c] = ASOManaged
    BY <1>6, <2>1, SkipEffect DEF Same, SetGSDNSZoneReady
  <2>2. CASE kind[c] # ASOManaged
    BY <1>6, <2>2, ConditionEffect DEF Same
  <2> QED BY <2>1, <2>2
<1>7. CASE \/ DeletePrivateApi(c) \/ DeletePrivateIngress(c)
           \/ DeleteClusterNSRecords(c) \/ DeleteClusterResourceGroup(c)
  BY <1>7, SkipEffect, CallEffect
     DEF Same, DeletePrivateApi, DeletePrivateIngress, DeleteClusterNSRecords,
         DeleteClusterResourceGroup
<1>8. CASE RemoveFinalizer(c)
  BY <1>8 DEF Same, TypeOK, RemoveFinalizer, Goto
<1>9. CASE \/ Provision(c) \/ TogglePause(c) \/ DeleteCluster(c) \/ ForgetCluster(c)
  BY <1>9, SetClusterEffect DEF Same, Provision, TogglePause, DeleteCluster, ForgetCluster
<1>10. CASE \/ \E status \in Condition : SetLoadBalancersReady(c, status)
            \/ \E links \in SUBSET Links : Annotate(c, links)
            \/ DeleteInfra(c) \/ ProviderRelease(c) \/ TogglePauseInfra(c)
  BY <1>10, SetInfraEffect
     DEF Same, TogglePauseInfra, SetLoadBalancersReady, Annotate, DeleteInfra, ProviderRelease
<1>11. CASE CAPZDeleteGroup(c) \/ Sync(c)
  BY <1>11 DEF Same, TypeOK, CAPZDeleteGroup, Sync
<1> QED BY <1>1, <1>2, <1>3, <1>4, <1>5, <1>6, <1>7, <1>8, <1>9, <1>10, <1>11
        DEF Act, Step, Environment

------------------------------------------------------------------------------
(***************************************************************************)
(* The finalizer protects the resources of an AzureASOManagedCluster.      *)
(*                                                                         *)
(* NeverOrphaned alone is not inductive: it says nothing of an object that *)
(* still exists. What is true all the time is that resources exist only    *)
(* under the stored finalizer, that a reconcile that creates them has seen *)
(* the finalizer stored, and that a reconcile holding an object without    *)
(* the finalizer (which its Close may write back) leaves nothing behind.   *)
(***************************************************************************)
Creating == {"ready", "privateApi", "privateIngress", "rg", "zone", "ns", "records"}

Protected(c) ==
  kind[c] = ASOManaged =>
    /\ azure[c] \subseteq PublicResources
    /\ infra[c].fin => infra[c].exists
    /\ azure[c] # {} => infra[c].fin
    /\ pc[c] \in Creating => infra[c].fin /\ scope[c].fin
    /\ pc[c] = "register" /\ scope[c].fin => infra[c].fin
    /\ pc[c] # "idle" /\ ~scope[c].fin => azure[c] = {}
    /\ pc[c] = "delRG" => "ns" \notin azure[c]
    /\ pc[c] = "unregister" => azure[c] = {}

Protection == \A c \in Clusters : Protected(c)

(***************************************************************************)
(* The other invariants.                                                   *)
(***************************************************************************)
\* reconcileDelete deletes the delegation before the zone.
Delegated(c) ==
  /\ kind[c] # AzureCluster /\ "ns" \in azure[c] => "zone" \in azure[c]
  /\ kind[c] # AzureCluster /\ pc[c] = "delRG" => "ns" \notin azure[c]

Delegation == \A c \in Clusters : Delegated(c)

\* A deletion is never unseen again, so nothing is created after a cleanup.
Ended(c) ==
  /\ seen[c].deleting => cluster[c].deleting
  /\ pc[c] \in DeleteSteps => seen[c].deleting \/ infra[c].deleting
  /\ cleaned[c] => seen[c].deleting \/ infra[c].deleting
  /\ cleaned[c] => pc[c] \notin NormalSteps

Ending == \A c \in Clusters : Ended(c)

\* CAPZ may be deleting the group of an AzureCluster.
Leaving(c) == kind[c] = AzureCluster /\ infra[c].deleting

\* What reconcileNormal has created is still there when it sets the condition,
\* or the object it holds is outdated and the update will be refused.
Truthful(c) ==
  /\ pc[c] \in NormalSteps /\ infra[c].deleting => stale[c]
  /\ pc[c] \in {"ns", "records", "condition"} => "zone" \in azure[c] \/ Leaving(c)
  /\ pc[c] \in {"records", "condition"} => "ns" \in azure[c]
  /\ pc[c] = "condition" => "records" \in azure[c] \/ Leaving(c)
  /\ kind[c] = VSphere /\ pc[c] # "idle" /\ scope[c].dnsReady /\ ~infra[c].dnsReady
       => pc[c] = "close" /\ {"zone", "ns", "records"} \subseteq azure[c]

Truth == \A c \in Clusters : Truthful(c)

------------------------------------------------------------------------------
\* What PatchObject stores for each kind.
LEMMA StoredFields ==
  ASSUME TypeOK, NEW c \in Clusters, NEW m \in Scope
  PROVE  /\ Stored(c, m).deleting = infra[c].deleting
         /\ kind[c] = ASOManaged =>
              /\ Stored(c, m).fin = m.fin
              /\ m.fin => Stored(c, m).exists = infra[c].exists
              /\ Stored(c, m).dnsReady = infra[c].dnsReady
         /\ kind[c] # ASOManaged => Stored(c, m).dnsReady = m.dnsReady
<1>0. infra[c] \in InfraObject /\ m.fin \in BOOLEAN /\ m.dnsReady \in BOOLEAN
  BY DEF TypeOK, Scope
<1> DEFINE o == [infra[c] EXCEPT !.fin = m.fin]
<1>1. o \in InfraObject
  BY <1>0, InfraEdit
<1>2. /\ o.fin = m.fin /\ o.deleting = infra[c].deleting
      /\ o.exists = infra[c].exists /\ o.dnsReady = infra[c].dnsReady
  BY <1>0 DEF InfraObject
<1>3. CASE kind[c] = ASOManaged
  <2>1. Stored(c, m) = Reap(o)
    BY <1>3 DEF Stored
  <2> HIDE DEF o
  <2> QED BY <1>1, <1>2, <1>3, <2>1, ReapType
<1>4. CASE kind[c] # ASOManaged
  BY <1>0, <1>4 DEF Stored, InfraObject
<1> QED BY <1>3, <1>4

\* An action of c preserves the protection of c.
LEMMA ProtectedAct ==
  ASSUME TypeOK, NEW c \in Clusters, Protected(c), Act(c)
  PROVE  Protected(c)'
<1> SUFFICES ASSUME kind[c] = ASOManaged, kind'[c] = ASOManaged
             PROVE  Protected(c)'
  <2>1. kind' = kind
    BY DEF Act, Step, Environment, Reconcile, RegisterFinalizer, CheckReady, FinalPatch,
           Close, ReconcilePrivateApi, ReconcilePrivateIngress, CreateClusterResourceGroup,
           CreateClusterDNSZone, CreateClusterNSRecord, UpdateRecords, SetGSDNSZoneReady,
           DeletePrivateApi, DeletePrivateIngress, DeleteClusterNSRecords,
           DeleteClusterResourceGroup, RemoveFinalizer, Provision, TogglePause,
           TogglePauseInfra, SetLoadBalancersReady, Annotate, DeleteCluster, DeleteInfra, CAPZDeleteGroup,
           ProviderRelease, ForgetCluster, Sync, Call, Skip, PatchObject, SetCluster, SetInfra
  <2> QED BY <2>1 DEF Protected
<1>0. /\ scope[c] \in Scope /\ infra[c] \in InfraObject /\ azure[c] \in SUBSET Resources
      /\ scope[c].fin \in BOOLEAN
  BY DEF TypeOK, Scope
<1>1. CASE Reconcile(c)
  <2>1. /\ scope'[c] = Observe(infra[c], seen[c].provisioned)
        /\ pc'[c] \in {"register", "delPrivateApi"}
        /\ infra'[c] = infra[c] /\ azure'[c] = azure[c]
    BY <1>1 DEF Reconcile, Goto, TypeOK
  <2>2. scope'[c].fin = infra[c].fin
    BY <2>1 DEF Observe
  <2> QED BY <2>1, <2>2 DEF Protected, Creating
<1>2. CASE RegisterFinalizer(c)
  <2>1. CASE scope[c].fin
    BY <1>2, <2>1, SkipEffect DEF RegisterFinalizer, Protected, Creating
  <2>2. CASE ~scope[c].fin
    <3> DEFINE m == [scope[c] EXCEPT !.fin = TRUE]
    <3>1. m \in Scope /\ m.fin = TRUE
      BY <1>0 DEF Scope
    <3>2. PatchObject(c, m, "ready", "close")
      BY <1>2, <2>2 DEF RegisterFinalizer
    <3> HIDE DEF m
    <3>3. Refreshed(c, m) = m
      BY DEF Refreshed
    <3>4. /\ azure'[c] = azure[c] /\ azure[c] = {}
          /\ scope'[c] = m /\ pc'[c] \in {"ready", "close"}
          /\ \/ infra'[c] = Stored(c, m) /\ infra[c].exists
             \/ infra'[c] = infra[c] /\ pc'[c] = "close"
      <4>1. pc[c] = "register" /\ azure[c] = {}
        BY <1>2, <2>2 DEF RegisterFinalizer, Protected
      <4> QED BY <3>2, <3>3, <4>1, CommonPatchEffect
    <3>5. infra'[c].fin => infra'[c].exists
      BY <3>1, <3>4, StoredFields DEF Protected
    <3>6. pc'[c] = "ready" => infra'[c].fin
      BY <3>1, <3>4, StoredFields
    <3> QED BY <3>1, <3>4, <3>5, <3>6 DEF Protected, Creating
  <2> QED BY <2>1, <2>2
<1>3. CASE CheckReady(c)
  BY <1>3, SkipEffect DEF CheckReady, Protected, Creating
<1>4. CASE ReconcilePrivateApi(c)
  BY <1>4, SkipEffect DEF ReconcilePrivateApi, Wants, Protected, Creating
<1>5. CASE ReconcilePrivateIngress(c)
  BY <1>5, SkipEffect DEF ReconcilePrivateIngress, Wants, Protected, Creating
<1>6. CASE CreateClusterResourceGroup(c)
  BY <1>6, CallEffect DEF CreateClusterResourceGroup, Protected, Creating, PublicResources
<1>7. CASE CreateClusterDNSZone(c)
  BY <1>7, SkipEffect, CallEffect
     DEF CreateClusterDNSZone, Protected, Creating, PublicResources
<1>8. CASE CreateClusterNSRecord(c)
  BY <1>8, SkipEffect, CallEffect
     DEF CreateClusterNSRecord, Protected, Creating, PublicResources
<1>9. CASE UpdateRecords(c)
  BY <1>9, SkipEffect, CallEffect DEF UpdateRecords, Protected, Creating, PublicResources
<1>10. CASE SetGSDNSZoneReady(c)
  BY <1>10, SkipEffect DEF SetGSDNSZoneReady, Protected, Creating
<1>11. CASE FinalPatch(c) \/ Close(c)
  <2> DEFINE m == scope[c]
  <2>1. Refreshed(c, m) = m
    BY DEF Refreshed
  <2>2. /\ azure'[c] = azure[c] /\ pc[c] # "idle"
        /\ pc'[c] \in {"idle", "close"}
        /\ pc'[c] # "idle" => scope'[c] = scope[c]
        /\ \/ infra'[c] = Stored(c, m) /\ infra[c].exists
           \/ infra'[c] = infra[c]
    <3>1. CASE FinalPatch(c)
      BY <2>1, <3>1, CommonPatchEffect DEF FinalPatch
    <3>2. CASE Close(c)
      BY <2>1, <3>2, CommonPatchEffect DEF Close
    <3> QED BY <1>11, <3>1, <3>2
  <2>3. CASE infra'[c] = infra[c]
    BY <2>2, <2>3 DEF Protected, Creating
  <2>4. CASE infra'[c] = Stored(c, m) /\ infra[c].exists
    <3>1. infra'[c].fin = m.fin /\ (m.fin => infra'[c].exists)
      BY <1>0, <2>4, StoredFields
    <3> QED BY <2>2, <3>1 DEF Protected, Creating
  <2> QED BY <2>2, <2>3, <2>4
<1>12. CASE DeletePrivateApi(c)
  BY <1>12, SkipEffect DEF DeletePrivateApi, Wants, Protected, Creating
<1>13. CASE DeletePrivateIngress(c)
  BY <1>13, SkipEffect DEF DeletePrivateIngress, Wants, Protected, Creating
<1>14. CASE DeleteClusterNSRecords(c)
  BY <1>14, CallEffect DEF DeleteClusterNSRecords, Protected, Creating, PublicResources
<1>15. CASE DeleteClusterResourceGroup(c)
  BY <1>15, CallEffect
     DEF DeleteClusterResourceGroup, Protected, Creating, PublicResources, InGroup
<1>16. CASE RemoveFinalizer(c)
  <2>1. /\ pc[c] = "unregister" /\ pc'[c] = "close"
        /\ infra'[c] = infra[c] /\ azure'[c] = azure[c]
    BY <1>16 DEF RemoveFinalizer, Goto, TypeOK
  <2> QED BY <2>1 DEF Protected, Creating
<1>17. CASE Provision(c) \/ TogglePause(c) \/ DeleteCluster(c) \/ ForgetCluster(c)
  BY <1>17, SetClusterEffect
     DEF Protected, Creating, Provision, TogglePause, DeleteCluster, ForgetCluster
<1>18. CASE \/ \E status \in Condition : SetLoadBalancersReady(c, status)
            \/ \E links \in SUBSET Links : Annotate(c, links)
            \/ CAPZDeleteGroup(c)
  BY <1>18 DEF SetLoadBalancersReady, Annotate, CAPZDeleteGroup
<1>19. ASSUME NEW o \in InfraObject, SetInfra(c, o),
              o.fin = infra[c].fin, o.exists = infra[c].exists
       PROVE  Protected(c)'
  <2>1. infra'[c].fin = infra[c].fin /\ (infra[c].fin => infra'[c] = o)
    BY <1>19, SetInfraEffect, ReapType
  <2> QED BY <1>19, <2>1, SetInfraEffect DEF Protected, Creating
<1>20. CASE DeleteInfra(c)
  <2> DEFINE o == [infra[c] EXCEPT !.deleting = TRUE]
  <2>1. o \in InfraObject /\ o.fin = infra[c].fin /\ o.exists = infra[c].exists
    BY <1>0 DEF InfraObject
  <2> QED BY <1>19, <1>20, <2>1 DEF DeleteInfra
<1>21. CASE ProviderRelease(c)
  <2> DEFINE o == [infra[c] EXCEPT !.others = FALSE]
  <2>1. o \in InfraObject /\ o.fin = infra[c].fin /\ o.exists = infra[c].exists
    BY <1>0 DEF InfraObject
  <2> QED BY <1>19, <1>21, <2>1 DEF ProviderRelease
<1>22. CASE Sync(c)
  BY <1>22 DEF Sync, Protected, Creating
<1>23. CASE TogglePauseInfra(c)
  BY <1>0, <1>19, <1>23, PauseEdit DEF TogglePauseInfra
<1> QED BY <1>1, <1>2, <1>3, <1>4, <1>5, <1>6, <1>7, <1>8, <1>9, <1>10, <1>11,
           <1>12, <1>13, <1>14, <1>15, <1>16, <1>17, <1>18, <1>20, <1>21, <1>22,
           <1>23
        DEF Act, Step, Environment

\* Protection is inductive.
LEMMA ProtectionNext == TypeOK /\ Protection /\ [Next]_vars => Protection'
<1> SUFFICES ASSUME TypeOK, Protection, [Next]_vars, NEW d \in Clusters
             PROVE  Protected(d)'
  BY DEF Protection
<1>0. Protected(d)
  BY DEF Protection
<1>1. ASSUME NEW c \in Clusters, Act(c) PROVE Protected(d)'
  <2>1. CASE d = c
    BY <1>0, <1>1, <2>1, ProtectedAct
  <2>2. CASE d # c
    <3>1. Same(d)
      BY <1>1, <2>2, Frame
    <3> QED BY <1>0, <3>1 DEF Same, Protected
  <2> QED BY <2>1, <2>2
<1>2. CASE Crash
  BY <1>0, <1>2 DEF Crash, Protected, Creating
<1>3. CASE UNCHANGED vars
  BY <1>0, <1>3 DEF vars, Protected
<1> QED BY <1>1, <1>2, <1>3 DEF Next, Act

\* The finalizer that reconcileNormal registers before it creates anything, and
\* that only a finished reconcileDelete removes, keeps the object of every
\* AzureASOManagedCluster for as long as the operator's Azure resources exist:
\* through lost answers, conflicts, restarts and a deletion at any moment.
THEOREM FinalizerProtects == Spec => []ASONeverOrphaned
<1>1. Init => Protection
  BY DEF Init, Protection, Protected, Creating
<1>2. TypeOK /\ Protection /\ [Next]_vars => Protection'
  BY ProtectionNext
<1>3. Protection => ASONeverOrphaned
  BY DEF Protection, Protected, ASONeverOrphaned
<1> QED BY <1>1, <1>2, <1>3, TypeCorrect, PTL DEF Spec

------------------------------------------------------------------------------
\* An action of c preserves the order of zone and delegation of c.
LEMMA DelegatedAct ==
  ASSUME TypeOK, NEW c \in Clusters, Delegated(c), Act(c)
  PROVE  Delegated(c)'
<1> USE DEF Delegated
<1>1. CASE Reconcile(c)
  BY <1>1 DEF Reconcile, Goto, TypeOK
<1>2. CASE RegisterFinalizer(c)
  <2>1. CASE scope[c].fin
    BY <1>2, <2>1, SkipEffect DEF RegisterFinalizer
  <2>2. CASE ~scope[c].fin
    <3>1. PatchObject(c, [scope[c] EXCEPT !.fin = TRUE], "ready", "close")
      BY <1>2, <2>2 DEF RegisterFinalizer
    <3>2. kind' = kind /\ azure' = azure /\ pc'[c] # "delRG"
      BY <3>1 DEF PatchObject, CommonPatchObject, CAPZPatchObject, Goto, TypeOK
    <3> QED BY <3>2
  <2> QED BY <2>1, <2>2
<1>3. CASE FinalPatch(c) \/ Close(c)
  <2>1. kind' = kind /\ azure' = azure /\ pc'[c] # "delRG"
    BY <1>3 DEF FinalPatch, Close, PatchObject, CommonPatchObject, CAPZPatchObject,
                Goto, TypeOK
  <2> QED BY <2>1
<1>4. CASE CheckReady(c)
  BY <1>4, SkipEffect DEF CheckReady
<1>5. CASE ReconcilePrivateApi(c) \/ ReconcilePrivateIngress(c)
  BY <1>5, SkipEffect DEF ReconcilePrivateApi, ReconcilePrivateIngress, Wants, Call, Goto, TypeOK
<1>6. CASE CreateClusterResourceGroup(c)
  BY <1>6, SkipEffect, CallEffect DEF CreateClusterResourceGroup
<1>7. CASE CreateClusterDNSZone(c)
  BY <1>7, SkipEffect, CallEffect DEF CreateClusterDNSZone
<1>8. CASE CreateClusterNSRecord(c)
  BY <1>8, SkipEffect, CallEffect DEF CreateClusterNSRecord
<1>9. CASE UpdateRecords(c)
  BY <1>9, SkipEffect, CallEffect DEF UpdateRecords
<1>10. CASE SetGSDNSZoneReady(c)
  <2>1. CASE kind[c] = ASOManaged
    BY <1>10, <2>1, SkipEffect DEF SetGSDNSZoneReady
  <2>2. CASE kind[c] # ASOManaged
    BY <1>10, <2>2, ConditionEffect
  <2> QED BY <2>1, <2>2
<1>11. CASE DeletePrivateApi(c)
  BY <1>11, SkipEffect, CallEffect DEF DeletePrivateApi, Wants
<1>12. CASE DeletePrivateIngress(c)
  BY <1>12, SkipEffect, CallEffect DEF DeletePrivateIngress, Wants
<1>13. CASE DeleteClusterNSRecords(c)
  BY <1>13, CallEffect DEF DeleteClusterNSRecords
<1>14. CASE DeleteClusterResourceGroup(c)
  BY <1>14, SkipEffect, CallEffect DEF DeleteClusterResourceGroup, InGroup
<1>15. CASE RemoveFinalizer(c)
  BY <1>15 DEF RemoveFinalizer, Goto, TypeOK
<1>16. CASE Provision(c) \/ TogglePause(c) \/ DeleteCluster(c) \/ ForgetCluster(c)
  BY <1>16, SetClusterEffect DEF Provision, TogglePause, DeleteCluster, ForgetCluster
<1>17. CASE \/ \E status \in Condition : SetLoadBalancersReady(c, status)
            \/ \E links \in SUBSET Links : Annotate(c, links)
            \/ DeleteInfra(c) \/ ProviderRelease(c) \/ TogglePauseInfra(c)
  BY <1>17 DEF TogglePauseInfra, SetLoadBalancersReady, Annotate, DeleteInfra, ProviderRelease,
               SetInfra
<1>18. CASE CAPZDeleteGroup(c) \/ Sync(c)
  BY <1>18 DEF CAPZDeleteGroup, Sync
<1> QED BY <1>1, <1>2, <1>3, <1>4, <1>5, <1>6, <1>7, <1>8, <1>9, <1>10, <1>11,
           <1>12, <1>13, <1>14, <1>15, <1>16, <1>17, <1>18
        DEF Act, Step, Environment

\* Delegation is inductive.
LEMMA DelegationNext == TypeOK /\ Delegation /\ [Next]_vars => Delegation'
<1> SUFFICES ASSUME TypeOK, Delegation, [Next]_vars, NEW d \in Clusters
             PROVE  Delegated(d)'
  BY DEF Delegation
<1>0. Delegated(d)
  BY DEF Delegation
<1>1. ASSUME NEW c \in Clusters, Act(c) PROVE Delegated(d)'
  <2>1. CASE d = c
    BY <1>0, <1>1, <2>1, DelegatedAct
  <2>2. CASE d # c
    <3>1. Same(d)
      BY <1>1, <2>2, Frame
    <3> QED BY <1>0, <3>1 DEF Same, Delegated
  <2> QED BY <2>1, <2>2
<1>2. CASE Crash
  BY <1>0, <1>2 DEF Crash, Delegated
<1>3. CASE UNCHANGED vars
  BY <1>0, <1>3 DEF vars, Delegated
<1> QED BY <1>1, <1>2, <1>3 DEF Next, Act

\* dns.Service creates the zone before the NS record and deletes the NS record
\* before the group: for a cluster whose group is the operator's own, the base
\* zone never delegates to a zone that is not there.
THEOREM DelegationIsLive == Spec => []NoLameDelegation
<1>1. Init => Delegation
  BY DEF Init, Delegation, Delegated
<1>2. TypeOK /\ Delegation /\ [Next]_vars => Delegation'
  BY DelegationNext
<1>3. Delegation => NoLameDelegation
  BY DEF Delegation, Delegated, NoLameDelegation
<1> QED BY <1>1, <1>2, <1>3, TypeCorrect, PTL DEF Spec

------------------------------------------------------------------------------
\* Where a PatchObject leads, whatever it stores.
LEMMA PatchSteps ==
  ASSUME TypeOK, NEW c \in Clusters, NEW m \in Scope, NEW next, NEW failed,
         PatchObject(c, m, next, failed)
  PROVE  /\ pc'[c] \in {next, failed}
         /\ infra'[c].deleting = infra[c].deleting
         /\ UNCHANGED <<kind, cluster, seen, azure, cleaned>>
<1>1. pc'[c] \in {next, failed} /\ infra'[c] \in {infra[c], Stored(c, m)}
  BY DEF PatchObject, CommonPatchObject, CAPZPatchObject, Goto, TypeOK
<1> QED BY <1>1, StoredFields DEF PatchObject

\* An action of c preserves what a finished reconcileDelete implies for c.
LEMMA EndedAct ==
  ASSUME TypeOK, NEW c \in Clusters, Ended(c), Act(c)
  PROVE  Ended(c)'
<1> USE DEF Ended, NormalSteps, DeleteSteps
<1>0. scope[c] \in Scope /\ infra[c] \in InfraObject /\ cluster[c] \in ClusterObject
  BY DEF TypeOK
<1>1. CASE Reconcile(c)
  BY <1>1 DEF Reconcile, Goto, TypeOK
<1>2. CASE RegisterFinalizer(c)
  <2>1. [scope[c] EXCEPT !.fin = TRUE] \in Scope
    BY <1>0 DEF Scope
  <2> QED BY <1>2, <2>1, SkipEffect, PatchSteps DEF RegisterFinalizer
<1>3. CASE FinalPatch(c) \/ Close(c)
  BY <1>0, <1>3, PatchSteps DEF FinalPatch, Close
<1>4. CASE CheckReady(c)
  BY <1>4, SkipEffect DEF CheckReady
<1>5. CASE ReconcilePrivateApi(c)
  BY <1>5, SkipEffect, CallEffect DEF ReconcilePrivateApi
<1>6. CASE ReconcilePrivateIngress(c)
  BY <1>6, SkipEffect, CallEffect DEF ReconcilePrivateIngress
<1>7. CASE CreateClusterResourceGroup(c)
  BY <1>7, SkipEffect, CallEffect DEF CreateClusterResourceGroup
<1>8. CASE CreateClusterDNSZone(c)
  BY <1>8, SkipEffect, CallEffect DEF CreateClusterDNSZone
<1>9. CASE CreateClusterNSRecord(c)
  BY <1>9, SkipEffect, CallEffect DEF CreateClusterNSRecord
<1>10. CASE UpdateRecords(c)
  BY <1>10, SkipEffect, CallEffect DEF UpdateRecords
<1>11. CASE SetGSDNSZoneReady(c)
  <2>0. pc[c] = "condition"
    BY <1>11 DEF SetGSDNSZoneReady
  <2>1. CASE kind[c] = ASOManaged
    BY <1>11, <2>0, <2>1, SkipEffect DEF SetGSDNSZoneReady
  <2>2. CASE kind[c] # ASOManaged
    BY <1>11, <2>0, <2>2, ConditionEffect
  <2> QED BY <2>1, <2>2
<1>12. CASE DeletePrivateApi(c)
  BY <1>12, SkipEffect, CallEffect DEF DeletePrivateApi
<1>13. CASE DeletePrivateIngress(c)
  BY <1>13, SkipEffect, CallEffect DEF DeletePrivateIngress
<1>14. CASE DeleteClusterNSRecords(c)
  BY <1>14, CallEffect DEF DeleteClusterNSRecords
<1>15. CASE DeleteClusterResourceGroup(c)
  BY <1>15, SkipEffect, CallEffect DEF DeleteClusterResourceGroup
<1>16. CASE RemoveFinalizer(c)
  BY <1>16 DEF RemoveFinalizer, Goto, TypeOK
<1>17. CASE Provision(c) \/ TogglePause(c) \/ DeleteCluster(c) \/ ForgetCluster(c)
  <2>1. cluster[c].deleting => cluster'[c].deleting
    BY <1>0, <1>17, SetClusterEffect
       DEF Provision, TogglePause, DeleteCluster, ForgetCluster, ClusterObject
  <2>2. UNCHANGED <<seen, infra, pc, cleaned>>
    BY <1>17 DEF Provision, TogglePause, DeleteCluster, ForgetCluster, SetCluster
  <2> QED BY <2>1, <2>2
<1>18. ASSUME NEW o \in InfraObject, SetInfra(c, o), infra[c].deleting => o.deleting
       PROVE  Ended(c)'
  <2>1. infra[c].deleting => infra'[c].deleting
    BY <1>18, SetInfraEffect, ReapType
  <2> QED BY <1>18, <2>1, SetInfraEffect
<1>19. CASE DeleteInfra(c)
  <2>1. [infra[c] EXCEPT !.deleting = TRUE] \in InfraObject
        /\ [infra[c] EXCEPT !.deleting = TRUE].deleting
    BY <1>0 DEF InfraObject
  <2> QED BY <1>18, <1>19, <2>1 DEF DeleteInfra
<1>20. CASE ProviderRelease(c)
  <2>1. [infra[c] EXCEPT !.others = FALSE] \in InfraObject
        /\ [infra[c] EXCEPT !.others = FALSE].deleting = infra[c].deleting
    BY <1>0 DEF InfraObject
  <2> QED BY <1>18, <1>20, <2>1 DEF ProviderRelease
<1>21. ASSUME NEW status \in Condition, SetLoadBalancersReady(c, status)
       PROVE  Ended(c)'
  <2>1. [infra[c] EXCEPT !.lb = status] \in InfraObject
        /\ [infra[c] EXCEPT !.lb = status].deleting = infra[c].deleting
    BY <1>0 DEF InfraObject
  <2> QED BY <1>18, <1>21, <2>1 DEF SetLoadBalancersReady
<1>22. ASSUME NEW links \in SUBSET Links, Annotate(c, links)
       PROVE  Ended(c)'
  <2>1. [infra[c] EXCEPT !.links = links] \in InfraObject
        /\ [infra[c] EXCEPT !.links = links].deleting = infra[c].deleting
    BY <1>0 DEF InfraObject
  <2> QED BY <1>18, <1>22, <2>1 DEF Annotate
<1>23. CASE CAPZDeleteGroup(c)
  BY <1>23 DEF CAPZDeleteGroup
<1>24. CASE Sync(c)
  BY <1>24 DEF Sync, TypeOK
<1>25. CASE TogglePauseInfra(c)
  BY <1>0, <1>18, <1>25, PauseEdit DEF TogglePauseInfra
<1> QED BY <1>1, <1>2, <1>3, <1>4, <1>5, <1>6, <1>7, <1>8, <1>9, <1>10, <1>11,
           <1>12, <1>13, <1>14, <1>15, <1>16, <1>17, <1>19, <1>20, <1>21, <1>22,
           <1>23, <1>24, <1>25
        DEF Act, Step, Environment

\* Ending is inductive.
LEMMA EndingNext == TypeOK /\ Ending /\ [Next]_vars => Ending'
<1> SUFFICES ASSUME TypeOK, Ending, [Next]_vars, NEW d \in Clusters
             PROVE  Ended(d)'
  BY DEF Ending
<1>0. Ended(d)
  BY DEF Ending
<1>1. ASSUME NEW c \in Clusters, Act(c) PROVE Ended(d)'
  <2>1. CASE d = c
    BY <1>0, <1>1, <2>1, EndedAct
  <2>2. CASE d # c
    <3>1. Same(d)
      BY <1>1, <2>2, Frame
    <3> QED BY <1>0, <3>1 DEF Same, Ended
  <2> QED BY <2>1, <2>2
<1>2. CASE Crash
  BY <1>0, <1>2 DEF Crash, Ended, NormalSteps, DeleteSteps
<1>3. CASE UNCHANGED vars
  BY <1>0, <1>3 DEF vars, Ended
<1> QED BY <1>1, <1>2, <1>3 DEF Next, Act

\* Outside reconcileNormal nothing is created.
LEMMA OnlyNormalStepsCreate ==
  ASSUME TypeOK, NEW c \in Clusters, Act(c), pc[c] \notin NormalSteps
  PROVE  azure'[c] \subseteq azure[c]
<1> USE DEF NormalSteps
<1>1. CASE Reconcile(c)
  BY <1>1 DEF Reconcile
<1>2. CASE Step(c)
  <2>1. CASE DeletePrivateApi(c)
    BY <2>1, SkipEffect, CallEffect DEF DeletePrivateApi
  <2>2. CASE DeletePrivateIngress(c)
    BY <2>2, SkipEffect, CallEffect DEF DeletePrivateIngress
  <2>3. CASE DeleteClusterNSRecords(c)
    BY <2>3, CallEffect DEF DeleteClusterNSRecords
  <2>4. CASE DeleteClusterResourceGroup(c)
    BY <2>4, SkipEffect, CallEffect DEF DeleteClusterResourceGroup
  <2>5. CASE RemoveFinalizer(c) \/ Close(c)
    BY <2>5 DEF RemoveFinalizer, Close, PatchObject
  <2> QED BY <1>2, <2>1, <2>2, <2>3, <2>4, <2>5
          DEF Step, RegisterFinalizer, CheckReady, ReconcilePrivateApi,
              ReconcilePrivateIngress, CreateClusterResourceGroup, CreateClusterDNSZone,
              CreateClusterNSRecord, UpdateRecords, SetGSDNSZoneReady, FinalPatch
<1>3. CASE Environment(c)
  <2>1. CASE CAPZDeleteGroup(c)
    BY <2>1 DEF CAPZDeleteGroup, TypeOK
  <2> QED BY <1>3, <2>1
          DEF Environment, Provision, TogglePause, DeleteCluster, ForgetCluster,
              TogglePauseInfra, SetLoadBalancersReady, Annotate, DeleteInfra, ProviderRelease,
              Sync, SetCluster, SetInfra
<1> QED BY <1>1, <1>2, <1>3 DEF Act

\* Once reconcileDelete has run to its end nothing is created for the cluster
\* again, although the Cluster is read from a cache that may be arbitrarily old:
\* the deletion that was acted on stays visible in the cached Cluster or in the
\* infrastructure cluster, which is read live.
THEOREM CleanupIsFinal == Spec => NoResurrection
<1>1. Init => Ending
  BY DEF Init, Ending, Ended, DeleteSteps
<1>2. TypeOK /\ Ending /\ [Next]_vars => Ending'
  BY EndingNext
<1>3. TypeOK /\ Ending /\ [Next]_vars
        => [\A c \in Clusters : cleaned[c] => azure'[c] \subseteq azure[c]]_vars
  <2> SUFFICES ASSUME TypeOK, Ending, [Next]_vars, NEW d \in Clusters, cleaned[d]
               PROVE  azure'[d] \subseteq azure[d]
    OBVIOUS
  <2>0. pc[d] \notin NormalSteps
    BY DEF Ending, Ended
  <2>1. ASSUME NEW c \in Clusters, Act(c) PROVE azure'[d] \subseteq azure[d]
    <3>1. CASE d = c
      BY <2>0, <2>1, <3>1, OnlyNormalStepsCreate
    <3>2. CASE d # c
      BY <2>1, <3>2, Frame DEF Same
    <3> QED BY <3>1, <3>2
  <2>2. CASE Crash \/ UNCHANGED vars
    BY <2>2 DEF Crash, vars
  <2> QED BY <2>1, <2>2 DEF Next, Act
<1> QED BY <1>1, <1>2, <1>3, TypeCorrect, PTL DEF Spec, NoResurrection

------------------------------------------------------------------------------
\* An action of c preserves what the condition of c may be raised from.
LEMMA TruthfulAct ==
  ASSUME TypeOK, NEW c \in Clusters, Truthful(c), Act(c)
  PROVE  Truthful(c)'
<1> USE DEF Truthful, Leaving, NormalSteps
<1>0. /\ scope[c] \in Scope /\ infra[c] \in InfraObject /\ stale[c] \in BOOLEAN
      /\ scope[c].dnsReady \in BOOLEAN /\ infra[c].dnsReady \in BOOLEAN
      /\ infra[c].deleting \in BOOLEAN
  BY DEF TypeOK, Scope, InfraObject
<1>1. CASE Reconcile(c)
  <2>1. scope'[c].dnsReady = infra[c].dnsReady
    BY <1>1 DEF Reconcile, Observe, TypeOK
  <2>2. /\ pc'[c] \in {"register", "delPrivateApi"}
        /\ pc'[c] = "register" => ~infra[c].deleting
        /\ UNCHANGED <<kind, infra, azure, stale>>
    BY <1>1 DEF Reconcile, Goto, TypeOK
  <2> QED BY <2>1, <2>2
<1>2. ASSUME NEW m \in Scope, NEW next \in {"ready", "close", "idle"},
             NEW failed \in {"close", "idle"}, PatchObject(c, m, next, failed),
             m.dnsReady = scope[c].dnsReady, pc[c] \in {"register", "patch", "close"},
             pc[c] = "register" <=> next = "ready",
             pc[c] = "close" => next = "idle" /\ failed = "idle"
      PROVE  Truthful(c)'
  <2>0. kind' = kind /\ azure' = azure
    BY <1>2 DEF PatchObject
  <2>1. infra'[c].deleting = infra[c].deleting /\ pc'[c] \in {next, failed}
    BY <1>2, PatchSteps
  <2>2. pc'[c] = "ready" => (infra'[c].deleting => stale'[c])
    <3>1. pc'[c] = "ready" => (Accepted(c) \/ (stale[c] => stale'[c]))
      BY <1>2, PatchEffect
    <3>2. pc'[c] = "ready" /\ infra[c].deleting => stale[c]
      BY <1>2, <2>1
    <3> QED BY <2>1, <3>1, <3>2 DEF Accepted
  <2>3. kind[c] = VSphere /\ pc'[c] # "idle" /\ scope'[c].dnsReady
          => infra'[c].dnsReady
    <3>1. SUFFICES ASSUME kind[c] = VSphere, pc'[c] # "idle", scope'[c].dnsReady
                   PROVE  infra'[c].dnsReady
      OBVIOUS
    <3>2. Stored(c, m).dnsReady = m.dnsReady
      BY <1>2, <3>1, StoredFields
    <3>3. Refreshed(c, m).dnsReady = m.dnsReady
      BY <3>1, <3>2 DEF Refreshed, Observe
    <3>4. m.dnsReady => infra[c].dnsReady
      BY <1>2, <2>1, <3>1
    <3>5. \/ infra'[c] = Stored(c, m) /\ scope'[c] \in {m, Refreshed(c, m)}
          \/ infra'[c] = infra[c] /\ scope'[c] = m
      BY <1>2, <3>1, CommonPatchEffect
    <3> QED BY <3>1, <3>2, <3>3, <3>4, <3>5
  <2> QED BY <1>2, <2>0, <2>1, <2>2, <2>3
<1>3. CASE RegisterFinalizer(c)
  <2>1. CASE scope[c].fin
    BY <1>3, <2>1, SkipEffect DEF RegisterFinalizer
  <2>2. CASE ~scope[c].fin
    <3> DEFINE m == [scope[c] EXCEPT !.fin = TRUE]
    <3>1. m \in Scope /\ m.dnsReady = scope[c].dnsReady
      BY <1>0 DEF Scope
    <3>2. pc[c] = "register" /\ PatchObject(c, m, "ready", "close")
      BY <1>3, <2>2 DEF RegisterFinalizer
    <3> HIDE DEF m
    <3> QED BY <1>2, <3>1, <3>2
  <2> QED BY <2>1, <2>2
<1>4. CASE FinalPatch(c)
  BY <1>0, <1>2, <1>4 DEF FinalPatch
<1>5. CASE Close(c)
  BY <1>0, <1>2, <1>5 DEF Close
<1>6. CASE CheckReady(c)
  BY <1>6, SkipEffect DEF CheckReady
<1>7. CASE ReconcilePrivateApi(c)
  BY <1>7, SkipEffect, CallEffect DEF ReconcilePrivateApi, Wants
<1>8. CASE ReconcilePrivateIngress(c)
  BY <1>8, SkipEffect, CallEffect DEF ReconcilePrivateIngress, Wants
<1>9. CASE CreateClusterResourceGroup(c)
  BY <1>9, SkipEffect, CallEffect DEF CreateClusterResourceGroup
<1>10. CASE CreateClusterDNSZone(c)
  BY <1>10, SkipEffect, CallEffect DEF CreateClusterDNSZone
<1>11. CASE CreateClusterNSRecord(c)
  BY <1>11, SkipEffect, CallEffect DEF CreateClusterNSRecord
<1>12. CASE UpdateRecords(c)
  BY <1>12, SkipEffect, CallEffect DEF UpdateRecords
<1>13. CASE SetGSDNSZoneReady(c)
  <2>0. pc[c] = "condition"
    BY <1>13 DEF SetGSDNSZoneReady
  <2>1. CASE kind[c] = ASOManaged
    BY <1>13, <2>0, <2>1, SkipEffect DEF SetGSDNSZoneReady
  <2>2. CASE kind[c] # ASOManaged
    <3>1. [infra[c] EXCEPT !.dnsReady = TRUE].dnsReady
          /\ [infra[c] EXCEPT !.dnsReady = TRUE].deleting = infra[c].deleting
      BY <1>0 DEF InfraObject
    <3>2. kind' = kind /\ azure' = azure
      BY <1>13, <2>2, ConditionEffect
    <3>3. infra'[c].deleting = infra[c].deleting
      BY <1>13, <2>2, <3>1, ConditionEffect
    <3>4. CASE pc'[c] = "patch"
      <4>1. infra'[c].dnsReady /\ stale'[c] = stale[c]
        BY <1>13, <2>2, <3>1, <3>4, ConditionEffect
      <4> QED BY <2>0, <3>2, <3>3, <3>4, <4>1
    <3>5. CASE pc'[c] = "close"
      BY <2>0, <2>2, <3>2, <3>5
    <3> QED BY <1>13, <2>2, <3>4, <3>5, ConditionEffect
  <2> QED BY <2>1, <2>2
<1>14. CASE DeletePrivateApi(c)
  BY <1>14, SkipEffect, CallEffect DEF DeletePrivateApi
<1>15. CASE DeletePrivateIngress(c)
  BY <1>15, SkipEffect, CallEffect DEF DeletePrivateIngress
<1>16. CASE DeleteClusterNSRecords(c)
  BY <1>16, CallEffect DEF DeleteClusterNSRecords
<1>17. CASE DeleteClusterResourceGroup(c)
  BY <1>17, SkipEffect, CallEffect DEF DeleteClusterResourceGroup
<1>18. CASE RemoveFinalizer(c)
  <2>1. /\ pc[c] = "unregister" /\ pc'[c] = "close"
        /\ UNCHANGED <<kind, infra, azure>>
    BY <1>18 DEF RemoveFinalizer, Goto, TypeOK
  <2>2. scope'[c].dnsReady = scope[c].dnsReady
    BY <1>18 DEF RemoveFinalizer, TypeOK, Scope
  <2> QED BY <2>1, <2>2
<1>19. CASE Provision(c) \/ TogglePause(c) \/ DeleteCluster(c) \/ ForgetCluster(c)
  BY <1>19, SetClusterEffect DEF Provision, TogglePause, DeleteCluster, ForgetCluster
<1>20. ASSUME NEW o \in InfraObject, SetInfra(c, o), infra[c].deleting => o.deleting,
              o.dnsReady = infra[c].dnsReady
       PROVE  Truthful(c)'
  <2>1. /\ infra'[c].dnsReady = infra[c].dnsReady
        /\ infra[c].deleting => infra'[c].deleting
    BY <1>20, SetInfraEffect, ReapType
  <2>2. /\ stale'[c] = (pc[c] # "idle")
        /\ UNCHANGED <<kind, azure, pc, scope>>
    BY <1>20, SetInfraEffect
  <2> QED BY <2>1, <2>2
<1>21. CASE DeleteInfra(c)
  <2>1. /\ [infra[c] EXCEPT !.deleting = TRUE] \in InfraObject
        /\ [infra[c] EXCEPT !.deleting = TRUE].deleting
        /\ [infra[c] EXCEPT !.deleting = TRUE].dnsReady = infra[c].dnsReady
    BY <1>0 DEF InfraObject
  <2> QED BY <1>20, <1>21, <2>1 DEF DeleteInfra
<1>22. CASE ProviderRelease(c)
  <2>1. /\ [infra[c] EXCEPT !.others = FALSE] \in InfraObject
        /\ [infra[c] EXCEPT !.others = FALSE].deleting = infra[c].deleting
        /\ [infra[c] EXCEPT !.others = FALSE].dnsReady = infra[c].dnsReady
    BY <1>0 DEF InfraObject
  <2> QED BY <1>20, <1>22, <2>1 DEF ProviderRelease
<1>23. ASSUME NEW status \in Condition, SetLoadBalancersReady(c, status)
       PROVE  Truthful(c)'
  <2>1. /\ [infra[c] EXCEPT !.lb = status] \in InfraObject
        /\ [infra[c] EXCEPT !.lb = status].deleting = infra[c].deleting
        /\ [infra[c] EXCEPT !.lb = status].dnsReady = infra[c].dnsReady
    BY <1>0 DEF InfraObject
  <2> QED BY <1>20, <1>23, <2>1 DEF SetLoadBalancersReady
<1>24. ASSUME NEW links \in SUBSET Links, Annotate(c, links)
       PROVE  Truthful(c)'
  <2>1. /\ [infra[c] EXCEPT !.links = links] \in InfraObject
        /\ [infra[c] EXCEPT !.links = links].deleting = infra[c].deleting
        /\ [infra[c] EXCEPT !.links = links].dnsReady = infra[c].dnsReady
    BY <1>0 DEF InfraObject
  <2> QED BY <1>20, <1>24, <2>1 DEF Annotate
<1>25. CASE CAPZDeleteGroup(c)
  BY <1>25 DEF CAPZDeleteGroup, TypeOK, InGroup
<1>26. CASE Sync(c)
  BY <1>26 DEF Sync
<1>27. CASE TogglePauseInfra(c)
  BY <1>0, <1>20, <1>27, PauseEdit DEF TogglePauseInfra
<1> QED BY <1>1, <1>3, <1>4, <1>5, <1>6, <1>7, <1>8, <1>9, <1>10, <1>11, <1>12,
           <1>13, <1>14, <1>15, <1>16, <1>17, <1>18, <1>19, <1>21, <1>22, <1>23,
           <1>24, <1>25, <1>26, <1>27
        DEF Act, Step, Environment

\* Truth is inductive.
LEMMA TruthNext == TypeOK /\ Truth /\ [Next]_vars => Truth'
<1> SUFFICES ASSUME TypeOK, Truth, [Next]_vars, NEW d \in Clusters
             PROVE  Truthful(d)'
  BY DEF Truth
<1>0. Truthful(d)
  BY DEF Truth
<1>1. ASSUME NEW c \in Clusters, Act(c) PROVE Truthful(d)'
  <2>1. CASE d = c
    BY <1>0, <1>1, <2>1, TruthfulAct
  <2>2. CASE d # c
    <3>1. Same(d)
      BY <1>1, <2>2, Frame
    <3> QED BY <1>0, <3>1 DEF Same, Truthful, Leaving
  <2> QED BY <2>1, <2>2
<1>2. CASE Crash
  BY <1>0, <1>2 DEF Crash, Truthful, Leaving, NormalSteps
<1>3. CASE UNCHANGED vars
  BY <1>0, <1>3 DEF vars, Truthful, Leaving
<1> QED BY <1>1, <1>2, <1>3 DEF Next, Act

\* The condition is written by SetGSDNSZoneReady or, from memory, by a
\* PatchObject of a CommonPatcher.
LEMMA RaisedTruthfully ==
  ASSUME TypeOK, NEW c \in Clusters, Truthful(c), Act(c),
         infra'[c].dnsReady, ~infra[c].dnsReady
  PROVE  {"zone", "ns", "records"} \subseteq azure[c]
<1>0. /\ scope[c] \in Scope /\ infra[c] \in InfraObject
      /\ scope[c].dnsReady \in BOOLEAN /\ infra[c].dnsReady \in BOOLEAN
  BY DEF TypeOK, Scope, InfraObject
<1>1. CASE SetGSDNSZoneReady(c)
  <2>1. kind[c] # ASOManaged /\ pc[c] = "condition"
    BY <1>1, SkipEffect DEF SetGSDNSZoneReady
  <2>2. Accepted(c)
    BY <1>1, <2>1, ConditionEffect
  <2> QED BY <2>1, <2>2 DEF Accepted, Truthful, Leaving, NormalSteps
<1>2. ASSUME NEW m \in Scope, NEW next, NEW failed, PatchObject(c, m, next, failed),
             m.dnsReady = scope[c].dnsReady, pc[c] # "idle"
      PROVE  {"zone", "ns", "records"} \subseteq azure[c]
  <2>1. kind[c] # AzureCluster /\ infra'[c] = Stored(c, m)
    BY <1>2, PatchEffect
  <2>2. kind[c] # ASOManaged /\ m.dnsReady
    BY <1>2, <2>1, StoredFields
  <2>3. kind[c] = VSphere
    BY <2>1, <2>2, KindsAssumption DEF TypeOK
  <2> QED BY <1>2, <2>2, <2>3 DEF Truthful
<1>3. CASE RegisterFinalizer(c)
  <2> DEFINE m == [scope[c] EXCEPT !.fin = TRUE]
  <2>1. m \in Scope /\ m.dnsReady = scope[c].dnsReady
    BY <1>0 DEF Scope
  <2>2. pc[c] = "register" /\ PatchObject(c, m, "ready", "close")
    BY <1>3, SkipEffect DEF RegisterFinalizer
  <2> HIDE DEF m
  <2> QED BY <1>2, <2>1, <2>2
<1>4. CASE FinalPatch(c) \/ Close(c)
  BY <1>0, <1>2, <1>4 DEF FinalPatch, Close
<1>5. ASSUME NEW o \in InfraObject, SetInfra(c, o), o.dnsReady = infra[c].dnsReady
      PROVE  FALSE
  BY <1>5, SetInfraEffect, ReapType
<1>6. CASE Environment(c)
  <2>1. CASE DeleteInfra(c)
    <3>1. /\ [infra[c] EXCEPT !.deleting = TRUE] \in InfraObject
          /\ [infra[c] EXCEPT !.deleting = TRUE].dnsReady = infra[c].dnsReady
      BY <1>0 DEF InfraObject
    <3> QED BY <1>5, <2>1, <3>1 DEF DeleteInfra
  <2>2. CASE ProviderRelease(c)
    <3>1. /\ [infra[c] EXCEPT !.others = FALSE] \in InfraObject
          /\ [infra[c] EXCEPT !.others = FALSE].dnsReady = infra[c].dnsReady
      BY <1>0 DEF InfraObject
    <3> QED BY <1>5, <2>2, <3>1 DEF ProviderRelease
  <2>3. ASSUME NEW status \in Condition, SetLoadBalancersReady(c, status)
        PROVE  FALSE
    <3>1. /\ [infra[c] EXCEPT !.lb = status] \in InfraObject
          /\ [infra[c] EXCEPT !.lb = status].dnsReady = infra[c].dnsReady
      BY <1>0 DEF InfraObject
    <3> QED BY <1>5, <2>3, <3>1 DEF SetLoadBalancersReady
  <2>4. ASSUME NEW links \in SUBSET Links, Annotate(c, links)
        PROVE  FALSE
    <3>1. /\ [infra[c] EXCEPT !.links = links] \in InfraObject
          /\ [infra[c] EXCEPT !.links = links].dnsReady = infra[c].dnsReady
      BY <1>0 DEF InfraObject
    <3> QED BY <1>5, <2>4, <3>1 DEF Annotate
  <2>5. CASE TogglePauseInfra(c)
    BY <1>0, <1>5, <2>5, PauseEdit DEF TogglePauseInfra
  <2> QED BY <1>6, <2>1, <2>2, <2>3, <2>4, <2>5
          DEF Environment, Provision, TogglePause, DeleteCluster, ForgetCluster,
              SetCluster, CAPZDeleteGroup, Sync
<1>7. CASE infra' = infra
  BY <1>7
<1> QED BY <1>1, <1>3, <1>4, <1>6, <1>7
        DEF Act, Step, Reconcile, CheckReady, ReconcilePrivateApi, ReconcilePrivateIngress,
            CreateClusterResourceGroup, CreateClusterDNSZone, CreateClusterNSRecord,
            UpdateRecords, DeletePrivateApi, DeletePrivateIngress, DeleteClusterNSRecords,
            DeleteClusterResourceGroup, RemoveFinalizer, Call, Skip

\* GSDNSZoneReady is never raised on a promise the Azure side does not keep at
\* that moment: every step before it succeeded, and if a deletion began while
\* the reconcile ran, the resourceVersion it holds makes the API server refuse.
THEOREM ConditionIsTruthful == Spec => ConditionTruthful
<1>1. Init => Truth
  BY DEF Init, Truth, Truthful, NormalSteps
<1>2. TypeOK /\ Truth /\ [Next]_vars => Truth'
  BY TruthNext
<1>3. TypeOK /\ Truth /\ [Next]_vars
        => [\A c \in Clusters :
              infra'[c].dnsReady /\ ~infra[c].dnsReady
                => {"zone", "ns", "records"} \subseteq azure[c]]_vars
  <2> SUFFICES ASSUME TypeOK, Truth, [Next]_vars, NEW d \in Clusters,
                      infra'[d].dnsReady, ~infra[d].dnsReady
               PROVE  {"zone", "ns", "records"} \subseteq azure[d]
    OBVIOUS
  <2>1. ASSUME NEW c \in Clusters, Act(c)
        PROVE  {"zone", "ns", "records"} \subseteq azure[d]
    <3>1. d = c
      BY <2>1, Frame DEF Same
    <3>2. Truthful(d)
      BY DEF Truth
    <3> QED BY <2>1, <3>1, <3>2, RaisedTruthfully
  <2>2. ~(Crash \/ UNCHANGED vars)
    BY DEF Crash, vars
  <2> QED BY <2>1, <2>2 DEF Next, Act
<1> QED BY <1>1, <1>2, <1>3, TypeCorrect, PTL DEF Spec, ConditionTruthful
------------------------------------------------------------------------------
(***************************************************************************)
(* Refinement. Of a cluster whose group is the operator's own, DNSService  *)
(* sees the Azure resources and where the reconcile is: Move(c) is all     *)
(* that a step, an edit or a restart can do to these two.                  *)
(***************************************************************************)
Adding   == {"rg", "zone", "ns", "records"}
Removing == {"delNS", "delRG"}

\* A call with this effect, which goes on to next, or fails with or without it.
Attempt(c, after, next) ==
  \/ azure'[c] = after /\ pc'[c] = next
  \/ azure'[c] \in {azure[c], after} /\ pc'[c] \in {"close", "idle"}

Move(c) ==
  \/ azure'[c] = azure[c] /\ pc'[c] = pc[c]
  \/ /\ azure'[c] = azure[c] /\ pc[c] \notin Adding \union Removing
     /\ pc'[c] \notin {"zone", "ns", "records", "condition", "delRG", "unregister"}
  \/ /\ azure'[c] = azure[c] /\ pc[c] \in Adding \union Removing
     /\ pc'[c] \in {"close", "idle"}
  \/ pc[c] = "rg" /\ Attempt(c, azure[c] \union {"rg"}, "zone")
  \/ pc[c] = "zone" /\ "rg" \in azure[c] /\ Attempt(c, azure[c] \union {"zone"}, "ns")
  \/ pc[c] = "ns" /\ "zone" \in azure[c] /\ Attempt(c, azure[c] \union {"ns"}, "records")
  \/ /\ pc[c] = "records" /\ "zone" \in azure[c]
     /\ Attempt(c, azure[c] \union {"records"}, "condition")
  \/ pc[c] = "delNS" /\ Attempt(c, azure[c] \ {"ns"}, "delRG")
  \/ pc[c] = "delRG" /\ Attempt(c, azure[c] \ InGroup, "unregister")

\* What the reconcile has created is still there, and what it has deleted is not.
Ordered(c) ==
  kind[c] # AzureCluster =>
    /\ azure[c] \subseteq PublicResources
    /\ pc[c] \in {"zone", "ns", "records"} => "rg" \in azure[c]
    /\ pc[c] \in {"ns", "records"} => "zone" \in azure[c]
    /\ pc[c] = "records" => "ns" \in azure[c]
    /\ pc[c] = "delRG" => "ns" \notin azure[c]

Order == \A c \in Clusters : Ordered(c)

\* Every action of a cluster is such a move.
LEMMA ActMoves ==
  ASSUME TypeOK, NEW c \in Clusters, kind[c] # AzureCluster, Act(c)
  PROVE  Move(c)
<1> USE DEF Adding, Removing
<1>1. CASE Reconcile(c)
  BY <1>1 DEF Reconcile, Goto, TypeOK, Move
<1>2. CASE RegisterFinalizer(c)
  <2>1. CASE scope[c].fin
    BY <1>2, <2>1, SkipEffect DEF RegisterFinalizer, Move
  <2>2. CASE ~scope[c].fin
    <3>1. PatchObject(c, [scope[c] EXCEPT !.fin = TRUE], "ready", "close")
      BY <1>2, <2>2 DEF RegisterFinalizer
    <3>2. azure' = azure /\ pc'[c] \in {"ready", "close"}
      BY <3>1 DEF PatchObject, CommonPatchObject, CAPZPatchObject, Goto, TypeOK
    <3> QED BY <1>2, <3>2 DEF RegisterFinalizer, Move
  <2> QED BY <2>1, <2>2
<1>3. CASE FinalPatch(c) \/ Close(c)
  <2>1. azure' = azure /\ pc'[c] \in {"close", "idle"}
    BY <1>3 DEF FinalPatch, Close, PatchObject, CommonPatchObject, CAPZPatchObject,
                Goto, TypeOK
  <2> QED BY <1>3, <2>1 DEF FinalPatch, Close, Move
<1>4. CASE CheckReady(c)
  BY <1>4, SkipEffect DEF CheckReady, Move
<1>5. CASE ReconcilePrivateApi(c)
  BY <1>5, SkipEffect DEF ReconcilePrivateApi, Wants, Move
<1>6. CASE ReconcilePrivateIngress(c)
  BY <1>6, SkipEffect DEF ReconcilePrivateIngress, Wants, Move
<1>7. CASE CreateClusterResourceGroup(c)
  BY <1>7, CallEffect DEF CreateClusterResourceGroup, Move, Attempt
<1>8. CASE CreateClusterDNSZone(c)
  BY <1>8, SkipEffect, CallEffect DEF CreateClusterDNSZone, Move, Attempt
<1>9. CASE CreateClusterNSRecord(c)
  BY <1>9, SkipEffect, CallEffect DEF CreateClusterNSRecord, Move, Attempt
<1>10. CASE UpdateRecords(c)
  BY <1>10, SkipEffect, CallEffect DEF UpdateRecords, Move, Attempt
<1>11. CASE SetGSDNSZoneReady(c)
  <2>1. pc[c] = "condition"
    BY <1>11 DEF SetGSDNSZoneReady
  <2>2. azure' = azure /\ pc'[c] \in {"patch", "close"}
    <3>1. CASE kind[c] = ASOManaged
      BY <1>11, <3>1, SkipEffect DEF SetGSDNSZoneReady
    <3>2. CASE kind[c] # ASOManaged
      BY <1>11, <3>2, ConditionEffect
    <3> QED BY <3>1, <3>2
  <2> QED BY <2>1, <2>2 DEF Move
<1>12. CASE DeletePrivateApi(c)
  BY <1>12, SkipEffect DEF DeletePrivateApi, Wants, Move
<1>13. CASE DeletePrivateIngress(c)
  BY <1>13, SkipEffect DEF DeletePrivateIngress, Wants, Move
<1>14. CASE DeleteClusterNSRecords(c)
  BY <1>14, CallEffect DEF DeleteClusterNSRecords, Move, Attempt
<1>15. CASE DeleteClusterResourceGroup(c)
  BY <1>15, CallEffect DEF DeleteClusterResourceGroup, Move, Attempt
<1>16. CASE RemoveFinalizer(c)
  BY <1>16 DEF RemoveFinalizer, Goto, TypeOK, Move
<1>17. CASE Environment(c)
  <2>1. azure'[c] = azure[c] /\ pc'[c] = pc[c]
    BY <1>17
       DEF Environment, Provision, TogglePause, DeleteCluster, ForgetCluster, SetCluster,
           TogglePauseInfra, SetLoadBalancersReady, Annotate, DeleteInfra, ProviderRelease,
           SetInfra, CAPZDeleteGroup, Sync
  <2> QED BY <2>1 DEF Move
<1> QED BY <1>1, <1>2, <1>3, <1>4, <1>5, <1>6, <1>7, <1>8, <1>9, <1>10, <1>11,
           <1>12, <1>13, <1>14, <1>15, <1>16, <1>17
        DEF Act, Step

\* So is every step of the system, and no cluster ever changes its kind.
LEMMA NextMoves ==
  ASSUME TypeOK, [Next]_vars, NEW d \in Clusters
  PROVE  kind'[d] = kind[d] /\ (kind[d] # AzureCluster => Move(d))
<1>1. ASSUME NEW c \in Clusters, Act(c)
      PROVE  kind'[d] = kind[d] /\ (kind[d] # AzureCluster => Move(d))
  <2>1. CASE d # c
    <3>1. Same(d)
      BY <1>1, <2>1, Frame
    <3> QED BY <3>1 DEF Same, Move
  <2>2. CASE d = c
    <3>1. kind' = kind
      BY <1>1
         DEF Act, Reconcile, Step, RegisterFinalizer, CheckReady, ReconcilePrivateApi,
             ReconcilePrivateIngress, CreateClusterResourceGroup, CreateClusterDNSZone,
             CreateClusterNSRecord, UpdateRecords, SetGSDNSZoneReady, FinalPatch,
             DeletePrivateApi, DeletePrivateIngress, DeleteClusterNSRecords,
             DeleteClusterResourceGroup, RemoveFinalizer, Close, Call, Skip, PatchObject,
             Environment, Provision, TogglePause, DeleteCluster, ForgetCluster, SetCluster,
             TogglePauseInfra, SetLoadBalancersReady, Annotate, DeleteInfra,
             ProviderRelease, SetInfra, CAPZDeleteGroup, Sync
    <3> QED BY <1>1, <2>2, <3>1, ActMoves
  <2> QED BY <2>1, <2>2
<1>2. CASE Crash
  <2>1. kind' = kind /\ azure' = azure /\ pc'[d] = "idle"
    BY <1>2 DEF Crash
  <2> QED BY <2>1 DEF Move
<1>3. CASE UNCHANGED vars
  BY <1>3 DEF vars, Move
<1> QED BY <1>1, <1>2, <1>3 DEF Next, Act

\* Moves keep the order.
LEMMA MovesKeepOrder ==
  ASSUME NEW c \in Clusters, Ordered(c), kind'[c] = kind[c],
         kind[c] # AzureCluster => Move(c)
  PROVE  Ordered(c)'
BY DEF Ordered, Move, Attempt, Adding, Removing, PublicResources, InGroup

\* Where DNSService sees the reconcile of a cluster that is the operator's own.
PhaseMean(c) ==
  /\ pc[c] \in Adding => Phase(c) = "creating"
  /\ pc[c] = "condition" => Phase(c) = "created"
  /\ pc[c] \in Removing => Phase(c) = "deleting"
  /\ pc[c] = "unregister" => Phase(c) = "deleted"
  /\ pc[c] \notin Adding \union Removing \union {"condition", "unregister"} =>
       Phase(c) = "idle"

\* Phase tells it, in every state.
LEMMA PhaseMeans == \A c \in Clusters : kind[c] # AzureCluster => PhaseMean(c)
<1> SUFFICES ASSUME NEW c \in Clusters, kind[c] # AzureCluster PROVE PhaseMean(c)
  OBVIOUS
<1>1. pc[c] \in Adding => Phase(c) = "creating"
  BY DEF Phase, OperatorsOwn, Adding
<1>2. pc[c] \in Removing => Phase(c) = "deleting"
  BY DEF Phase, OperatorsOwn, Removing
<1>3. /\ pc[c] = "condition" => Phase(c) = "created"
      /\ pc[c] = "unregister" => Phase(c) = "deleted"
  BY DEF Phase, OperatorsOwn
<1>4. pc[c] \notin Adding \union Removing \union {"condition", "unregister"} =>
        Phase(c) = "idle"
  BY DEF Phase, OperatorsOwn, Adding, Removing
<1> QED BY <1>1, <1>2, <1>3, <1>4 DEF PhaseMean

\* And after a step.
LEMMA PhaseMeansNext == (\A c \in Clusters : kind[c] # AzureCluster => PhaseMean(c))'
BY PhaseMeans, PTL

\* What each resource needs is there before it, and a zone never outlives its group.
LEMMA NeedsOf ==
  /\ Needs["rg"] = {} /\ Needs["zone"] = {"rg"}
  /\ Needs["ns"] = {"zone"} /\ Needs["records"] = {"zone"}
BY DEF Needs, PublicResources

\* A call that adds one resource, whose needs are met, is a Create of DNSService.
LEMMA AddStep ==
  ASSUME NEW c \in Clusters, OperatorsOwn(c), OperatorsOwn(c)',
         NEW r \in PublicResources, Needs[r] \subseteq azure[c],
         azure'[c] \in {azure[c], azure[c] \union {r}},
         Phase(c) = "creating", Phase(c)' \in {"creating", "created", "idle"},
         Phase(c)' = "created" => azure'[c] = PublicResources
  PROVE  DNS(c)!Create
<1>1. \E new \in SUBSET PublicResources :
        /\ azure'[c] = azure[c] \union new
        /\ \A s \in new \ azure[c] : Needs[s] \subseteq azure[c]
  <2>1. CASE azure'[c] = azure[c]
    <3> WITNESS {} \in SUBSET PublicResources
    <3> QED BY <2>1
  <2>2. CASE azure'[c] = azure[c] \union {r}
    <3> WITNESS {r} \in SUBSET PublicResources
    <3> QED BY <2>2
  <2> QED BY <2>1, <2>2
<1> QED BY <1>1 DEF DNS!Create

\* A call that removes what no remaining resource needs is a Delete.
LEMMA RemoveStep ==
  ASSUME NEW c \in Clusters, OperatorsOwn(c), OperatorsOwn(c)',
         NEW old \in SUBSET PublicResources,
         azure'[c] \in {azure[c], azure[c] \ old},
         \A r \in azure[c] \ old : Needs[r] \intersect old = {},
         Phase(c) = "deleting", Phase(c)' \in {"deleting", "deleted", "idle"},
         Phase(c)' = "deleted" => azure'[c] = {}
  PROVE  DNS(c)!Delete
<1>1. \E gone \in SUBSET PublicResources :
        /\ azure'[c] = azure[c] \ gone
        /\ \A r \in azure'[c] : Needs[r] \intersect gone = {}
  <2>1. CASE azure'[c] = azure[c]
    <3> WITNESS {} \in SUBSET PublicResources
    <3> QED BY <2>1
  <2>2. CASE azure'[c] = azure[c] \ old
    <3> WITNESS old \in SUBSET PublicResources
    <3> QED BY <2>2
  <2> QED BY <2>1, <2>2
<1> QED BY <1>1 DEF DNS!Delete

\* A move of a cluster that is the operator's own is a step of its DNSService.
LEMMA MoveRefines ==
  ASSUME NEW c \in Clusters, kind[c] # AzureCluster, kind'[c] = kind[c],
         Ordered(c), Move(c), PhaseMean(c), PhaseMean(c)'
  PROVE  [DNS(c)!Next]_(DNS(c)!vars)
<1> USE DEF Adding, Removing
<1>1. OperatorsOwn(c) /\ OperatorsOwn(c)'
  BY DEF OperatorsOwn
<1>2. CASE azure'[c] = azure[c] /\ pc'[c] = pc[c]
  <2>1. Phase(c)' = Phase(c)
    BY <1>2, PhaseMean(c), PhaseMean(c)' DEF PhaseMean
  <2> QED BY <1>1, <1>2, <2>1 DEF DNS!vars
<1>3. CASE /\ azure'[c] = azure[c] /\ pc[c] \notin Adding \union Removing
           /\ pc'[c] \notin {"zone", "ns", "records", "condition", "delRG", "unregister"}
  <2>1. Phase(c) \in {"idle", "created", "deleted"}
    BY <1>3 DEF PhaseMean
  <2>2. Phase(c)' \in {"creating", "deleting", "idle"}
    BY <1>3 DEF PhaseMean
  <2>3. CASE Phase(c)' = "idle"
    BY <1>1, <1>3, <2>1, <2>3 DEF DNS!Next, DNS!Forget, DNS!Resting
  <2>4. CASE Phase(c)' \in {"creating", "deleting"}
    BY <1>1, <1>3, <2>1, <2>4 DEF DNS!Next, DNS!Begin, DNS!Resting
  <2> QED BY <2>2, <2>3, <2>4
<1>4. CASE /\ azure'[c] = azure[c] /\ pc[c] \in Adding \union Removing
           /\ pc'[c] \in {"close", "idle"}
  <2>1. Phase(c)' = "idle"
    BY <1>4 DEF PhaseMean
  <2>2. CASE pc[c] \in Adding
    <3>1. Phase(c) = "creating"
      BY <2>2 DEF PhaseMean
    <3>2. "rg" \in PublicResources /\ Needs["rg"] \subseteq azure[c]
      BY NeedsOf DEF PublicResources
    <3>3. DNS(c)!Create
      BY <1>1, <1>4, <2>1, <3>1, <3>2, AddStep
    <3> QED BY <3>3 DEF DNS!Next
  <2>3. CASE pc[c] \in Removing
    <3>1. Phase(c) = "deleting"
      BY <2>3 DEF PhaseMean
    <3>2. {} \in SUBSET PublicResources
      OBVIOUS
    <3>3. DNS(c)!Delete
      BY <1>1, <1>4, <2>1, <3>1, <3>2, RemoveStep
    <3> QED BY <3>3 DEF DNS!Next
  <2> QED BY <1>4, <2>2, <2>3
<1>5. ASSUME NEW r \in PublicResources, NEW next \in PC, pc[c] \in Adding,
             Attempt(c, azure[c] \union {r}, next), Needs[r] \subseteq azure[c],
             next \in Adding \union {"condition"},
             next = "condition" => azure[c] \union {r} = PublicResources
      PROVE  [DNS(c)!Next]_(DNS(c)!vars)
  <2>1. azure'[c] \in {azure[c], azure[c] \union {r}}
    BY <1>5 DEF Attempt
  <2>2. Phase(c) = "creating"
    BY <1>5 DEF PhaseMean
  <2>3. Phase(c)' \in {"creating", "created", "idle"}
    BY <1>5 DEF PhaseMean, Attempt
  <2>4. Phase(c)' = "created" => azure'[c] = PublicResources
    BY <1>5 DEF PhaseMean, Attempt
  <2>5. DNS(c)!Create
    BY <1>1, <1>5, <2>1, <2>2, <2>3, <2>4, AddStep
  <2> QED BY <2>5 DEF DNS!Next
<1>6. CASE pc[c] = "rg" /\ Attempt(c, azure[c] \union {"rg"}, "zone")
  <2>1. "rg" \in PublicResources /\ "zone" \in PC /\ Needs["rg"] \subseteq azure[c]
    BY <1>6, NeedsOf DEF PublicResources, PC, NormalSteps
  <2> QED BY <1>5, <1>6, <2>1
<1>7. CASE /\ pc[c] = "zone" /\ "rg" \in azure[c]
           /\ Attempt(c, azure[c] \union {"zone"}, "ns")
  <2>1. "zone" \in PublicResources /\ "ns" \in PC /\ Needs["zone"] \subseteq azure[c]
    BY <1>7, NeedsOf DEF PublicResources, PC, NormalSteps
  <2> QED BY <1>5, <1>7, <2>1
<1>8. CASE /\ pc[c] = "ns" /\ "zone" \in azure[c]
           /\ Attempt(c, azure[c] \union {"ns"}, "records")
  <2>1. "ns" \in PublicResources /\ "records" \in PC /\ Needs["ns"] \subseteq azure[c]
    BY <1>8, NeedsOf DEF PublicResources, PC, NormalSteps
  <2> QED BY <1>5, <1>8, <2>1
<1>9. CASE /\ pc[c] = "records" /\ "zone" \in azure[c]
           /\ Attempt(c, azure[c] \union {"records"}, "condition")
  <2>1. azure[c] \union {"records"} = PublicResources
    BY <1>9 DEF Ordered, PublicResources
  <2>2. "records" \in PublicResources /\ "condition" \in PC
    BY DEF PublicResources, PC, NormalSteps
  <2> QED BY <1>5, <1>9, <2>1, <2>2, NeedsOf
<1>10. ASSUME NEW old \in SUBSET PublicResources, NEW next \in PC, pc[c] \in Removing,
              Attempt(c, azure[c] \ old, next),
              \A r \in azure[c] \ old : Needs[r] \intersect old = {},
              next \in {"delRG", "unregister"}, next = "unregister" => azure[c] \ old = {}
       PROVE  [DNS(c)!Next]_(DNS(c)!vars)
  <2>1. azure'[c] \in {azure[c], azure[c] \ old}
    BY <1>10 DEF Attempt
  <2>2. Phase(c) = "deleting"
    BY <1>10 DEF PhaseMean
  <2>3. Phase(c)' \in {"deleting", "deleted", "idle"}
    BY <1>10 DEF PhaseMean, Attempt
  <2>4. Phase(c)' = "deleted" => azure'[c] = {}
    BY <1>10 DEF PhaseMean, Attempt
  <2>5. DNS(c)!Delete
    BY <1>1, <1>10, <2>1, <2>2, <2>3, <2>4, RemoveStep
  <2> QED BY <2>5 DEF DNS!Next
<1>11. CASE pc[c] = "delNS" /\ Attempt(c, azure[c] \ {"ns"}, "delRG")
  <2> DEFINE old == {"ns"}
  <2>1. \A r \in azure[c] \ old : Needs[r] \intersect old = {}
    BY NeedsOf DEF Ordered, PublicResources
  <2>2. old \in SUBSET PublicResources /\ "delRG" \in PC
    BY DEF PublicResources, PC, DeleteSteps
  <2>3. Attempt(c, azure[c] \ old, "delRG")
    BY <1>11
  <2> HIDE DEF old
  <2> QED BY <1>10, <1>11, <2>1, <2>2, <2>3
<1>12. CASE pc[c] = "delRG" /\ Attempt(c, azure[c] \ InGroup, "unregister")
  <2> DEFINE old == {"rg", "zone", "records"}
  <2>1. azure[c] \ InGroup = azure[c] \ old /\ azure[c] \ old = {}
    BY <1>12 DEF Ordered, PublicResources, InGroup
  <2>2. old \in SUBSET PublicResources /\ "unregister" \in PC
    BY DEF PublicResources, PC, DeleteSteps
  <2>3. Attempt(c, azure[c] \ old, "unregister")
    BY <1>12, <2>1
  <2> HIDE DEF old
  <2> QED BY <1>10, <1>12, <2>1, <2>2, <2>3
<1> QED BY <1>2, <1>3, <1>4, <1>6, <1>7, <1>8, <1>9, <1>11, <1>12 DEF Move

\* Nothing of an AzureCluster is shown to DNSService.
LEMMA NothingShown ==
  ASSUME NEW c \in Clusters, kind[c] = AzureCluster, kind'[c] = kind[c]
  PROVE  [DNS(c)!Next]_(DNS(c)!vars)
<1>1. ~OperatorsOwn(c) /\ ~OperatorsOwn(c)'
  BY DEF OperatorsOwn
<1>2. Phase(c) = "idle" /\ Phase(c)' = "idle"
  BY <1>1 DEF Phase
<1> QED BY <1>1, <1>2 DEF DNS!vars

\* The reconciles of each cluster are the passes of one DNS service, whatever
\* fails, is lost, restarts or begins to be deleted in between: it creates and
\* deletes in the order of needs, goes on to the condition only when all is
\* there and to the finalizer only when nothing is.
THEOREM ServiceIsImplemented == Spec => ImplementsDNSService
<1>1. Init => Order
  BY DEF Init, Order, Ordered, PublicResources
<1>2. Init => \A c \in Clusters : DNS(c)!Init
  <2> SUFFICES ASSUME Init, NEW c \in Clusters PROVE DNS(c)!Init
    BY Zenon
  <2>1. CASE kind[c] = AzureCluster
    BY <2>1 DEF DNS!Init, OperatorsOwn, Phase
  <2>2. CASE kind[c] # AzureCluster
    <3>1. pc[c] = "idle" /\ azure[c] = {}
      BY <2>2 DEF Init
    <3>2. Phase(c) = "idle"
      BY <2>2, <3>1, PhaseMeans DEF PhaseMean, Adding, Removing
    <3> QED BY <2>2, <3>1, <3>2 DEF DNS!Init, OperatorsOwn
  <2> QED BY <2>1, <2>2
<1>3. TypeOK /\ Order /\ [Next]_vars => Order'
  BY NextMoves, MovesKeepOrder DEF Order
<1>4. TypeOK /\ Order /\ [Next]_vars
        => [\A c \in Clusters : [DNS(c)!Next]_(DNS(c)!vars)]_vars
  <2> SUFFICES ASSUME TypeOK, Order, [Next]_vars
               PROVE  \A c \in Clusters : [DNS(c)!Next]_(DNS(c)!vars)
    BY Zenon
  <2> TAKE c \in Clusters
  <2>1. kind'[c] = kind[c] /\ (kind[c] # AzureCluster => Move(c))
    BY NextMoves
  <2>2. CASE kind[c] = AzureCluster
    BY <2>1, <2>2, NothingShown
  <2>3. CASE kind[c] # AzureCluster
    <3>1. PhaseMean(c) /\ PhaseMean(c)'
      BY <2>1, <2>3, PhaseMeans, PhaseMeansNext
    <3> QED BY <2>1, <2>3, <3>1, MoveRefines DEF Order
  <2> QED BY <2>2, <2>3
<1> QED BY <1>1, <1>2, <1>3, <1>4, TypeCorrect, PTL DEF Spec, ImplementsDNSService
==============================================================================
