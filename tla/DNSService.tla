------------------------------ MODULE DNSService ------------------------------
(***************************************************************************)
(* What a DNS service of the operator promises its caller, whatever zone   *)
(* it looks after: dns.Service and privatedns.Service both have Reconcile  *)
(* and ReconcileDelete. A pass of the former adds resources, what a        *)
(* resource needs before the resource; a pass of the latter takes them     *)
(* away, the other way round; and a pass that returns no error has left    *)
(* everything, or nothing, behind. Anybody may change anything in between, *)
(* and a pass answers for what it finds only as long as nobody does.       *)
(***************************************************************************)
CONSTANTS
  Resources,    \* the kinds of Azure resources the service looks after
  Needs         \* Needs[r]: what must be there before r

VARIABLES
  exists,       \* the resources that exist
  phase,        \* where the service is
  calm          \* nobody else has changed anything since the pass began

vars == <<exists, phase, calm>>

Phases == {"idle", "creating", "created", "deleting", "deleted"}

\* No pass is running: there was none yet, it failed, or it succeeded.
Resting == phase \in {"idle", "created", "deleted"}

Init ==
  /\ exists \in SUBSET Resources
  /\ phase = "idle"
  /\ calm \in BOOLEAN

Begin ==
  /\ Resting
  /\ phase' \in {"creating", "deleting"} /\ calm' = TRUE
  /\ UNCHANGED exists

\* A call of Reconcile; it may be the last one, and its answer may be lost.
Create ==
  /\ phase = "creating" /\ phase' \in {"creating", "created", "idle"}
  /\ \E new \in SUBSET Resources :
       /\ exists' = exists \union new
       /\ calm => \A r \in new \ exists : Needs[r] \subseteq exists
  /\ phase' = "created" /\ calm => exists' = Resources
  /\ UNCHANGED calm

\* A call of ReconcileDelete.
Delete ==
  /\ phase = "deleting" /\ phase' \in {"deleting", "deleted", "idle"}
  /\ \E old \in SUBSET Resources :
       /\ exists' = exists \ old
       /\ calm => \A r \in exists' : Needs[r] \intersect old = {}
  /\ phase' = "deleted" /\ calm => exists' = {}
  /\ UNCHANGED calm

\* The caller turns to something else.
Forget ==
  /\ Resting /\ phase' = "idle"
  /\ UNCHANGED <<exists, calm>>

Disturb ==
  /\ exists' \in SUBSET Resources /\ calm' = FALSE
  /\ UNCHANGED phase

Next == Begin \/ Create \/ Delete \/ Forget \/ Disturb

Spec == Init /\ [][Next]_vars
==============================================================================
