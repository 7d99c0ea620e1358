------------------------------ MODULE Conditions ------------------------------
(***************************************************************************)
(* The status conditions of an infrastructure cluster, a list that its     *)
(* provider and the operator both write: setUnstructuredCAPICondition of   *)
(* pkg/infracluster/scope.go as a function from list to list. In           *)
(* ClusterReconciler the list has shrunk to what is read of it, lb and     *)
(* dnsReady; the theorems are why writing the one leaves the other alone.  *)
(*                                                                         *)
(* A condition's reason, severity and message stand and fall with its      *)
(* status. time is its LastTransitionTime, 0 when it has none. extra are   *)
(* the fields which the Go type Condition does not have.                   *)
(* A list with an entry that is no condition is an error of the code's     *)
(* that leaves the object as it is; such lists are left out here.          *)
(***************************************************************************)
EXTENDS Naturals, Sequences, TLAPS

CONSTANTS ConditionTypes, Statuses, Fields

Condition == [type: ConditionTypes, status: Statuses, time: Nat, extra: SUBSET Fields]

Has(list, type) == \E i \in DOMAIN list : list[i].type = type

\* From the unstructured object to the Go type and back.
Converted(e) == [e EXCEPT !.extra = {}]

At(c, now) == [type |-> c.type, status |-> c.status, time |-> now, extra |-> {}]

Stamped(c, now) == IF c.time = 0 THEN At(c, now) ELSE Converted(c)

\* The entry that stands in place of e once c is set.
Updated(e, c) == IF e.type = c.type THEN c ELSE Converted(e)

\* Every entry of the type is replaced where it stands; if there is none, a new
\* one goes to the end, with the current time whatever time c has.
SetCondition(list, c, now) ==
  LET converted == [i \in DOMAIN list |-> Updated(list[i], Stamped(c, now))]
  IN IF Has(list, c.type) THEN converted ELSE Append(converted, At(c, now))

------------------------------------------------------------------------------
(***************************************************************************)
(* Theorems, for every list and every number of conditions.                *)
(***************************************************************************)
\* What goes into the list is a condition of c's type and status.
LEMMA EntryFacts ==
  ASSUME NEW c \in Condition, NEW now \in Nat
  PROVE  \A e \in {Stamped(c, now), At(c, now)} :
           e \in Condition /\ e.type = c.type /\ e.status = c.status /\ e.extra = {}
<1>1. At(c, now) = [type |-> c.type, status |-> c.status, time |-> now, extra |-> {}]
  BY DEF At, Condition
<1>2. Converted(c) = [type |-> c.type, status |-> c.status, time |-> c.time, extra |-> {}]
  BY DEF Converted, Condition
<1> QED BY <1>1, <1>2 DEF Stamped, Condition

\* An entry of another type keeps type, status and time, and loses its extra.
LEMMA UpdatedFacts ==
  ASSUME NEW e \in Condition, NEW c \in Condition
  PROVE  /\ Updated(e, c) \in Condition
         /\ e.type = c.type => Updated(e, c) = c
         /\ e.type # c.type => /\ Updated(e, c).type = e.type
                               /\ Updated(e, c).status = e.status
                               /\ Updated(e, c).time = e.time
<1>1. Converted(e) = [type |-> e.type, status |-> e.status, time |-> e.time, extra |-> {}]
  BY DEF Converted, Condition
<1> QED BY <1>1 DEF Updated, Condition

\* The two lists the new one is made of.
LEMMA SetFacts ==
  ASSUME NEW list \in Seq(Condition), NEW c \in Condition, NEW now \in Nat
  PROVE  LET converted == [i \in DOMAIN list |-> Updated(list[i], Stamped(c, now))]
         IN /\ converted \in Seq(Condition)
            /\ Len(converted) = Len(list)
<1>1. \A i \in DOMAIN list : Updated(list[i], Stamped(c, now)) \in Condition
  <2>1. Stamped(c, now) \in Condition
    BY EntryFacts
  <2>2. \A i \in DOMAIN list : list[i] \in Condition
    OBVIOUS
  <2> QED BY <2>1, <2>2, UpdatedFacts
<1> QED BY <1>1

\* GSDNSZoneReady is there afterwards, and every entry of its type agrees: a
\* reader finds the status that setUnstructuredCAPICondition was given,
\* whichever entry it takes.
THEOREM ConditionIsSet ==
  ASSUME NEW list \in Seq(Condition), NEW c \in Condition, NEW now \in Nat
  PROVE  LET new == SetCondition(list, c, now)
         IN /\ new \in Seq(Condition)
            /\ Has(new, c.type)
            /\ \A i \in DOMAIN new : new[i].type = c.type => new[i].status = c.status
<1> DEFINE converted == [i \in DOMAIN list |-> Updated(list[i], Stamped(c, now))]
           new == SetCondition(list, c, now)
<1>1. converted \in Seq(Condition) /\ Len(converted) = Len(list)
  BY SetFacts
<1>2. /\ Stamped(c, now) \in Condition
      /\ Stamped(c, now).type = c.type /\ Stamped(c, now).status = c.status
      /\ At(c, now) \in Condition /\ At(c, now).type = c.type /\ At(c, now).status = c.status
  BY EntryFacts
<1>3. ASSUME NEW i \in DOMAIN list
      PROVE  /\ list[i].type = c.type => converted[i].type = c.type
             /\ converted[i].type = c.type => converted[i].status = c.status
  BY <1>2, UpdatedFacts
<1>4. CASE Has(list, c.type)
  <2>1. new = converted
    BY <1>4 DEF SetCondition
  <2> QED BY <1>1, <1>3, <1>4, <2>1 DEF Has
<1>5. CASE ~Has(list, c.type)
  <2>1. new = Append(converted, At(c, now))
    BY <1>5 DEF SetCondition
  <2> HIDE DEF converted, new
  <2>2. /\ new \in Seq(Condition) /\ Len(new) = Len(list) + 1
        /\ new[Len(list) + 1] = At(c, now)
        /\ \A i \in DOMAIN list : new[i] = converted[i]
    BY <1>1, <1>2, <2>1
  <2>3. \A i \in DOMAIN new : i \in DOMAIN list \/ i = Len(list) + 1
    BY <2>2
  <2>4. Has(new, c.type)
    BY <1>2, <2>2 DEF Has
  <2>5. \A i \in DOMAIN new : new[i].type = c.type => new[i].status = c.status
    BY <1>2, <1>3, <2>2, <2>3
  <2> QED BY <2>2, <2>4, <2>5 DEF new
<1> QED BY <1>4, <1>5

\* The provider's conditions keep their place, status and time, and none is
\* added or lost: LoadBalancersReady is found, or not found, as before
\* (isClusterReadyForDnsManagements).
THEOREM OthersUntouched ==
  ASSUME NEW list \in Seq(Condition), NEW c \in Condition, NEW now \in Nat
  PROVE  LET new == SetCondition(list, c, now)
         IN /\ \A i \in DOMAIN new : new[i].type # c.type =>
                 /\ i \in DOMAIN list /\ new[i].type = list[i].type
                 /\ new[i].status = list[i].status /\ new[i].time = list[i].time
            /\ \A type \in ConditionTypes \ {c.type} : Has(new, type) <=> Has(list, type)
<1> DEFINE converted == [i \in DOMAIN list |-> Updated(list[i], Stamped(c, now))]
           new == SetCondition(list, c, now)
<1>1. converted \in Seq(Condition) /\ Len(converted) = Len(list)
  BY SetFacts
<1>2. /\ Stamped(c, now) \in Condition /\ Stamped(c, now).type = c.type
      /\ At(c, now) \in Condition /\ At(c, now).type = c.type
  BY EntryFacts
<1>3. ASSUME NEW i \in DOMAIN list
      PROVE  /\ list[i].type = c.type => converted[i].type = c.type
             /\ list[i].type # c.type =>
                  /\ converted[i].type = list[i].type
                  /\ converted[i].status = list[i].status
                  /\ converted[i].time = list[i].time
  BY <1>2, UpdatedFacts
<1>4. CASE Has(list, c.type)
  <2>1. new = converted
    BY <1>4 DEF SetCondition
  <2>2. DOMAIN converted = DOMAIN list
    OBVIOUS
  <2> HIDE DEF converted, new
  <2> SUFFICES /\ \A i \in DOMAIN new : new[i].type # c.type =>
                    /\ i \in DOMAIN list /\ new[i].type = list[i].type
                    /\ new[i].status = list[i].status /\ new[i].time = list[i].time
               /\ \A type \in ConditionTypes \ {c.type} : Has(new, type) <=> Has(list, type)
    BY DEF new
  <2> QED BY <1>3, <2>1, <2>2 DEF Has
<1>5. CASE ~Has(list, c.type)
  <2>1. new = Append(converted, At(c, now))
    BY <1>5 DEF SetCondition
  <2> HIDE DEF converted, new
  <2>2. /\ Len(new) = Len(list) + 1 /\ new \in Seq(Condition)
        /\ new[Len(list) + 1] = At(c, now)
        /\ \A i \in DOMAIN list : i \in DOMAIN new /\ new[i] = converted[i]
    BY <1>1, <1>2, <2>1
  <2>3. \A i \in DOMAIN new : i \in DOMAIN list \/ i = Len(list) + 1
    BY <2>2
  <2>4. \A i \in DOMAIN new : new[i].type # c.type =>
          /\ i \in DOMAIN list /\ new[i].type = list[i].type
          /\ new[i].status = list[i].status /\ new[i].time = list[i].time
    BY <1>2, <1>3, <2>2, <2>3
  <2>5. \A type \in ConditionTypes \ {c.type} : Has(new, type) <=> Has(list, type)
    BY <1>2, <1>3, <2>2, <2>3 DEF Has
  <2> QED BY <2>4, <2>5 DEF new
<1> QED BY <1>4, <1>5
==============================================================================
