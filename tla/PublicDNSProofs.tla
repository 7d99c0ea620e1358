--------------------------- MODULE PublicDNSProofs ---------------------------
(***************************************************************************)
(* Theorems about PublicDNS, for every set of addresses, hosts and tags,   *)
(* every number of gateways, every choice of edits and every bound.        *)
(***************************************************************************)
EXTENDS PublicDNS, TLAPS

------------------------------------------------------------------------------
(***************************************************************************)
(* Types. That there are at most MaxEdits + 1 zones is no matter of types  *)
(* alone: a zone is made again only after others have deleted it, and each *)
(* time that is one of their edits.                                        *)
(***************************************************************************)
InputsTyped ==
  /\ kind \in Kinds /\ endpoint \in Addresses \union {NoIP}
  /\ ingress \in Service /\ gateways \in [1..NumGateways -> Gateway]
  /\ wildcard \in Targets /\ wanted \in Tags /\ location \in AnyLocation

ZonesCounted == made + (IF zone = 0 THEN 1 ELSE 0) <= edits + 1

CloudTyped ==
  /\ group \in Group /\ rrsets \subseteq RecordSet
  /\ made \in Nat /\ zone \in 0..made /\ delegation \in 0..made
  /\ edits \in 0..MaxEdits /\ ZonesCounted

PassTyped ==
  /\ pc \in PC /\ succeeded \in BOOLEAN /\ calm \in BOOLEAN
  /\ held \in Held /\ held.servers <= made
  /\ faults \in 0..MaxFaults

TypeInv == InputsTyped /\ CloudTyped /\ PassTyped

\* It says at least what TypeOK says.
LEMMA TypeInvSuffices == TypeInv => TypeOK
<1>1. CloudTyped => made \in 0..(MaxEdits + 1)
  BY PublicAssumption DEF CloudTyped, ZonesCounted
<1> QED BY <1>1 DEF TypeInv, InputsTyped, CloudTyped, PassTyped, TypeOK

\* The empty tags, the empty list and what is held before a pass have their types.
LEMMA Nothing == NoTags \in Tags /\ EmptyList \in Lists /\ NothingHeld \in Held
<1>1. NoTags \in [{} -> TagValues] /\ {} \in SUBSET TagKeys
  BY DEF NoTags
<1>2. NoTags \in Tags
  BY <1>1 DEF Tags
<1>3. EmptyList \in [{} -> RecordSet] /\ {} \in SUBSET (1..(NumGateways + 3))
  BY DEF EmptyList
<1>4. EmptyList \in Lists
  BY <1>3 DEF Lists
<1> QED BY <1>2, <1>4 DEF NothingHeld, Held

\* Changing one field of what a pass holds keeps its type, and the others.
LEMMA HeldFields ==
  ASSUME NEW h \in Held
  PROVE  /\ \A c \in SUBSET RecordSet :
              LET new == [h EXCEPT !.current = c]
              IN /\ new \in Held /\ new.current = c /\ new.api = h.api
                 /\ new.target = h.target /\ new.servers = h.servers /\ new.tags = h.tags
         /\ \A n \in Nat :
              LET new == [h EXCEPT !.servers = n]
              IN /\ new \in Held /\ new.servers = n /\ new.api = h.api
                 /\ new.target = h.target /\ new.current = h.current /\ new.tags = h.tags
         /\ \A t \in Lists :
              LET new == [h EXCEPT !.todo = t]
              IN /\ new \in Held /\ new.todo = t /\ new.api = h.api
                 /\ new.target = h.target /\ new.current = h.current
                 /\ new.servers = h.servers
         /\ \A t \in Tags :
              LET new == [h EXCEPT !.tags = t]
              IN /\ new \in Held /\ new.tags = t /\ new.api = h.api
                 /\ new.target = h.target /\ new.servers = h.servers
BY DEF Held

\* mergeResourceTags gives tags again, those asked for among them.
LEMMA MergeTagsType ==
  ASSUME NEW old \in Tags, NEW new \in Tags
  PROVE  /\ MergeTags(old, new) \in Tags
         /\ \A k \in DOMAIN new : /\ k \in DOMAIN MergeTags(old, new)
                                  /\ MergeTags(old, new)[k] = new[k]
<1> DEFINE K == DOMAIN old \union DOMAIN new
           merged == MergeTags(old, new)
<1>1. PICK A \in SUBSET TagKeys : old \in [A -> TagValues]
  BY DEF Tags
<1>2. PICK B \in SUBSET TagKeys : new \in [B -> TagValues]
  BY DEF Tags
<1>3. K \in SUBSET TagKeys /\ merged \in [K -> TagValues]
  BY <1>1, <1>2 DEF MergeTags
<1>4. merged \in Tags
  BY <1>3 DEF Tags
<1>5. \A k \in DOMAIN new : k \in DOMAIN merged /\ merged[k] = new[k]
  BY DEF MergeTags
<1> QED BY <1>4, <1>5

\* Whichever way a call ends, the pass is well typed after it.
LEMMA OutcomeType ==
  ASSUME TypeInv, NEW next \in PC, NEW h \in Held, h.servers <= made,
         CloudTyped', made <= made', UNCHANGED <<inputs, calm>>,
         \/ Goto(next) /\ held' = h /\ UNCHANGED faults
         \/ Fault /\ Fail
         \/ Fail /\ UNCHANGED faults
  PROVE  TypeInv'
<1>1. pc' \in PC
  BY DEF Goto, Fail, PC
<1>2. succeeded' \in BOOLEAN /\ calm' \in BOOLEAN
  BY DEF Goto, Fail, TypeInv, PassTyped
<1>3. held' \in Held
  BY Nothing DEF Fail
<1>4. held'.servers <= made'
  BY DEF Fail, NothingHeld, TypeInv, CloudTyped, Held
<1>5. faults' \in 0..MaxFaults
  BY PublicAssumption DEF TypeInv, PassTyped, Fault
<1>6. InputsTyped'
  BY DEF inputs, TypeInv, InputsTyped
<1> QED BY <1>1, <1>2, <1>3, <1>4, <1>5, <1>6 DEF TypeInv, PassTyped

\* An unchanged cloud stays well typed.
LEMMA CloudKept ==
  ASSUME TypeInv, UNCHANGED <<cloud, edits>>
  PROVE  CloudTyped' /\ made <= made'
BY DEF TypeInv, CloudTyped, ZonesCounted, cloud

\* So does the pass that stops.
LEMMA RefusedType ==
  ASSUME TypeInv, Refused
  PROVE  TypeInv'
<1>1. "idle" \in PC /\ NothingHeld \in Held /\ NothingHeld.servers <= made
  BY Nothing DEF PC, NothingHeld, TypeInv, CloudTyped
<1> QED BY <1>1, CloudKept, OutcomeType DEF Refused

\* A call that reads keeps the types.
LEMMA ReadType ==
  ASSUME TypeInv, NEW next \in PC, NEW h \in Held, h.servers <= made, Read(next, h)
  PROVE  TypeInv'
BY CloudKept, OutcomeType DEF Read

\* And one that writes what is well typed.
LEMMA WriteType ==
  ASSUME TypeInv, NEW next \in PC, NEW h \in Held, h.servers <= made,
         NEW ACTION effect, Write(effect, next, h),
         effect /\ UNCHANGED edits => CloudTyped' /\ made <= made'
  PROVE  TypeInv'
BY CloudKept, OutcomeType DEF Write

\* What a pass writes is well typed.
LEMMA SetGroupType ==
  ASSUME TypeInv, NEW tags \in Tags, SetGroup(tags), UNCHANGED edits
  PROVE  CloudTyped' /\ made <= made'
BY DEF TypeInv, CloudTyped, ZonesCounted, SetGroup, Group

LEMMA SetZoneType ==
  ASSUME TypeInv, SetZone, UNCHANGED edits
  PROVE  CloudTyped' /\ made <= made'
<1>1. CASE zone = 0
  BY <1>1, PublicAssumption DEF TypeInv, CloudTyped, ZonesCounted, SetZone
<1>2. CASE zone # 0
  BY <1>2 DEF TypeInv, CloudTyped, ZonesCounted, SetZone
<1> QED BY <1>1, <1>2

LEMMA SetDelegationType ==
  ASSUME TypeInv, SetDelegation(held.servers), UNCHANGED edits
  PROVE  CloudTyped' /\ made <= made'
BY DEF TypeInv, CloudTyped, PassTyped, ZonesCounted, SetDelegation, Held

LEMMA SetRecordType ==
  ASSUME TypeInv, NEW r \in RecordSet, SetRecord(r), UNCHANGED edits
  PROVE  CloudTyped' /\ made <= made'
BY DEF TypeInv, CloudTyped, ZonesCounted, SetRecord

\* An A record of a known name and an address is a record set.
LEMMA ARecordType ==
  ASSUME NEW name \in Hosts \union {"api", "apiserver"}, NEW data \in Addresses \union {Other}
  PROVE  Record(name, "A", data) \in RecordSet
BY DEF Record, RecordSet

\* So is every desired one, once the endpoint and the ingress have an address.
LEMMA DesiredType ==
  ASSUME TypeInv, NEW api \in Addresses \union {NoIP, Other},
         ~Unresolved(api), ~IngressNotReady
  PROVE  /\ DOMAIN DesiredARecords(api) \subseteq 1..(NumGateways + 3)
         /\ \A p \in DOMAIN DesiredARecords(api) : DesiredARecords(api)[p] \in RecordSet
<1>0. /\ ingress \in Service /\ gateways \in [1..NumGateways -> Gateway]
      /\ NumGateways \in Nat
  BY PublicAssumption DEF TypeInv, InputsTyped
<1>1. DOMAIN DesiredARecords(api) = ApiPlaces \union ServicePlaces
  BY DEF DesiredARecords
<1>2. ApiPlaces \subseteq 1..(NumGateways + 3)
  BY <1>0 DEF ApiPlaces
<1>3. ServicePlaces \subseteq 3..(NumGateways + 3)
  BY <1>0 DEF ServicePlaces, GatewaysReady
<1>4. ASSUME NEW p \in ApiPlaces \union ServicePlaces
      PROVE  ARecordAt(p, api) \in RecordSet
  <2>1. CASE p \in ApiPlaces
    <3>1. api \in Addresses \union {Other} /\ p \in {1, 2}
      BY <2>1 DEF ApiPlaces, Unresolved
    <3> QED BY <3>1, ARecordType DEF ARecordAt
  <2>2. CASE p \in ServicePlaces
    <3>1. kind = VSphere
      BY <2>2 DEF ServicePlaces
    <3>2. CASE p = 3
      <4>1. ingress.ip # Absent
        BY <1>0, <2>2, <3>2 DEF ServicePlaces, GatewaysReady
      <4>2. ingress.host \in Hosts /\ ingress.ip \in Addresses
        BY <1>0, <3>1, <4>1 DEF Service, IngressNotReady
      <4> QED BY <3>2, <4>2, ARecordType DEF ARecordAt, ServiceRecord
    <3>3. CASE p # 3
      <4>1. PICK i \in GatewaysReady : p = i + 3
        BY <2>2, <3>3 DEF ServicePlaces
      <4>2. i \in 1..NumGateways /\ gateways[i].host \in Hosts /\ gateways[i].ip \in Addresses
        BY <1>0, <4>1 DEF GatewaysReady, Gateway
      <4>3. p - 3 = i /\ p # 1 /\ p # 2
        BY <1>0, <4>1, <4>2
      <4>4. ARecordAt(p, api) = Record(gateways[i].host, "A", gateways[i].ip)
        BY <3>3, <4>3 DEF ARecordAt, ServiceRecord
      <4> QED BY <4>2, <4>4, ARecordType
    <3> QED BY <3>2, <3>3
  <2> QED BY <2>1, <2>2
<1>5. \A p \in DOMAIN DesiredARecords(api) : DesiredARecords(api)[p] \in RecordSet
  BY <1>1, <1>4 DEF DesiredARecords
<1> QED BY <1>0, <1>1, <1>2, <1>3, <1>5

\* So are those found missing, and they are still in their places.
LEMMA MissingType ==
  ASSUME TypeInv, NEW api \in Addresses \union {NoIP, Other}, NEW order,
         ~Unresolved(api), ~IngressNotReady
  PROVE  MissingARecords(order, api) \in Lists
<1> DEFINE desired == DesiredARecords(api)
           P == {q \in DOMAIN desired : Missing(held.current, order, desired[q])}
<1>1. MissingARecords(order, api) = [p \in P |-> desired[p]]
  BY DEF MissingARecords
<1>2. P \in SUBSET (1..(NumGateways + 3)) /\ \A p \in P : desired[p] \in RecordSet
  BY DesiredType
<1> HIDE DEF P, desired
<1>3. MissingARecords(order, api) \in [P -> RecordSet]
  BY <1>1, <1>2
<1> QED BY <1>2, <1>3 DEF Lists

\* A list has record sets, and what is left of it is a list.
LEMMA ListParts ==
  ASSUME NEW list \in Lists, NEW p \in DOMAIN list
  PROVE  /\ list[p] \in RecordSet
         /\ [q \in DOMAIN list \ {p} |-> list[q]] \in Lists
<1> DEFINE rest == [q \in DOMAIN list \ {p} |-> list[q]]
<1>1. PICK P \in SUBSET (1..(NumGateways + 3)) : list \in [P -> RecordSet]
  BY DEF Lists
<1>2. P \ {p} \in SUBSET (1..(NumGateways + 3)) /\ rest \in [P \ {p} -> RecordSet]
  BY <1>1
<1>3. rest \in Lists
  BY <1>2 DEF Lists
<1> QED BY <1>1, <1>3

\* Writing a record set keeps the types.
LEMMA RecordSetType ==
  ASSUME TypeInv, NEW next \in PC, NEW h \in Held, h.servers <= made,
         NEW r \in RecordSet, CreateOrUpdateRecordSet(r, next, h)
  PROVE  TypeInv'
<1>1. CASE zone = 0 \/ Clashes(r)
  BY <1>1, RefusedType DEF CreateOrUpdateRecordSet
<1>2. CASE ~(zone = 0 \/ Clashes(r))
  <2>1. Write(SetRecord(r), next, h)
    BY <1>2 DEF CreateOrUpdateRecordSet
  <2>2. SetRecord(r) /\ UNCHANGED edits => CloudTyped' /\ made <= made'
    BY SetRecordType
  <2> QED BY <2>1, <2>2, WriteType
<1> QED BY <1>1, <1>2

\* Every call of a pass keeps the types.
LEMMA PassType ==
  ASSUME TypeInv, Pass
  PROVE  TypeInv'
<1>0. /\ held \in Held /\ held.servers <= made /\ held.tags \in Tags
      /\ held.api \in Addresses \union {NoIP, Other} /\ held.todo \in Lists
      /\ group \in Group /\ group.tags \in Tags /\ rrsets \in SUBSET RecordSet
      /\ zone \in Nat /\ zone <= made /\ endpoint \in Addresses \union {NoIP, Other}
      /\ kind \in Kinds
  BY DEF TypeInv, PassTyped, Held, CloudTyped, Group, InputsTyped
<1>1. CASE GetResourceGroup
  <2> DEFINE tags == IF group.exists THEN MergeTags(group.tags, held.tags) ELSE held.tags
             next == IF ~group.exists
                     THEN IF location = "given" THEN "createGroup" ELSE "locate"
                     ELSE IF TagsEqual(group.tags, held.tags) THEN "list" ELSE "putTags"
             h == [held EXCEPT !.tags = tags]
  <2>1. tags \in Tags
    BY <1>0, MergeTagsType
  <2>2. h \in Held /\ h.servers <= made
    <3> HIDE DEF tags
    <3> QED BY <1>0, <2>1, HeldFields
  <2>3. next \in PC /\ Read(next, h)
    BY <1>1 DEF GetResourceGroup, PC
  <2> HIDE DEF next, h
  <2> QED BY <2>2, <2>3, ReadType
<1>12. CASE GetLocation
  <2>1. "createGroup" \in PC /\ (Refused \/ Read("createGroup", held))
    BY <1>12 DEF GetLocation, PC
  <2> QED BY <1>0, <2>1, ReadType, RefusedType
<1>2. CASE CreateResourceGroup \/ UpdateResourceGroupTags
  <2>1. "list" \in PC /\ Write(SetGroup(held.tags), "list", held)
    BY <1>2 DEF CreateResourceGroup, UpdateResourceGroupTags, PC
  <2>2. SetGroup(held.tags) /\ UNCHANGED edits => CloudTyped' /\ made <= made'
    BY <1>0, SetGroupType
  <2> QED BY <1>0, <2>1, <2>2, WriteType
<1>3. CASE ListRecordSets
  <2> DEFINE next == IF zone = 0 THEN "createZone" ELSE "getZone"
             h == [held EXCEPT !.current = rrsets]
  <2>1. next \in PC /\ h \in Held /\ h.servers <= made
    BY <1>0, HeldFields DEF PC
  <2>2. Refused \/ Read(next, h)
    BY <1>3 DEF ListRecordSets
  <2> HIDE DEF next, h
  <2> QED BY <2>1, <2>2, ReadType, RefusedType
<1>4. CASE CreateClusterDNSZone
  <2>1. "getZone" \in PC /\ (Refused \/ Write(SetZone, "getZone", held))
    BY <1>4 DEF CreateClusterDNSZone, PC
  <2>2. SetZone /\ UNCHANGED edits => CloudTyped' /\ made <= made'
    BY SetZoneType
  <2> QED BY <1>0, <2>1, <2>2, WriteType, RefusedType
<1>5. CASE GetZone
  <2> DEFINE h == [held EXCEPT !.servers = zone]
  <2>1. "listBase" \in PC /\ h \in Held /\ h.servers <= made
    BY <1>0, HeldFields DEF PC
  <2>2. Refused \/ Read("listBase", h)
    BY <1>5 DEF GetZone
  <2> HIDE DEF h
  <2> QED BY <2>1, <2>2, ReadType, RefusedType
<1>6. CASE ListBaseRecordSets
  <2>1. {"diffA", "ns"} \subseteq PC
    BY DEF PC
  <2> QED BY <1>0, <1>6, <2>1, ReadType DEF ListBaseRecordSets
<1>7. CASE CreateClusterNSRecord
  <2>1. "diffA" \in PC /\ Write(SetDelegation(held.servers), "diffA", held)
    BY <1>7 DEF CreateClusterNSRecord, PC
  <2>2. SetDelegation(held.servers) /\ UNCHANGED edits => CloudTyped' /\ made <= made'
    BY SetDelegationType
  <2> QED BY <1>0, <2>1, <2>2, WriteType
<1>8. CASE CalculateMissingARecords
  <2>1. CASE Refused
    BY <2>1, RefusedType
  <2>2. CASE ~Refused
    <3>1. PICK order \in TypeOrders, api \in ApiAddresses :
            LET todo == MissingARecords(order, api)
            IN /\ ~IngressNotReady /\ ~Unresolved(api)
               /\ Read(AfterDiff(todo), [held EXCEPT !.todo = todo])
      BY <1>8, <2>2 DEF CalculateMissingARecords
    <3> DEFINE todo == MissingARecords(order, api)
    <3>2. api \in Addresses \union {NoIP, Other}
      BY <1>0 DEF ApiAddresses
    <3>3. todo \in Lists
      BY <3>1, <3>2, MissingType
    <3>4. Read(AfterDiff(todo), [held EXCEPT !.todo = todo])
      BY <3>1
    <3> HIDE DEF todo
    <3>5. AfterDiff(todo) \in PC
      BY DEF AfterDiff, PC
    <3>6. [held EXCEPT !.todo = todo] \in Held /\ [held EXCEPT !.todo = todo].servers <= made
      BY <1>0, <3>3, HeldFields
    <3> QED BY <3>4, <3>5, <3>6, ReadType
  <2> QED BY <2>1, <2>2
<1>9. CASE UpdateARecord
  <2>1. PICK p \in DOMAIN held.todo :
          LET rest == [q \in DOMAIN held.todo \ {p} |-> held.todo[q]]
          IN CreateOrUpdateRecordSet(held.todo[p], AfterDiff(rest),
                                     [held EXCEPT !.todo = rest])
    BY <1>9 DEF UpdateARecord
  <2> DEFINE rest == [q \in DOMAIN held.todo \ {p} |-> held.todo[q]]
  <2>2. rest \in Lists /\ held.todo[p] \in RecordSet
    BY <1>0, ListParts
  <2>3. CreateOrUpdateRecordSet(held.todo[p], AfterDiff(rest), [held EXCEPT !.todo = rest])
    BY <2>1
  <2> HIDE DEF rest
  <2>4. AfterDiff(rest) \in PC
    BY DEF AfterDiff, PC
  <2>5. [held EXCEPT !.todo = rest] \in Held /\ [held EXCEPT !.todo = rest].servers <= made
    BY <1>0, <2>2, HeldFields
  <2> QED BY <2>2, <2>3, <2>4, <2>5, RecordSetType
<1>10. CASE CalculateMissingCnameRecords
  <2>1. /\ UNCHANGED <<inputs, cloud, calm, faults, edits>>
        /\ \/ Goto("putCname") /\ held' = held
           \/ Goto("idle") /\ held' = NothingHeld
    BY <1>10 DEF CalculateMissingCnameRecords
  <2>2. {"putCname", "idle"} \subseteq PC /\ NothingHeld.servers <= made
    BY DEF PC, NothingHeld, TypeInv, CloudTyped
  <2> QED BY <1>0, <2>1, <2>2, CloudKept, OutcomeType, Nothing
<1>11. CASE UpdateCnameRecord
  <2>1. DesiredCname(held.target) \in RecordSet
    BY <1>0 DEF DesiredCname, Record, RecordSet, Held
  <2>2. "idle" \in PC /\ NothingHeld.servers <= made
    BY DEF PC, NothingHeld, TypeInv, CloudTyped
  <2> QED BY <1>11, <2>1, <2>2, RecordSetType, Nothing DEF UpdateCnameRecord
<1> QED BY <1>1, <1>2, <1>3, <1>4, <1>5, <1>6, <1>7, <1>8, <1>9, <1>10, <1>11, <1>12
        DEF Pass

\* A record set whose data somebody has changed is one still.
LEMMA ChangedType ==
  ASSUME NEW r \in RecordSet
  PROVE  [r EXCEPT !.data = Other] \in RecordSet
<1>1. CASE r \in [name: Hosts \union {"api", "apiserver"}, type: {"A"},
                  data: Addresses \union {Other}]
  BY <1>1 DEF RecordSet
<1>2. CASE r \in [name: Hosts, type: {"TXT"}, data: {Other}]
  BY <1>2 DEF RecordSet
<1>3. CASE r \in [name: {"*"}, type: {"CNAME"}, data: Targets \union {Other}]
  BY <1>3 DEF RecordSet
<1> QED BY <1>1, <1>2, <1>3 DEF RecordSet

\* What an edit leaves alone.
LEMMA EditKeeps ==
  ASSUME TypeInv, Others
  PROVE  /\ calm' = FALSE
         /\ UNCHANGED <<kind, made, pc, held, succeeded, faults>>
         /\ edits' \in 0..MaxEdits /\ edits' = edits + 1
<1>1. PICK what : Edit(what)
  BY DEF Others, DeleteZone, DeleteGroup, DeleteDelegation, EditRecord, AddText, EditTags,
         MoveEndpoint, EditIngress, EditGateway, EditWildcard, EditAnnotations, EditLocation
<1>2. calm' = FALSE /\ UNCHANGED <<kind, made, pc, held, succeeded, faults>>
  BY <1>1 DEF Edit
<1>3. edits' \in 0..MaxEdits /\ edits' = edits + 1
  BY <1>1, PublicAssumption DEF Edit, TypeInv, CloudTyped
<1> QED BY <1>2, <1>3

\* An edit of the inputs or of the group, delegation and record sets.
LEMMA EditType ==
  ASSUME TypeInv, Others, InputsTyped', group' \in Group, rrsets' \subseteq RecordSet,
         zone' = zone \/ (zone # 0 /\ zone' = 0), delegation' \in {delegation, 0}
  PROVE  TypeInv'
<1>1. /\ edits' \in 0..MaxEdits /\ edits' = edits + 1 /\ made' = made /\ calm' = FALSE
      /\ UNCHANGED <<pc, held, succeeded, faults>>
  BY EditKeeps
<1>2. /\ zone \in 0..made /\ delegation \in 0..made /\ made \in Nat /\ edits \in Nat
      /\ ZonesCounted
  BY DEF TypeInv, CloudTyped
<1>3. zone' \in 0..made' /\ delegation' \in 0..made' /\ made' \in Nat
  BY <1>1, <1>2
<1>4. ZonesCounted'
  BY <1>1, <1>2 DEF ZonesCounted
<1>5. CloudTyped'
  BY <1>1, <1>3, <1>4 DEF CloudTyped
<1>6. PassTyped'
  BY <1>1 DEF TypeInv, PassTyped
<1> QED BY <1>5, <1>6 DEF TypeInv

\* Every change by others keeps the types.
LEMMA OthersType ==
  ASSUME TypeInv, Others
  PROVE  TypeInv'
<1>0. /\ group \in Group /\ rrsets \subseteq RecordSet /\ InputsTyped /\ kind' = kind
      /\ gateways \in [1..NumGateways -> Gateway]
  BY EditKeeps DEF TypeInv, CloudTyped, InputsTyped
<1>1. CASE DeleteZone
  BY <1>0, <1>1, EditType DEF DeleteZone, InputsTyped
<1>2. CASE DeleteGroup
  <2>1. group' \in Group
    BY <1>2, Nothing DEF DeleteGroup, Group
  <2>2. zone' = zone \/ (zone # 0 /\ zone' = 0)
    BY <1>2 DEF DeleteGroup
  <2> QED BY <1>0, <1>2, <2>1, <2>2, EditType DEF DeleteGroup, InputsTyped
<1>3. CASE DeleteDelegation
  BY <1>0, <1>3, EditType DEF DeleteDelegation, InputsTyped
<1>4. CASE EditRecord
  <2>1. rrsets' \subseteq RecordSet
    BY <1>0, <1>4, ChangedType DEF EditRecord
  <2> QED BY <1>0, <1>4, <2>1, EditType DEF EditRecord, InputsTyped
<1>5. CASE AddText
  <2>1. \A host \in Hosts : Record(host, "TXT", Other) \in RecordSet
    BY DEF Record, RecordSet
  <2>2. rrsets' \subseteq RecordSet
    BY <1>0, <1>5, <2>1 DEF AddText
  <2> QED BY <1>0, <1>5, <2>2, EditType DEF AddText, InputsTyped
<1>6. CASE EditTags
  <2>1. group' \in Group
    BY <1>0, <1>6 DEF EditTags, Group
  <2> QED BY <1>0, <1>6, <2>1, EditType DEF EditTags, InputsTyped
<1>7. CASE MoveEndpoint
  BY <1>0, <1>7, EditType DEF MoveEndpoint, InputsTyped
<1>8. CASE EditIngress
  BY <1>0, <1>8, EditType DEF EditIngress, InputsTyped
<1>9. CASE EditGateway
  <2>1. gateways' \in [1..NumGateways -> Gateway]
    BY <1>0, <1>9 DEF EditGateway
  <2> QED BY <1>0, <1>9, <2>1, EditType DEF EditGateway, InputsTyped
<1>10. CASE EditWildcard
  BY <1>0, <1>10, EditType DEF EditWildcard, InputsTyped
<1>11. CASE EditAnnotations
  BY <1>0, <1>11, EditType DEF EditAnnotations, InputsTyped
<1>12. CASE EditLocation
  <2>1. location' \in AnyLocation
    BY <1>12 DEF EditLocation, AnyLocation
  <2> QED BY <1>0, <1>12, <2>1, EditType DEF EditLocation, InputsTyped
<1> QED BY <1>1, <1>2, <1>3, <1>4, <1>5, <1>6, <1>7, <1>8, <1>9, <1>10, <1>11, <1>12
        DEF Others

\* What a pass holds in the beginning.
LEMMA StartHolds ==
  ASSUME TypeInv, Start
  PROVE  /\ held' \in Held /\ held'.servers = 0
         /\ held'.api = endpoint /\ held'.target = wildcard /\ held'.tags = wanted
<1>1. /\ endpoint \in Addresses \union {NoIP} /\ wildcard \in Targets /\ wanted \in Tags
      /\ NothingHeld \in Held /\ NothingHeld.servers = 0
  BY Nothing DEF TypeInv, InputsTyped, NothingHeld
<1>2. held' = [NothingHeld EXCEPT !.api = endpoint, !.target = wildcard, !.tags = wanted]
  BY DEF Start
<1> QED BY <1>1, <1>2 DEF Held

\* The start of a pass keeps the types.
LEMMA StartType ==
  ASSUME TypeInv, Start
  PROVE  TypeInv'
<1>1. CloudTyped' /\ made' = made
  BY CloudKept DEF Start, cloud
<1>2. InputsTyped'
  BY DEF Start, inputs, TypeInv, InputsTyped
<1>3. pc' \in PC /\ succeeded' \in BOOLEAN /\ calm' \in BOOLEAN
  BY DEF Start, Goto, PC
<1>4. held' \in Held /\ held'.servers <= made'
  BY <1>1, StartHolds DEF TypeInv, CloudTyped
<1>5. faults' \in 0..MaxFaults
  BY DEF Start, TypeInv, PassTyped
<1> QED BY <1>1, <1>2, <1>3, <1>4, <1>5 DEF TypeInv, PassTyped

\* A cluster before its first pass is well typed.
LEMMA InitType == Init => TypeInv
<1> SUFFICES ASSUME Init PROVE TypeInv
  OBVIOUS
<1>1. InputsTyped
  <2>1. location \in AnyLocation
    BY PublicAssumption DEF Init, AnyLocation
  <2> QED BY <2>1, Nothing DEF Init, InputsTyped, Service, Gateway, Targets
<1>2. CloudTyped
  <2>1. made = 0 /\ zone = 0 /\ delegation = 0 /\ edits = 0 /\ rrsets = {}
    BY DEF Init
  <2>2. group \in Group
    BY Nothing DEF Init, Group
  <2> QED BY <2>1, <2>2, PublicAssumption DEF CloudTyped, ZonesCounted
<1>3. PassTyped
  <2>1. faults \in 0..MaxFaults /\ held.servers <= made
    BY PublicAssumption DEF Init, NothingHeld
  <2> QED BY <2>1, Nothing DEF Init, PassTyped, PC
<1> QED BY <1>1, <1>2, <1>3 DEF TypeInv

\* Nothing changes when nothing does.
LEMMA StutterType ==
  ASSUME TypeInv, UNCHANGED vars
  PROVE  TypeInv'
BY DEF vars, inputs, cloud, TypeInv, InputsTyped, CloudTyped, ZonesCounted, PassTyped

\* Every variable of dns.Service and of Azure DNS keeps its type, and every list of
\* records to write consists of record sets Azure knows, whatever others change
\* between the call that reads and the call that writes. No pass makes a zone
\* that others have not deleted first.
THEOREM TypeCorrect == Spec => []TypeOK
<1>1. TypeInv /\ [Next]_vars => TypeInv'
  BY StartType, PassType, OthersType, StutterType DEF Next
<1> QED BY <1>1, InitType, TypeInvSuffices, PTL DEF Spec

------------------------------------------------------------------------------
(***************************************************************************)
(* What a pass knows.                                                      *)
(***************************************************************************)
Grouping == {"getGroup", "locate", "createGroup", "putTags"}
Comparing == {"createZone", "getZone", "listBase", "ns", "diffA"}
Recording == {"putA", "diffCname", "putCname"}

\* These tags have those that the annotations ask for.
Covers(tags) == \A k \in DOMAIN wanted : k \in DOMAIN tags /\ tags[k] = wanted[k]

TagsKnown ==
  kind # AzureCluster =>
    /\ pc = "getGroup" => held.tags = wanted
    /\ pc \in {"locate", "createGroup", "putTags"} => Covers(held.tags)
    /\ pc \notin Grouping => Covers(group.tags)

GroupKnown == pc \in Comparing \union Recording => group.exists

\* The zone is there, the name servers are its own, and it is delegated to.
ZoneKnown ==
  /\ pc \in (Comparing \ {"createZone"}) \union Recording => zone # 0
  /\ pc \in {"listBase", "ns", "diffA"} \union Recording => held.servers = zone
  /\ pc \in {"diffA"} \union Recording => delegation = zone

\* The record sets are as the pass listed them, until it writes one.
ListKnown ==
  /\ pc \in Comparing => held.current = rrsets
  /\ pc \in Recording => \A r \in held.current : r.type = "CNAME" => r \in rrsets

\* The A records are right, or still to be written.
RecordsKnown ==
  /\ pc \in Recording =>
       /\ \A p \in DOMAIN held.todo :
            p \in DOMAIN WantedARecords /\ held.todo[p] = WantedARecords[p]
       /\ NoNameTwice =>
            \A p \in DOMAIN WantedARecords :
              WantedARecords[p] \in rrsets \/ p \in DOMAIN held.todo
  /\ pc \in {"diffCname", "putCname"} => DOMAIN held.todo = {}

\* What an undisturbed pass has learnt is still so.
Learnt == TagsKnown /\ GroupKnown /\ ZoneKnown /\ ListKnown /\ RecordsKnown
Knowledge ==
  calm /\ pc # "idle" => held.api = endpoint /\ held.target = wildcard /\ Learnt

AllThere ==
  /\ group.exists /\ zone # 0 /\ delegation = zone
  /\ NoNameTwice => \A p \in DOMAIN WantedARecords : WantedARecords[p] \in rrsets
  /\ DesiredCname(wildcard) \in rrsets
  /\ kind # AzureCluster => Covers(group.tags)

\* What a pass that has succeeded has left behind.
Result == succeeded => pc = "idle" /\ (calm => AllThere)

\* Whatever others do, the NS record is written with name servers of some zone.
ServersHeld == pc \in {"listBase", "ns"} => held.servers # 0

PassInv == TypeInv /\ Knowledge /\ Result /\ ServersHeld

\* What is wanted depends on the inputs alone.
LEMMA WantedKept ==
  ASSUME UNCHANGED inputs
  PROVE  /\ WantedARecords' = WantedARecords
         /\ NoNameTwice' <=> NoNameTwice
         /\ UNCHANGED <<kind, endpoint, wildcard, wanted>>
<1>1. UNCHANGED <<kind, endpoint, ingress, gateways, wildcard, wanted>>
  BY DEF inputs
<1>2. WantedARecords' = WantedARecords
  BY <1>1 DEF WantedARecords, DesiredARecords, ApiPlaces, ServicePlaces, GatewaysReady,
              ARecordAt, ServiceRecord
<1>3. NoNameTwice' <=> NoNameTwice
  BY <1>2 DEF NoNameTwice
<1> QED BY <1>1, <1>2, <1>3

\* A pass that fails claims nothing.
LEMMA FailInv ==
  ASSUME TypeInv', Fail
  PROVE  PassInv'
BY DEF Fail, PassInv, Knowledge, Result, ServersHeld

\* Others end the calm, and leave the pass itself alone.
LEMMA OthersInv ==
  ASSUME PassInv, Others
  PROVE  PassInv'
<1>1. TypeInv' /\ calm' = FALSE /\ UNCHANGED <<pc, held, succeeded>>
  BY OthersType, EditKeeps DEF PassInv
<1> QED BY <1>1 DEF PassInv, Knowledge, Result, ServersHeld

\* A pass starts with its scope and without knowledge.
LEMMA StartInv ==
  ASSUME PassInv, Start
  PROVE  PassInv'
<1>1. TypeInv' /\ held'.api = endpoint /\ held'.target = wildcard /\ held'.tags = wanted
  BY StartType, StartHolds DEF PassInv
<1>2. /\ pc' = IF kind = AzureCluster THEN "list" ELSE "getGroup"
      /\ succeeded' = FALSE /\ UNCHANGED <<kind, endpoint, wildcard, wanted>>
  BY DEF Start, Goto, inputs
<1>3. TagsKnown'
  BY <1>1, <1>2 DEF TagsKnown, Grouping
<1>4. GroupKnown' /\ ZoneKnown' /\ ListKnown' /\ RecordsKnown'
  BY <1>2 DEF GroupKnown, ZoneKnown, ListKnown, RecordsKnown, Comparing, Recording
<1> QED BY <1>1, <1>2, <1>3, <1>4 DEF PassInv, Knowledge, Result, Learnt, ServersHeld

\* A call that goes on to another one and keeps the scope.
LEMMA GoesOn ==
  ASSUME PassInv, TypeInv', pc # "idle", succeeded' = FALSE, UNCHANGED <<inputs, calm>>,
         held'.api = held.api, held'.target = held.target, ServersHeld',
         calm /\ held.api = endpoint /\ held.target = wildcard /\ Learnt => Learnt'
  PROVE  PassInv'
BY WantedKept DEF PassInv, Knowledge, Result, ServersHeld

\* createClusterResourceGroup decides on the tags read: those that are equal cover
\* what is asked for, and so does the merger.
LEMMA GetGroupInv ==
  ASSUME PassInv, TypeInv', GetResourceGroup
  PROVE  PassInv'
<1>1. CASE Fail
  BY <1>1, FailInv
<1>2. CASE ~Fail
  <2> DEFINE tags == IF group.exists THEN MergeTags(group.tags, held.tags) ELSE held.tags
  <2>0. held \in Held /\ held.tags \in Tags /\ group.tags \in Tags /\ wanted \in Tags
    BY DEF PassInv, TypeInv, PassTyped, CloudTyped, InputsTyped, Group, Held
  <2>1. /\ pc = "getGroup"
        /\ pc' = IF ~group.exists
                 THEN IF location = "given" THEN "createGroup" ELSE "locate"
                 ELSE IF TagsEqual(group.tags, held.tags) THEN "list" ELSE "putTags"
        /\ succeeded' = FALSE /\ held' = [held EXCEPT !.tags = tags]
        /\ UNCHANGED <<inputs, cloud, calm>>
    BY <1>2 DEF GetResourceGroup, Read, Goto
  <2>2. tags \in Tags
    BY <2>0, MergeTagsType
  <2>3. held.tags = wanted => Covers(tags)
    BY <2>0, MergeTagsType DEF Covers
  <2>4. held.tags = wanted /\ pc' = "list" => Covers(group.tags)
    BY <2>1 DEF Covers, TagsEqual
  <2> HIDE DEF tags
  <2>5. held'.api = held.api /\ held'.target = held.target /\ held'.tags = tags
    BY <2>0, <2>1, <2>2, HeldFields
  <2>6. UNCHANGED <<kind, wanted, group>>
    BY <2>1 DEF inputs, cloud
  <2>7. Learnt => TagsKnown'
    BY <2>1, <2>3, <2>4, <2>5, <2>6 DEF Learnt, TagsKnown, Grouping, Covers
  <2>8. GroupKnown' /\ ZoneKnown' /\ ListKnown' /\ RecordsKnown'
    BY <2>1 DEF GroupKnown, ZoneKnown, ListKnown, RecordsKnown, Comparing, Recording
  <2> QED BY <2>1, <2>5, <2>7, <2>8, GoesOn DEF Learnt, ServersHeld
<1> QED BY <1>1, <1>2

\* Looking up a location changes nothing.
LEMMA LocateInv ==
  ASSUME PassInv, TypeInv', GetLocation
  PROVE  PassInv'
<1>1. CASE Fail
  BY <1>1, FailInv
<1>2. CASE ~Fail
  <2>1. /\ pc = "locate" /\ pc' = "createGroup" /\ succeeded' = FALSE /\ held' = held
        /\ UNCHANGED <<inputs, cloud, calm>>
    BY <1>2 DEF GetLocation, Read, Refused, Goto
  <2>2. UNCHANGED <<kind, wanted>>
    BY <2>1 DEF inputs
  <2>3. Learnt => TagsKnown'
    BY <2>1, <2>2 DEF Learnt, TagsKnown, Grouping, Covers
  <2>4. GroupKnown' /\ ZoneKnown' /\ ListKnown' /\ RecordsKnown'
    BY <2>1 DEF GroupKnown, ZoneKnown, ListKnown, RecordsKnown, Comparing, Recording
  <2> QED BY <2>1, <2>3, <2>4, GoesOn DEF Learnt, ServersHeld
<1> QED BY <1>1, <1>2

\* The group has the tags that were written.
LEMMA PutGroupInv ==
  ASSUME PassInv, TypeInv', CreateResourceGroup \/ UpdateResourceGroupTags
  PROVE  PassInv'
<1>1. CASE Fail
  BY <1>1, FailInv
<1>2. CASE ~Fail
  <2>1. /\ pc \in {"createGroup", "putTags"} /\ pc' = "list" /\ succeeded' = FALSE
        /\ held' = held /\ group' = [exists |-> TRUE, tags |-> held.tags]
        /\ UNCHANGED <<inputs, calm>>
    BY <1>2 DEF CreateResourceGroup, UpdateResourceGroupTags, Write, SetGroup, Goto
  <2>2. UNCHANGED <<kind, wanted>> /\ group'.tags = held.tags
    BY <2>1 DEF inputs
  <2>3. Learnt => TagsKnown'
    BY <2>1, <2>2 DEF Learnt, TagsKnown, Grouping, Covers
  <2>4. GroupKnown' /\ ZoneKnown' /\ ListKnown' /\ RecordsKnown'
    BY <2>1 DEF GroupKnown, ZoneKnown, ListKnown, RecordsKnown, Comparing, Recording
  <2> QED BY <2>1, <2>3, <2>4, GoesOn DEF Learnt, ServersHeld
<1> QED BY <1>1, <1>2

\* After the group, its tags stay as they are.
LEMMA TagsStay ==
  ASSUME Learnt, pc \notin Grouping, pc' \notin Grouping, group' = group,
         UNCHANGED inputs
  PROVE  TagsKnown'
BY DEF Learnt, TagsKnown, inputs, Covers, Grouping

\* The list tells whether the zone exists, and its record sets.
LEMMA ListInv ==
  ASSUME PassInv, TypeInv', ListRecordSets
  PROVE  PassInv'
<1>1. CASE Fail
  BY <1>1, FailInv
<1>2. CASE ~Fail
  <2>0. held \in Held /\ rrsets \in SUBSET RecordSet
    BY DEF PassInv, TypeInv, PassTyped, CloudTyped
  <2>1. /\ pc = "list" /\ group.exists /\ succeeded' = FALSE
        /\ pc' = IF zone = 0 THEN "createZone" ELSE "getZone"
        /\ held' = [held EXCEPT !.current = rrsets]
        /\ UNCHANGED <<inputs, cloud, calm>>
    BY <1>2 DEF ListRecordSets, Read, Refused, Goto
  <2>2. held'.api = held.api /\ held'.target = held.target /\ held'.current = rrsets
    BY <2>0, <2>1, HeldFields
  <2>3. UNCHANGED <<group, zone, rrsets>>
    BY <2>1 DEF cloud
  <2>4. Learnt => TagsKnown'
    BY <2>1, <2>3, TagsStay DEF Grouping
  <2>5. GroupKnown' /\ ZoneKnown' /\ ListKnown' /\ RecordsKnown'
    BY <2>1, <2>2, <2>3
       DEF GroupKnown, ZoneKnown, ListKnown, RecordsKnown, Comparing, Recording
  <2> QED BY <2>1, <2>2, <2>4, <2>5, GoesOn DEF Learnt, ServersHeld
<1> QED BY <1>1, <1>2

\* createClusterDNSZone leaves a zone there, and its record sets alone.
LEMMA CreateZoneInv ==
  ASSUME PassInv, TypeInv', CreateClusterDNSZone
  PROVE  PassInv'
<1>1. CASE Fail
  BY <1>1, FailInv
<1>2. CASE ~Fail
  <2>1. /\ pc = "createZone" /\ pc' = "getZone" /\ succeeded' = FALSE /\ held' = held
        /\ SetZone /\ UNCHANGED <<inputs, calm>>
    BY <1>2 DEF CreateClusterDNSZone, Write, Refused, Goto
  <2>2. zone' # 0 /\ UNCHANGED <<group, rrsets>>
    BY <2>1 DEF SetZone, PassInv, TypeInv, CloudTyped
  <2>3. Learnt => TagsKnown'
    BY <2>1, <2>2, TagsStay DEF Grouping
  <2>4. Learnt => GroupKnown' /\ ZoneKnown' /\ ListKnown' /\ RecordsKnown'
    BY <2>1, <2>2
       DEF Learnt, GroupKnown, ZoneKnown, ListKnown, RecordsKnown, Comparing, Recording
  <2> QED BY <2>1, <2>3, <2>4, GoesOn DEF Learnt, ServersHeld
<1> QED BY <1>1, <1>2

\* GetZone tells the name servers.
LEMMA GetZoneInv ==
  ASSUME PassInv, TypeInv', GetZone
  PROVE  PassInv'
<1>1. CASE Fail
  BY <1>1, FailInv
<1>2. CASE ~Fail
  <2>0. held \in Held /\ zone \in Nat
    BY DEF PassInv, TypeInv, PassTyped, CloudTyped
  <2>1. /\ pc = "getZone" /\ zone # 0 /\ pc' = "listBase" /\ succeeded' = FALSE
        /\ held' = [held EXCEPT !.servers = zone]
        /\ UNCHANGED <<inputs, cloud, calm>>
    BY <1>2 DEF GetZone, Read, Refused, Goto
  <2>2. /\ held'.api = held.api /\ held'.target = held.target
        /\ held'.servers = zone /\ held'.current = held.current
    BY <2>0, <2>1, HeldFields
  <2>3. UNCHANGED <<group, zone, rrsets>>
    BY <2>1 DEF cloud
  <2>4. Learnt => TagsKnown'
    BY <2>1, <2>3, TagsStay DEF Grouping
  <2>5. Learnt => GroupKnown' /\ ZoneKnown' /\ ListKnown' /\ RecordsKnown'
    BY <2>1, <2>2, <2>3
       DEF Learnt, GroupKnown, ZoneKnown, ListKnown, RecordsKnown, Comparing, Recording
  <2> QED BY <2>1, <2>2, <2>4, <2>5, GoesOn DEF Learnt, ServersHeld
<1> QED BY <1>1, <1>2

\* The NS record is never taken to exist: it is written in every pass.
LEMMA ListBaseInv ==
  ASSUME PassInv, TypeInv', ListBaseRecordSets
  PROVE  PassInv'
<1>1. CASE Fail
  BY <1>1, FailInv
<1>2. CASE ~Fail
  <2>1. /\ pc = "listBase" /\ pc' = "ns" /\ succeeded' = FALSE /\ held' = held
        /\ UNCHANGED <<inputs, cloud, calm>>
    <3>1. pc = "listBase" /\ Read("ns", held)
      BY DEF ListBaseRecordSets, ClusterNSRecordExists
    <3> QED BY <1>2, <3>1 DEF Read, Goto
  <2>2. UNCHANGED <<group, zone, rrsets>>
    BY <2>1 DEF cloud
  <2>3. Learnt => TagsKnown'
    BY <2>1, <2>2, TagsStay DEF Grouping
  <2>4. Learnt => GroupKnown' /\ ZoneKnown' /\ ListKnown' /\ RecordsKnown'
    BY <2>1, <2>2
       DEF Learnt, GroupKnown, ZoneKnown, ListKnown, RecordsKnown, Comparing, Recording
  <2>5. ServersHeld'
    BY <2>1 DEF PassInv, ServersHeld
  <2> QED BY <2>1, <2>3, <2>4, <2>5, GoesOn DEF Learnt
<1> QED BY <1>1, <1>2

\* After it the base zone delegates to the name servers that GetZone returned.
LEMMA CreateNSInv ==
  ASSUME PassInv, TypeInv', CreateClusterNSRecord
  PROVE  PassInv'
<1>1. CASE Fail
  BY <1>1, FailInv
<1>2. CASE ~Fail
  <2>1. /\ pc = "ns" /\ pc' = "diffA" /\ succeeded' = FALSE /\ held' = held
        /\ delegation' = held.servers /\ UNCHANGED <<group, zone, rrsets>>
        /\ UNCHANGED <<inputs, calm>>
    BY <1>2 DEF CreateClusterNSRecord, Write, SetDelegation, Goto
  <2>2. Learnt => TagsKnown'
    BY <2>1, TagsStay DEF Grouping
  <2>3. Learnt => GroupKnown' /\ ZoneKnown' /\ ListKnown' /\ RecordsKnown'
    BY <2>1
       DEF Learnt, GroupKnown, ZoneKnown, ListKnown, RecordsKnown, Comparing, Recording
  <2> QED BY <2>1, <2>2, <2>3, GoesOn DEF Learnt, ServersHeld
<1> QED BY <1>1, <1>2

\* The wanted A records are A records, the wildcard is a CNAME.
LEMMA WantedTypes ==
  /\ \A p \in DOMAIN WantedARecords : WantedARecords[p].type = "A"
  /\ \A target : DesiredCname(target).type = "CNAME"
<1>1. \A p : ARecordAt(p, endpoint).type = "A"
  BY DEF ARecordAt, ServiceRecord, Record
<1>2. \A p \in DOMAIN WantedARecords : WantedARecords[p].type = "A"
  BY <1>1 DEF WantedARecords, DesiredARecords
<1>3. \A target : DesiredCname(target).type = "CNAME"
  BY DEF DesiredCname, Record
<1> QED BY <1>2, <1>3

\* In the calm, calculateMissingARecords finds every A record that is not as wanted.
LEMMA MissingAreWanted ==
  ASSUME held.api = endpoint, NEW api \in ApiAddresses, NEW order
  PROVE  LET todo == MissingARecords(order, api)
         IN /\ \A p \in DOMAIN todo :
                 p \in DOMAIN WantedARecords /\ todo[p] = WantedARecords[p]
            /\ \A p \in DOMAIN WantedARecords :
                 WantedARecords[p] \in held.current \/ p \in DOMAIN todo
<1>1. api = endpoint
  BY DEF ApiAddresses
<1> DEFINE P == {q \in DOMAIN WantedARecords :
                   Missing(held.current, order, WantedARecords[q])}
<1>2. MissingARecords(order, api) = [p \in P |-> WantedARecords[p]]
  BY <1>1 DEF MissingARecords, WantedARecords
<1>3. \A p \in DOMAIN WantedARecords : WantedARecords[p] \in held.current \/ p \in P
  BY DEF Missing
<1> QED BY <1>2, <1>3

\* calculateMissingARecords, after which the writing begins.
LEMMA DiffAInv ==
  ASSUME PassInv, TypeInv', CalculateMissingARecords
  PROVE  PassInv'
<1>1. CASE Fail
  BY <1>1, FailInv
<1>2. CASE ~Fail
  <2>0. /\ held \in Held /\ pc = "diffA" /\ held.api \in Addresses \union {NoIP, Other}
        /\ endpoint \in Addresses \union {NoIP, Other} /\ TypeInv
    BY DEF PassInv, TypeInv, PassTyped, InputsTyped, Held, CalculateMissingARecords
  <2>1. PICK order \in TypeOrders, api \in ApiAddresses :
          LET todo == MissingARecords(order, api)
          IN /\ ~IngressNotReady /\ ~Unresolved(api)
             /\ Read(AfterDiff(todo), [held EXCEPT !.todo = todo])
    BY <1>2 DEF CalculateMissingARecords, Refused
  <2> DEFINE todo == MissingARecords(order, api)
  <2>2. api \in Addresses \union {NoIP, Other}
    BY <2>0 DEF ApiAddresses
  <2>3. todo \in Lists
    BY <2>0, <2>1, <2>2, MissingType
  <2>4. held.api = endpoint =>
          /\ \A p \in DOMAIN todo : p \in DOMAIN WantedARecords /\ todo[p] = WantedARecords[p]
          /\ \A p \in DOMAIN WantedARecords :
               WantedARecords[p] \in held.current \/ p \in DOMAIN todo
    BY MissingAreWanted
  <2>5. Read(AfterDiff(todo), [held EXCEPT !.todo = todo])
    BY <2>1
  <2> HIDE DEF todo
  <2>6. /\ pc' = AfterDiff(todo) /\ succeeded' = (AfterDiff(todo) = "idle")
        /\ held' = [held EXCEPT !.todo = todo]
        /\ UNCHANGED <<inputs, cloud, calm>>
    BY <1>2, <2>5 DEF Read, Goto
  <2>7. /\ pc' \in {"putA", "diffCname"} /\ succeeded' = FALSE
        /\ pc' = "diffCname" => DOMAIN todo = {}
    BY <2>6 DEF AfterDiff
  <2>8. /\ held'.todo = todo /\ held'.api = held.api /\ held'.target = held.target
        /\ held'.current = held.current /\ held'.servers = held.servers
    BY <2>0, <2>3, <2>6, HeldFields
  <2>9. UNCHANGED <<group, zone, rrsets, delegation>>
    BY <2>6 DEF cloud
  <2>10. Learnt => TagsKnown'
    BY <2>0, <2>6, <2>7, <2>9, TagsStay DEF Grouping
  <2>11. Learnt => GroupKnown' /\ ZoneKnown' /\ ListKnown'
    BY <2>0, <2>7, <2>8, <2>9
       DEF Learnt, GroupKnown, ZoneKnown, ListKnown, Comparing, Recording
  <2>12. Learnt => held.current = rrsets
    BY <2>0 DEF Learnt, ListKnown, Comparing
  <2>13. WantedARecords' = WantedARecords
    BY <2>6, WantedKept
  <2>14. Learnt /\ held.api = endpoint => RecordsKnown'
    BY <2>4, <2>7, <2>8, <2>9, <2>12, <2>13 DEF RecordsKnown
  <2> QED BY <2>0, <2>6, <2>7, <2>8, <2>10, <2>11, <2>14, GoesOn DEF Learnt, ServersHeld
<1> QED BY <1>1, <1>2

\* Writing a record set leaves those of another name or another type.
LEMMA SetRecordKeeps ==
  ASSUME NEW r, SetRecord(r), NEW s \in rrsets, s.name # r.name \/ s.type # r.type
  PROVE  s \in rrsets'
BY DEF SetRecord

\* updateARecords makes one more A record right, and undoes none when no two want
\* the same name.
LEMMA UpdateAInv ==
  ASSUME PassInv, TypeInv', UpdateARecord
  PROVE  PassInv'
<1>1. CASE Fail
  BY <1>1, FailInv
<1>2. CASE ~Fail
  <2>0. held \in Held /\ pc = "putA" /\ held.todo \in Lists
    BY DEF PassInv, TypeInv, PassTyped, Held, UpdateARecord
  <2>1. PICK p \in DOMAIN held.todo :
          LET rest == [q \in DOMAIN held.todo \ {p} |-> held.todo[q]]
          IN CreateOrUpdateRecordSet(held.todo[p], AfterDiff(rest),
                                     [held EXCEPT !.todo = rest])
    BY DEF UpdateARecord
  <2> DEFINE rest == [q \in DOMAIN held.todo \ {p} |-> held.todo[q]]
             r == held.todo[p]
  <2>2. rest \in Lists
    BY <2>0, ListParts
  <2>3. CreateOrUpdateRecordSet(r, AfterDiff(rest), [held EXCEPT !.todo = rest])
    BY <2>1
  <2>4. DOMAIN rest = DOMAIN held.todo \ {p} /\ \A q \in DOMAIN rest : rest[q] = held.todo[q]
    OBVIOUS
  <2> HIDE DEF rest
  <2>5. /\ pc' = AfterDiff(rest) /\ succeeded' = (AfterDiff(rest) = "idle")
        /\ held' = [held EXCEPT !.todo = rest] /\ SetRecord(r)
        /\ UNCHANGED <<inputs, calm>>
    BY <1>2, <2>3 DEF CreateOrUpdateRecordSet, Refused, Write, Goto
  <2>6. /\ pc' \in {"putA", "diffCname"} /\ succeeded' = FALSE
        /\ pc' = "diffCname" => DOMAIN rest = {}
    BY <2>5 DEF AfterDiff
  <2>7. /\ held'.todo = rest /\ held'.api = held.api /\ held'.target = held.target
        /\ held'.current = held.current /\ held'.servers = held.servers
    BY <2>0, <2>2, <2>5, HeldFields
  <2>8. UNCHANGED <<group, zone, delegation>> /\ r \in rrsets'
    BY <2>5 DEF SetRecord
  <2>9. Learnt => TagsKnown'
    BY <2>0, <2>5, <2>6, <2>8, TagsStay DEF Grouping
  <2>10. Learnt => GroupKnown' /\ ZoneKnown'
    BY <2>0, <2>6, <2>7, <2>8 DEF Learnt, GroupKnown, ZoneKnown, Comparing, Recording
  <2>11. Learnt => p \in DOMAIN WantedARecords /\ r = WantedARecords[p] /\ r.type = "A"
    BY <2>0, <2>1, WantedTypes DEF Learnt, RecordsKnown, Recording
  <2>12. Learnt => ListKnown'
    <3> SUFFICES ASSUME Learnt, NEW s \in held.current, s.type = "CNAME"
                 PROVE  s \in rrsets'
      BY <2>6, <2>7 DEF ListKnown, Comparing, Recording
    <3>1. s \in rrsets
      BY <2>0 DEF Learnt, ListKnown, Recording
    <3> QED BY <2>5, <2>11, <3>1, SetRecordKeeps
  <2>13. Learnt /\ NoNameTwice =>
           \A q \in DOMAIN WantedARecords : WantedARecords[q] \in rrsets' \/ q \in DOMAIN rest
    <3> SUFFICES ASSUME Learnt, NoNameTwice, NEW q \in DOMAIN WantedARecords, q # p,
                        q \notin DOMAIN held.todo
                 PROVE  WantedARecords[q] \in rrsets'
      BY <2>4, <2>8, <2>11
    <3>1. WantedARecords[q] \in rrsets
      BY <2>0 DEF Learnt, RecordsKnown, Recording
    <3>2. WantedARecords[q].name # r.name
      BY <2>11 DEF NoNameTwice
    <3> QED BY <2>5, <3>1, <3>2, SetRecordKeeps
  <2>14. Learnt => \A q \in DOMAIN rest :
                     q \in DOMAIN WantedARecords /\ rest[q] = WantedARecords[q]
    BY <2>0, <2>4 DEF Learnt, RecordsKnown, Recording
  <2>15. WantedARecords' = WantedARecords /\ (NoNameTwice' <=> NoNameTwice)
    BY <2>5, WantedKept
  <2>16. Learnt => RecordsKnown'
    BY <2>6, <2>7, <2>13, <2>14, <2>15 DEF RecordsKnown
  <2> QED BY <2>0, <2>5, <2>6, <2>7, <2>9, <2>10, <2>12, <2>16, GoesOn DEF Learnt, ServersHeld
<1> QED BY <1>1, <1>2

\* A pass that ends with everything there.
LEMMA EndInv ==
  ASSUME PassInv, TypeInv', pc' = "idle", calm => AllThere', calm' = calm
  PROVE  PassInv'
BY DEF PassInv, Knowledge, Result, ServersHeld

\* calculateMissingCnameRecords ends the pass when the wildcard was listed as it is
\* wanted: no A record that was written since has touched it.
LEMMA DiffCnameInv ==
  ASSUME PassInv, TypeInv', CalculateMissingCnameRecords
  PROVE  PassInv'
<1>0. pc = "diffCname" /\ UNCHANGED <<inputs, cloud, calm>>
  BY DEF CalculateMissingCnameRecords
<1>1. UNCHANGED <<group, zone, rrsets, delegation>>
  BY <1>0 DEF cloud
<1>2. CASE pc' = "putCname" /\ succeeded' = FALSE /\ held' = held
  <2>1. Learnt => TagsKnown'
    BY <1>0, <1>1, <1>2, TagsStay DEF Grouping
  <2>2. Learnt => GroupKnown' /\ ZoneKnown' /\ ListKnown'
    BY <1>0, <1>1, <1>2 DEF Learnt, GroupKnown, ZoneKnown, ListKnown, Comparing, Recording
  <2>3. WantedARecords' = WantedARecords /\ (NoNameTwice' <=> NoNameTwice)
    BY <1>0, WantedKept
  <2>4. Learnt => RecordsKnown'
    BY <1>0, <1>1, <1>2, <2>3 DEF Learnt, RecordsKnown, Recording
  <2> QED BY <1>0, <1>2, <2>1, <2>2, <2>4, GoesOn DEF Learnt, ServersHeld
<1>3. CASE /\ pc' = "idle"
           /\ \E order \in TypeOrders :
                ~Missing(held.current, order, DesiredCname(held.target))
  <2>1. DesiredCname(held.target) \in held.current
    BY <1>3 DEF Missing
  <2>2. calm => held.target = wildcard /\ Learnt
    BY <1>0 DEF PassInv, Knowledge
  <2>3. calm => DesiredCname(wildcard) \in rrsets
    BY <1>0, <2>1, <2>2, WantedTypes DEF Learnt, ListKnown, Recording
  <2>4. calm => AllThere
    BY <1>0, <2>2, <2>3
       DEF Learnt, TagsKnown, GroupKnown, ZoneKnown, RecordsKnown, AllThere, Grouping,
           Recording
  <2>5. AllThere => AllThere'
    <3>1. /\ WantedARecords' = WantedARecords /\ (NoNameTwice' <=> NoNameTwice)
          /\ UNCHANGED <<kind, wildcard, wanted>>
      BY <1>0, WantedKept
    <3> QED BY <1>1, <3>1 DEF AllThere, DesiredCname, Covers
  <2> QED BY <1>0, <1>3, <2>4, <2>5, EndInv
<1> QED BY <1>2, <1>3 DEF CalculateMissingCnameRecords, Goto

\* The wildcard comes last, and after it everything is there.
LEMMA UpdateCnameInv ==
  ASSUME PassInv, TypeInv', UpdateCnameRecord
  PROVE  PassInv'
<1>1. CASE Fail
  BY <1>1, FailInv
<1>2. CASE ~Fail
  <2> DEFINE r == DesiredCname(held.target)
  <2>1. /\ pc = "putCname" /\ pc' = "idle" /\ SetRecord(r)
        /\ UNCHANGED <<inputs, calm>>
    BY <1>2 DEF UpdateCnameRecord, CreateOrUpdateRecordSet, Write, Refused, Goto
  <2>2. calm => held.target = wildcard /\ Learnt
    BY <2>1 DEF PassInv, Knowledge
  <2>3. r \in rrsets' /\ UNCHANGED <<group, zone, delegation>> /\ r.type = "CNAME"
    BY <2>1, WantedTypes DEF SetRecord
  <2> HIDE DEF r
  <2>4. \A s \in rrsets : s.type = "A" => s \in rrsets'
    BY <2>1, <2>3, SetRecordKeeps
  <2>5. /\ WantedARecords' = WantedARecords /\ (NoNameTwice' <=> NoNameTwice)
        /\ UNCHANGED <<kind, wildcard, wanted>>
    BY <2>1, WantedKept
  <2>6. calm /\ NoNameTwice => \A p \in DOMAIN WantedARecords : WantedARecords[p] \in rrsets'
    BY <2>1, <2>2, <2>4, WantedTypes DEF Learnt, RecordsKnown, Recording
  <2>7. calm => DesiredCname(wildcard)' \in rrsets'
    BY <2>2, <2>3, <2>5 DEF r, DesiredCname
  <2>8. calm => /\ group'.exists /\ zone' # 0 /\ delegation' = zone'
                /\ kind' # AzureCluster => Covers(group.tags)'
    BY <2>1, <2>2, <2>3, <2>5
       DEF Learnt, TagsKnown, GroupKnown, ZoneKnown, Grouping, Recording, Covers
  <2>9. calm => AllThere'
    BY <2>5, <2>6, <2>7, <2>8 DEF AllThere
  <2> QED BY <2>1, <2>9, EndInv
<1> QED BY <1>1, <1>2

\* PassInv is inductive.
LEMMA PassInvHolds == Spec => []PassInv
<1>1. Init => PassInv
  BY InitType DEF Init, PassInv, Knowledge, Result, ServersHeld
<1>2. PassInv /\ [Next]_vars => PassInv'
  <2> SUFFICES ASSUME PassInv, [Next]_vars PROVE PassInv'
    OBVIOUS
  <2>1. CASE Pass
    <3>1. TypeInv'
      BY <2>1, PassType DEF PassInv
    <3> QED
      BY <2>1, <3>1, GetGroupInv, LocateInv, PutGroupInv, ListInv, CreateZoneInv, GetZoneInv,
         ListBaseInv, CreateNSInv, DiffAInv, UpdateAInv, DiffCnameInv, UpdateCnameInv
         DEF Pass
  <2>2. CASE UNCHANGED vars
    <3>1. TypeInv'
      BY <2>2, StutterType DEF PassInv
    <3>2. /\ WantedARecords' = WantedARecords /\ (NoNameTwice' <=> NoNameTwice)
          /\ UNCHANGED <<kind, endpoint, wildcard, wanted>>
      BY <2>2, WantedKept DEF vars
    <3>3. UNCHANGED <<pc, held, succeeded, calm, group, zone, rrsets, delegation>>
      BY <2>2 DEF vars, cloud
    <3>4. Knowledge'
      BY <3>2, <3>3
         DEF PassInv, Knowledge, Learnt, TagsKnown, GroupKnown, ZoneKnown, ListKnown,
             RecordsKnown, Covers
    <3>5. Result'
      BY <3>2, <3>3 DEF PassInv, Result, AllThere, DesiredCname, Covers
    <3> QED BY <3>1, <3>3, <3>4, <3>5 DEF PassInv, ServersHeld
  <2> QED BY <2>1, <2>2, StartInv, OthersInv DEF Next
<1> QED BY <1>1, <1>2, PTL DEF Spec

\* A pass of dns.Service.Reconcile that returned no error, undisturbed, has left
\* nothing undone: the zone exists and is delegated to, every wanted record is
\* there, and the group has the tags asked for, although most of what the pass
\* decided rests on lists it had read many calls before.
THEOREM SuccessIsEarned == Spec => []SuccessIsTruthful
<1>1. PassInv => SuccessIsTruthful
  <2> SUFFICES ASSUME PassInv, succeeded, calm, NoNameTwice PROVE Converged
    BY DEF SuccessIsTruthful
  <2>1. AllThere
    BY DEF PassInv, Result
  <2>2. Wanted \subseteq rrsets
    BY <2>1 DEF AllThere, Wanted
  <2> QED BY <2>1, <2>2 DEF Converged, AllThere, Covers
<1> QED BY <1>1, PassInvHolds, PTL

------------------------------------------------------------------------------
(***************************************************************************)
(* Refinement: each call of the pass is a Create step of DNSService.       *)
(***************************************************************************)
WildcardThere == \E s \in rrsets : s.type = "CNAME"

\* The resources that exist, one by one.
ExistsMean ==
  /\ Exists \in SUBSET Resources
  /\ "rg" \in Exists <=> group.exists
  /\ "zone" \in Exists <=> zone # 0
  /\ "ns" \in Exists <=> delegation # 0
  /\ "records" \in Exists <=> WildcardThere

\* Exists has them, in every state.
LEMMA ExistsMeans == ExistsMean
<1>1. Exists \in SUBSET Resources
  BY DEF Exists
<1>2. "rg" \in Exists <=> group.exists
  BY DEF Exists, Resources
<1>3. "zone" \in Exists <=> zone # 0
  BY DEF Exists, Resources
<1>4. "ns" \in Exists <=> delegation # 0
  BY DEF Exists, Resources
<1>5. "records" \in Exists <=> WildcardThere
  BY DEF Exists, Resources, WildcardThere
<1> QED BY <1>1, <1>2, <1>3, <1>4, <1>5 DEF ExistsMean

\* And after a step.
LEMMA ExistsMeansNext == ExistsMean'
BY ExistsMeans, PTL

\* A call, lost or not, that takes nothing away, adds a resource only where, in the
\* calm, what it needs is there, and succeeds only when all is there.
LEMMA CreateStep ==
  ASSUME pc # "idle", calm' = calm,
         group.exists => group'.exists, zone # 0 => zone' # 0,
         delegation # 0 => delegation' # 0, WildcardThere => WildcardThere',
         calm /\ zone' # 0 /\ zone = 0 => group.exists,
         calm /\ delegation' # 0 /\ delegation = 0 => zone # 0,
         calm /\ WildcardThere' /\ ~WildcardThere => zone # 0,
         calm /\ pc' = "idle" /\ succeeded' =>
           group'.exists /\ zone' # 0 /\ delegation' # 0 /\ WildcardThere'
  PROVE  DNS!Next
<1>1. Phase = "creating"
  BY DEF Phase
<1>2. /\ Phase' \in {"creating", "created", "idle"}
      /\ Phase' = "created" => pc' = "idle" /\ succeeded'
  BY DEF Phase
<1>3. \E new \in SUBSET Resources :
        /\ Exists' = Exists \union new
        /\ calm => \A r \in new \ Exists : Needs[r] \subseteq Exists
  <2>1. Exists \subseteq Exists'
    BY ExistsMeans, ExistsMeansNext DEF ExistsMean, Resources
  <2>2. calm => \A r \in Exists' \ Exists : Needs[r] \subseteq Exists
    BY ExistsMeans, ExistsMeansNext DEF ExistsMean, Resources, Needs
  <2>3. Exists' \in SUBSET Resources /\ Exists' = Exists \union Exists'
    BY <2>1, ExistsMeansNext DEF ExistsMean
  <2> QED BY <2>2, <2>3
<1>4. Phase' = "created" /\ calm => Exists' = Resources
  BY <1>2, ExistsMeansNext DEF ExistsMean, Resources
<1>5. DNS!Create
  BY <1>1, <1>2, <1>3, <1>4 DEF DNS!Create
<1> QED BY <1>5 DEF DNS!Next

\* A call that changes no resource and does not end the pass with success.
LEMMA IdleCreate ==
  ASSUME pc # "idle", UNCHANGED <<cloud, calm>>, ~(pc' = "idle" /\ succeeded')
  PROVE  DNS!Next
<1>1. UNCHANGED <<group, zone, delegation, rrsets>>
  BY DEF cloud
<1>2. WildcardThere' <=> WildcardThere
  BY <1>1 DEF WildcardThere
<1> QED BY <1>1, <1>2, CreateStep

\* Writing a record set of whatever type takes no wildcard away.
LEMMA WildcardStays ==
  ASSUME NEW r, SetRecord(r), WildcardThere
  PROVE  WildcardThere'
<1>1. PICK s \in rrsets : s.type = "CNAME"
  BY DEF WildcardThere
<1>2. CASE r.type = "CNAME"
  BY <1>2 DEF SetRecord, WildcardThere
<1>3. CASE r.type # "CNAME"
  BY <1>1, <1>3, SetRecordKeeps DEF WildcardThere
<1> QED BY <1>2, <1>3

\* A call that writes a record set, where the zone exists.
LEMMA RecordStep ==
  ASSUME pc # "idle", NEW r, NEW next, NEW h, CreateOrUpdateRecordSet(r, next, h),
         calm /\ pc' = "idle" /\ succeeded' =>
           group'.exists /\ zone' # 0 /\ delegation' # 0 /\ WildcardThere'
  PROVE  DNS!Next
<1>1. CASE Refused
  <2>1. ~succeeded'
    BY <1>1 DEF Refused, Fail
  <2> QED BY <1>1, <2>1, IdleCreate DEF Refused
<1>2. CASE zone # 0 /\ SetRecord(r) /\ UNCHANGED calm
  <2>1. UNCHANGED <<group, zone, delegation>>
    BY <1>2 DEF SetRecord
  <2>2. WildcardThere => WildcardThere'
    BY <1>2, WildcardStays
  <2> QED BY <1>2, <2>1, <2>2, CreateStep
<1>3. CASE UNCHANGED <<cloud, calm>> /\ ~succeeded'
  BY <1>3, IdleCreate
<1> QED BY <1>1, <1>2, <1>3 DEF CreateOrUpdateRecordSet, Write, Fail

\* Every call of a pass is a step of the abstract service.
LEMMA PassRefines ==
  ASSUME PassInv, PassInv', Pass
  PROVE  DNS!Next
<1>0. /\ calm /\ pc # "idle" => Learnt
      /\ calm' /\ succeeded' => AllThere'
  BY DEF PassInv, Knowledge, Result
<1>1. CASE GetResourceGroup \/ GetLocation \/ ListRecordSets \/ GetZone \/ ListBaseRecordSets
  <2>1. pc # "idle" /\ UNCHANGED <<cloud, calm>>
    BY <1>1 DEF GetResourceGroup, GetLocation, ListRecordSets, GetZone, ListBaseRecordSets,
                Read, Refused
  <2>2. ~(pc' = "idle" /\ succeeded')
    BY <1>1 DEF GetResourceGroup, GetLocation, ListRecordSets, GetZone, ListBaseRecordSets,
                Read, Refused, Goto, Fail
  <2> QED BY <2>1, <2>2, IdleCreate
<1>2. CASE CreateResourceGroup \/ UpdateResourceGroupTags
  <2>1. /\ pc # "idle" /\ UNCHANGED calm /\ ~(pc' = "idle" /\ succeeded')
        /\ SetGroup(held.tags) \/ UNCHANGED cloud
    BY <1>2 DEF CreateResourceGroup, UpdateResourceGroupTags, Write, Goto, Fail
  <2>2. /\ group.exists => group'.exists
        /\ UNCHANGED <<zone, delegation, rrsets>>
    BY <2>1 DEF SetGroup, cloud
  <2>3. WildcardThere' <=> WildcardThere
    BY <2>2 DEF WildcardThere
  <2> QED BY <2>1, <2>2, <2>3, CreateStep
<1>3. CASE CreateClusterDNSZone
  <2>1. /\ pc # "idle" /\ UNCHANGED calm /\ ~(pc' = "idle" /\ succeeded')
        /\ (group.exists /\ SetZone) \/ UNCHANGED cloud
    BY <1>3 DEF CreateClusterDNSZone, Write, Refused, Goto, Fail
  <2>2. /\ zone # 0 => zone' # 0
        /\ zone' # zone => group.exists
        /\ UNCHANGED <<group, delegation, rrsets>>
    BY <2>1 DEF SetZone, cloud
  <2>3. WildcardThere' <=> WildcardThere
    BY <2>2 DEF WildcardThere
  <2> QED BY <2>1, <2>2, <2>3, CreateStep
<1>4. CASE CreateClusterNSRecord
  <2>1. /\ pc = "ns" /\ UNCHANGED calm /\ ~(pc' = "idle" /\ succeeded')
        /\ SetDelegation(held.servers) \/ UNCHANGED cloud
    BY <1>4 DEF CreateClusterNSRecord, Write, Goto, Fail
  <2>2. delegation' \in {delegation, held.servers} /\ UNCHANGED <<group, zone, rrsets>>
    BY <2>1 DEF SetDelegation, cloud
  <2>3. calm => zone # 0 /\ held.servers = zone
    BY <1>0, <2>1 DEF Learnt, ZoneKnown, Comparing
  <2>4. WildcardThere' <=> WildcardThere
    BY <2>2 DEF WildcardThere
  <2>5. held.servers # 0
    BY <2>1 DEF PassInv, ServersHeld
  <2>6. delegation # 0 => delegation' # 0
    BY <2>2, <2>5
  <2>7. calm /\ delegation' # 0 /\ delegation = 0 => zone # 0
    BY <2>3
  <2> QED BY <2>1, <2>2, <2>4, <2>6, <2>7, CreateStep
<1>5. ASSUME calm, succeeded'
      PROVE  group'.exists /\ zone' # 0 /\ delegation' # 0 /\ WildcardThere'
  <2>1. calm' = calm
    BY DEF Pass, GetResourceGroup, GetLocation, CreateResourceGroup, UpdateResourceGroupTags,
           ListRecordSets, CreateClusterDNSZone, GetZone, ListBaseRecordSets,
           CreateClusterNSRecord, CalculateMissingARecords, UpdateARecord,
           CalculateMissingCnameRecords, UpdateCnameRecord, CreateOrUpdateRecordSet, Read,
           Write, Refused
  <2>2. AllThere'
    BY <1>0, <1>5, <2>1
  <2>3. DesiredCname(wildcard)' \in rrsets' /\ DesiredCname(wildcard)'.type = "CNAME"
    BY <2>2 DEF AllThere, DesiredCname, Record
  <2> QED BY <2>2, <2>3 DEF AllThere, WildcardThere
<1>6. CASE CalculateMissingARecords
  <2>1. pc # "idle" /\ UNCHANGED <<cloud, calm>> /\ ~(pc' = "idle" /\ succeeded')
    BY <1>6 DEF CalculateMissingARecords, AfterDiff, Read, Refused, Goto, Fail
  <2> QED BY <2>1, IdleCreate
<1>7. CASE UpdateARecord
  <2>1. pc # "idle"
    BY <1>7 DEF UpdateARecord
  <2>2. PICK r, next, h : CreateOrUpdateRecordSet(r, next, h)
    BY <1>7 DEF UpdateARecord
  <2> QED BY <1>5, <2>1, <2>2, RecordStep
<1>8. CASE CalculateMissingCnameRecords
  <2>1. pc # "idle" /\ UNCHANGED <<cloud, calm>>
    BY <1>8 DEF CalculateMissingCnameRecords
  <2>2. UNCHANGED <<group, zone, delegation, rrsets>>
    BY <2>1 DEF cloud
  <2>3. WildcardThere' <=> WildcardThere
    BY <2>2 DEF WildcardThere
  <2> QED BY <1>5, <2>1, <2>2, <2>3, CreateStep
<1>9. CASE UpdateCnameRecord
  <2>1. /\ pc # "idle"
        /\ CreateOrUpdateRecordSet(DesiredCname(held.target), "idle", NothingHeld)
    BY <1>9 DEF UpdateCnameRecord
  <2> QED BY <1>5, <2>1, RecordStep
<1> QED BY <1>1, <1>2, <1>3, <1>4, <1>6, <1>7, <1>8, <1>9 DEF Pass

\* dns.Service.Reconcile implements the abstract service, call by call: group, then
\* zone, then delegation and records, none of them ever taken away, and success
\* only when all are there; whatever fails, is lost, or is changed by others
\* between two calls.
THEOREM ServiceIsImplemented == Spec => ImplementsDNSService
<1>1. Init => DNS!Init
  <2>1. Exists \in SUBSET Resources
    BY ExistsMeans DEF ExistsMean
  <2> QED BY <2>1 DEF Init, DNS!Init, Phase
<1>2. PassInv /\ PassInv' /\ [Next]_vars => [DNS!Next]_(DNS!vars)
  <2> SUFFICES ASSUME PassInv, PassInv', [Next]_vars PROVE [DNS!Next]_(DNS!vars)
    OBVIOUS
  <2>1. CASE Start
    <3>1. Phase \in {"idle", "created"} /\ Phase' = "creating"
      BY <2>1 DEF Start, Goto, Phase
    <3>2. calm' = TRUE /\ UNCHANGED Exists
      BY <2>1 DEF Start, cloud, Exists
    <3> QED BY <3>1, <3>2 DEF DNS!Next, DNS!Begin, DNS!Resting
  <2>2. CASE Pass
    BY <2>2, PassRefines
  <2>3. CASE Others
    <3>1. calm' = FALSE /\ UNCHANGED <<pc, succeeded>>
      BY <2>3, EditKeeps DEF PassInv
    <3>2. Exists' \in SUBSET Resources /\ UNCHANGED Phase
      BY <3>1, ExistsMeansNext DEF ExistsMean, Phase
    <3> QED BY <3>1, <3>2 DEF DNS!Next, DNS!Disturb
  <2>4. CASE UNCHANGED vars
    BY <2>4 DEF vars, cloud, DNS!vars, Exists, Phase
  <2> QED BY <2>1, <2>2, <2>3, <2>4 DEF Next
<1> QED BY <1>1, <1>2, PassInvHolds, PTL DEF Spec, ImplementsDNSService, DNS!Spec
==============================================================================
