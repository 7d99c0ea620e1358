--------------------------- MODULE PrivateDNSProofs ---------------------------
(***************************************************************************)
(* Theorems about PrivateDNS, for every set of addresses, link names and   *)
(* networks, every choice of edits and every bound on edits and faults.    *)
(***************************************************************************)
EXTENDS PrivateDNS, TLAPS

------------------------------------------------------------------------------
(***************************************************************************)
(* Types.                                                                  *)
(***************************************************************************)
Held == [wish: Wish \union {Empty}, current: Zone, drop: LinkNames, todo: SUBSET Names]

\* What a pass holds before and after it is of the type of what a pass holds.
LEMMA NothingHeldType == NothingHeld \in Held /\ Empty \in Zone
BY PrivateAssumption DEF NothingHeld, Held, Empty, Zone

\* A zone has the A records and the wildcard.
LEMMA NamesAreFields ==
  ASSUME NEW r \in Zone
  PROVE  DOMAIN r = Names \union {"cname"}
BY DEF Zone, Names

\* Every wish is a zone, so that a record can be set to what is wished for.
LEMMA WishType ==
  ASSUME NEW w \in Wish \union {Empty}
  PROVE  w \in Zone
BY DEF Wish, Zone, Empty

\* Setting a record to what is wished for, or to what others write, keeps the
\* type of the zone.
LEMMA RecordType ==
  ASSUME NEW r \in Zone, NEW name \in Names \union {"cname"}, NEW w \in Zone
  PROVE  /\ [r EXCEPT ![name] = w[name]] \in Zone
         /\ [r EXCEPT ![name] = None] \in Zone
         /\ [r EXCEPT ![name] = Other] \in Zone
<1>1. CASE name = "apiserver"
  BY <1>1 DEF Zone
<1>2. CASE name = "ingress"
  BY <1>2 DEF Zone
<1>3. CASE name = "cname"
  BY <1>3 DEF Zone
<1> QED BY <1>1, <1>2, <1>3 DEF Names

\* Whichever way a call ends, what it leaves of the pass is well typed.
LEMMA OutcomeType ==
  ASSUME TypeOK, NEW next \in PC, NEW h \in Held,
         \/ Goto(next) /\ held' = h /\ UNCHANGED faults
         \/ Fault /\ Fail
  PROVE  pc' \in PC /\ succeeded' \in BOOLEAN /\ held' \in Held /\ faults' \in 0..MaxFaults
<1>1. pc' \in PC
  BY DEF Goto, Fail, PC
<1>2. succeeded' \in BOOLEAN
  BY DEF Goto, Fail
<1>3. held' \in Held
  BY NothingHeldType DEF Fail
<1>4. faults' \in 0..MaxFaults
  BY PrivateAssumption DEF TypeOK, Fault
<1> QED BY <1>1, <1>2, <1>3, <1>4

\* A call that reads keeps the types.
LEMMA ReadType ==
  ASSUME TypeOK, NEW next \in PC, NEW h \in Held, Read(next, h)
  PROVE  TypeOK'
<1>1. pc' \in PC /\ succeeded' \in BOOLEAN /\ held' \in Held /\ faults' \in 0..MaxFaults
  BY OutcomeType DEF Read
<1> QED BY <1>1 DEF TypeOK, Read, inputs, cloud, Held

\* So does a pass that stops.
LEMMA RefusedType ==
  ASSUME TypeOK, Refused
  PROVE  TypeOK'
BY NothingHeldType DEF TypeOK, Refused, Fail, PC, inputs, cloud, Held

\* And a call that sets the links.
LEMMA LinksType ==
  ASSUME TypeOK, NEW next \in PC, NEW h \in Held, NEW new \in SUBSET Link,
         Write(SetLinks(new), next, h)
  PROVE  TypeOK'
<1>1. pc' \in PC /\ succeeded' \in BOOLEAN /\ held' \in Held /\ faults' \in 0..MaxFaults
  BY OutcomeType DEF Write
<1> QED BY <1>1 DEF TypeOK, Write, SetLinks, inputs, cloud, Held

\* And one that sets a record to what is wished for.
LEMMA RecordSetType ==
  ASSUME TypeOK, NEW next \in PC, NEW h \in Held, NEW name \in Names \union {"cname"},
         CreateOrUpdateRecordSet(name, held.wish[name], next, h)
  PROVE  TypeOK'
<1>1. held.wish \in Zone
  BY WishType DEF TypeOK
<1>2. [records EXCEPT ![name] = held.wish[name]] \in Zone
  BY <1>1, RecordType DEF TypeOK
<1>3. CASE zone
  <2>1. pc' \in PC /\ succeeded' \in BOOLEAN /\ held' \in Held /\ faults' \in 0..MaxFaults
    BY <1>3, OutcomeType DEF CreateOrUpdateRecordSet, Write
  <2> QED
    BY <1>2, <1>3, <2>1
       DEF TypeOK, CreateOrUpdateRecordSet, Write, SetRecord, inputs, cloud, Held
<1> QED BY <1>3, RefusedType DEF CreateOrUpdateRecordSet

\* Changing one field of what a pass holds keeps its type.
LEMMA HeldType ==
  ASSUME NEW h \in Held
  PROVE  /\ \A z \in Zone : [h EXCEPT !.current = z] \in Held
         /\ \A l \in LinkNames : [h EXCEPT !.drop = l] \in Held
         /\ \A t \in SUBSET Names : [h EXCEPT !.todo = t] \in Held
         /\ \A w \in Wish : [h EXCEPT !.wish = w] \in Held
BY DEF Held

\* Every call of a pass keeps the types.
LEMMA PassType ==
  ASSUME TypeOK, Pass
  PROVE  TypeOK'
<1>0. held \in Held /\ NothingHeld \in Held
  BY NothingHeldType DEF TypeOK, Held
<1>1. CASE ListPrivateRecordSets
  <2>1. Listed(records) \in Zone
    BY DEF Listed, TypeOK, Zone
  <2>2. [held EXCEPT !.current = Listed(records)] \in Held
    BY <1>0, <2>1, HeldType
  <2> QED BY <1>1, <2>2, ReadType DEF ListPrivateRecordSets, PC
<1>2. CASE CreateOrUpdatePrivateZone
  <2>1. "links" \in PC
    BY DEF PC
  <2>2. pc' \in PC /\ succeeded' \in BOOLEAN /\ held' \in Held /\ faults' \in 0..MaxFaults
    BY <1>0, <1>2, <2>1, OutcomeType DEF CreateOrUpdatePrivateZone, Write
  <2> QED
    BY <1>2, <2>2
       DEF CreateOrUpdatePrivateZone, Write, SetZone, TypeOK, inputs, cloud, Held
<1>3. CASE ListVirtualNetworkLink
  <2>1. \A l \in links : [held EXCEPT !.drop = l.name] \in Held
    BY <1>0, HeldType DEF TypeOK, Link
  <2>2. {"getZone", "dropLink", "createLink"} \subseteq PC
    BY DEF PC
  <2> QED BY <1>0, <1>3, <2>1, <2>2, ReadType, RefusedType DEF ListVirtualNetworkLink
<1>4. CASE DropLink
  <2>1. {l \in links : l.name # held.drop} \in SUBSET Link /\ "createLink" \in PC
    BY DEF TypeOK, PC
  <2> QED BY <1>0, <1>4, <2>1, LinksType, RefusedType DEF DropLink, DeleteVirtualNetworkLink
<1>5. CASE CreateLink
  <2>1. links \union {[name |-> OwnLink, net |-> Ours]} \in SUBSET Link /\ "getZone" \in PC
    BY PrivateAssumption DEF TypeOK, PC, Link
  <2> QED BY <1>0, <1>5, <2>1, LinksType, RefusedType DEF CreateLink
<1>6. CASE GetPrivateZone
  <2> DEFINE todo == {name \in Names : Missing(name)}
             next == AfterA(todo)
             h == IF next = "idle" THEN NothingHeld ELSE [held EXCEPT !.todo = todo]
  <2>1. next \in PC
    BY DEF AfterA, PC
  <2>2. h \in Held
    BY <1>0, HeldType
  <2>3. Refused \/ Read(next, h)
    BY <1>6 DEF GetPrivateZone
  <2> HIDE DEF next, h
  <2> QED BY <2>1, <2>2, <2>3, ReadType, RefusedType
<1>7. CASE UpdateARecord
  <2> DEFINE name == First(held.todo)
             next == AfterA(held.todo \ {name})
             h == IF next = "idle" THEN NothingHeld
                  ELSE [held EXCEPT !.todo = held.todo \ {name}]
  <2>1. next \in PC /\ name \in Names
    BY DEF AfterA, PC, First, Names
  <2>2. h \in Held
    BY <1>0, HeldType DEF TypeOK
  <2>3. CreateOrUpdateRecordSet(name, held.wish[name], next, h)
    BY <1>7 DEF UpdateARecord
  <2> HIDE DEF name, next, h
  <2> QED BY <2>1, <2>2, <2>3, RecordSetType
<1>8. CASE UpdateCnameRecord
  <2>1. CreateOrUpdateRecordSet("cname", held.wish["cname"], "idle", NothingHeld)
    BY <1>8 DEF UpdateCnameRecord
  <2>2. "idle" \in PC
    BY DEF PC
  <2> QED BY <1>0, <2>1, <2>2, RecordSetType
<1>9. CASE DeleteLink
  <2>1. {l \in links : l.name # OwnLink} \in SUBSET Link /\ "delZone" \in PC
    BY DEF TypeOK, PC
  <2> QED BY <1>0, <1>9, <2>1, LinksType, RefusedType DEF DeleteLink, DeleteVirtualNetworkLink
<1>10. CASE DeletePrivateZone
  <2>1. CASE Refused
    BY <2>1, RefusedType
  <2>2. CASE ~Refused
    <3>1. "idle" \in PC
      BY DEF PC
    <3>2. pc' \in PC /\ succeeded' \in BOOLEAN /\ held' \in Held /\ faults' \in 0..MaxFaults
      BY <1>0, <1>10, <2>2, <3>1, OutcomeType DEF DeletePrivateZone
    <3> QED
      BY <1>10, <2>2, <3>2, NothingHeldType DEF DeletePrivateZone, TypeOK, inputs, Held
  <2> QED BY <2>1, <2>2
<1> QED BY <1>1, <1>2, <1>3, <1>4, <1>5, <1>6, <1>7, <1>8, <1>9, <1>10 DEF Pass

\* So does every change by others.
LEMMA OthersType ==
  ASSUME TypeOK, Others
  PROVE  TypeOK'
<1>0. PICK what : Edit(what)
  BY DEF Others, DeleteZone, AddLink, DeleteOtherLink, EditRecord, EditAnnotations,
         DeleteCluster
<1>1. /\ edits' \in 0..MaxEdits /\ calm' \in BOOLEAN
      /\ UNCHANGED <<cleaned, pc, held, succeeded, faults>>
  <2>1. edits' \in 0..MaxEdits
    BY <1>0, PrivateAssumption DEF Edit, TypeOK
  <2> QED BY <1>0, <2>1 DEF Edit
<1>2. CASE DeleteZone
  BY <1>1, <1>2, NothingHeldType DEF DeleteZone, TypeOK, inputs
<1>3. CASE AddLink
  BY <1>1, <1>3 DEF AddLink, TypeOK, inputs
<1>4. CASE DeleteOtherLink
  BY <1>1, <1>4 DEF DeleteOtherLink, TypeOK, inputs
<1>5. CASE EditRecord
  <2>0. records \in Zone
    BY DEF TypeOK
  <2>1. PICK name \in DOMAIN records, data \in {None, Other} :
          records' = [records EXCEPT ![name] = data]
    BY <1>5 DEF EditRecord
  <2>2. name \in Names \union {"cname"}
    BY <2>0, NamesAreFields
  <2>3. records' \in Zone
    BY <2>0, <2>1, <2>2, RecordType
  <2> QED BY <1>1, <1>5, <2>3 DEF EditRecord, TypeOK, inputs
<1>6. CASE EditAnnotations
  BY <1>1, <1>6 DEF EditAnnotations, TypeOK, cloud
<1>7. CASE DeleteCluster
  BY <1>1, <1>7 DEF DeleteCluster, TypeOK, cloud
<1> QED BY <1>2, <1>3, <1>4, <1>5, <1>6, <1>7 DEF Others

\* So does the start of a pass.
LEMMA StartType ==
  ASSUME TypeOK, Start
  PROVE  TypeOK'
<1>1. [NothingHeld EXCEPT !.wish = wanted] \in Held
  BY NothingHeldType, HeldType DEF TypeOK
<1> QED BY <1>1 DEF Start, TypeOK, Goto, PC, inputs, cloud, Held

\* A cluster before its first pass is well typed.
LEMMA InitType == Init => TypeOK
<1>1. Init => faults \in 0..MaxFaults /\ edits \in 0..MaxEdits
  BY PrivateAssumption DEF Init
<1> QED BY <1>1, NothingHeldType DEF Init, TypeOK, Held, PC

\* Every variable of privatedns.Service and of its zone keeps its type: no record
\* is ever written with data of another record type, whatever fails or changes
\* between two calls.
THEOREM TypeCorrect == Spec => []TypeOK
<1>1. TypeOK /\ [Next]_vars => TypeOK'
  <2> SUFFICES ASSUME TypeOK, [Next]_vars PROVE TypeOK'
    OBVIOUS
  <2>1. CASE UNCHANGED vars
    BY <2>1 DEF TypeOK, vars, inputs, cloud
  <2> QED BY <2>1, StartType, PassType, OthersType DEF Next
<1> QED BY <1>1, InitType, PTL DEF Spec

------------------------------------------------------------------------------
(***************************************************************************)
(* What a pass knows.                                                      *)
(***************************************************************************)
Creating == {"list", "createZone", "links", "dropLink", "createLink", "getZone",
             "putA", "putCname"}

OwnLinkThere == \E l \in links : l.name = OwnLink

\* Whatever others do: a pass under way has not succeeded yet, the clean-up is not
\* over, the wish it holds is one, the wildcard is not among the records it has
\* listed, and the link it drops is not the operator's.
PassShape ==
  /\ succeeded \/ cleaned => pc = "idle"
  /\ pc \in Creating => held.wish \in Wish
  /\ held.current.cname = None
  /\ pc = "dropLink" => held.drop # OwnLink

\* The pass has seen that the zone exists, or made it.
ZoneKnown ==
  pc \in {"links", "dropLink", "createLink", "getZone", "putA", "putCname"} => zone

\* The A records are as the pass listed them, until it writes one.
ListedKnown ==
  pc \in {"createZone", "links", "dropLink", "createLink", "getZone"} =>
    \A name \in Names : held.current[name] = records[name]

LinkKnown ==
  pc \in {"getZone", "putA", "putCname"} => OwnLinkThere

\* The A records are right, or still to be written.
RecordsKnown ==
  /\ pc \in {"putA", "putCname"} =>
       \A name \in Names :
         wanted[name] # None => records[name] = wanted[name] \/ name \in held.todo
  /\ pc = "putCname" => held.todo = {}

\* What an undisturbed pass has learnt is still so.
Knowledge ==
  calm /\ pc \in Creating =>
    held.wish = wanted /\ ZoneKnown /\ ListedKnown /\ LinkKnown /\ RecordsKnown

AllThere ==
  /\ zone /\ OwnLinkThere
  /\ \A name \in Names : wanted[name] # None => records[name] = wanted[name]
  /\ records.cname = wanted.cname

\* What a pass that has succeeded has left behind.
Result ==
  calm /\ succeeded => IF cleaned THEN ~zone /\ links = {} ELSE AllThere

PassInv == TypeOK /\ PassShape /\ Knowledge /\ Result
\* A pass that fails claims nothing.
LEMMA FailInv ==
  ASSUME TypeOK', Fail
  PROVE  PassInv'
<1>1. pc' = "idle" /\ held' = NothingHeld /\ succeeded' = FALSE
  BY DEF Fail
<1>2. PassShape'
  BY <1>1 DEF PassShape, Creating, NothingHeld, Empty
<1>3. Knowledge' /\ Result'
  BY <1>1 DEF Knowledge, Result, Creating
<1> QED BY <1>2, <1>3 DEF PassInv

\* Others end the calm, and leave the pass itself alone.
LEMMA OthersInv ==
  ASSUME PassInv, Others
  PROVE  PassInv'
<1>1. TypeOK'
  BY OthersType DEF PassInv
<1>2. calm' = FALSE /\ UNCHANGED <<cleaned, pc, held, succeeded>>
  BY DEF Others, DeleteZone, AddLink, DeleteOtherLink, EditRecord, EditAnnotations,
         DeleteCluster, Edit
<1>3. PassShape'
  BY <1>2 DEF PassInv, PassShape
<1>4. Knowledge' /\ Result'
  BY <1>2 DEF Knowledge, Result
<1> QED BY <1>1, <1>3, <1>4 DEF PassInv

\* A pass starts with a wish and without knowledge.
LEMMA StartInv ==
  ASSUME PassInv, TypeOK', Start
  PROVE  PassInv'
<1>1. /\ pc' \in {"list", "delLink"} /\ succeeded' = FALSE /\ cleaned' = FALSE
      /\ held' = [NothingHeld EXCEPT !.wish = wanted] /\ wanted' = wanted
  BY DEF Start, Goto, inputs, PassInv, TypeOK
<1>2. held'.wish = wanted /\ held'.current.cname = None /\ wanted \in Wish
  BY <1>1 DEF NothingHeld, Empty, PassInv, TypeOK
<1>3. PassShape'
  BY <1>1, <1>2 DEF PassShape, Creating
<1>4. Knowledge'
  BY <1>1, <1>2 DEF Knowledge, ZoneKnown, ListedKnown, LinkKnown, RecordsKnown
<1>5. Result'
  BY <1>1 DEF Result
<1> QED BY <1>3, <1>4, <1>5 DEF PassInv

\* A call of Reconcile that goes on to another one and keeps the wish.
LEMMA GoesOn ==
  ASSUME PassInv, TypeOK', pc \in Creating, pc' \in Creating, succeeded' = FALSE,
         cleaned' = cleaned, held'.wish = held.wish, held'.current.cname = None,
         pc' = "dropLink" => held'.drop # OwnLink,
         calm /\ held.wish = wanted =>
           ZoneKnown' /\ ListedKnown' /\ LinkKnown' /\ RecordsKnown',
         wanted' = wanted, calm' = calm
  PROVE  PassInv'
<1>1. cleaned = FALSE
  BY DEF PassInv, PassShape, Creating, TypeOK
<1>2. PassShape'
  BY <1>1 DEF PassInv, PassShape
<1>3. Knowledge'
  BY DEF PassInv, Knowledge
<1>4. Result'
  BY DEF Result
<1> QED BY <1>2, <1>3, <1>4 DEF PassInv

\* ListPrivateRecordSets tells whether the zone exists, and the A records.
LEMMA ListInv ==
  ASSUME PassInv, TypeOK', ListPrivateRecordSets
  PROVE  PassInv'
<1>1. CASE Fail
  BY <1>1, FailInv
<1>2. CASE ~Fail
  <2>1. /\ pc = "list" /\ pc' = IF zone THEN "links" ELSE "createZone"
        /\ succeeded' = FALSE
        /\ held' = [held EXCEPT !.current = Listed(records)]
        /\ UNCHANGED <<wanted, zone, links, records, cleaned, calm>>
    BY <1>2 DEF ListPrivateRecordSets, Read, Goto, inputs, cloud
  <2>2. held \in Held /\ records \in Zone
    BY DEF PassInv, TypeOK, Held
  <2>3. held'.wish = held.wish /\ held'.current = Listed(records)
    BY <2>1, <2>2 DEF Held
  <2>4. Listed(records).cname = None /\ \A n \in Names : Listed(records)[n] = records[n]
    BY <2>2 DEF Listed, Zone, Names
  <2>5. ZoneKnown' /\ ListedKnown' /\ LinkKnown' /\ RecordsKnown'
    BY <2>1, <2>3, <2>4 DEF ZoneKnown, ListedKnown, LinkKnown, RecordsKnown
  <2> QED BY <2>1, <2>3, <2>4, <2>5, GoesOn DEF Creating
<1> QED BY <1>1, <1>2

\* CreateOrUpdatePrivateZone leaves the zone there, and its records alone.
LEMMA CreateZoneInv ==
  ASSUME PassInv, TypeOK', CreateOrUpdatePrivateZone
  PROVE  PassInv'
<1>1. CASE Fail
  BY <1>1, FailInv
<1>2. CASE ~Fail
  <2>1. /\ pc = "createZone" /\ pc' = "links" /\ zone' = TRUE /\ succeeded' = FALSE
        /\ UNCHANGED <<held, wanted, links, records, cleaned, calm>>
    BY <1>2 DEF CreateOrUpdatePrivateZone, Write, SetZone, Goto, inputs
  <2>2. calm => ListedKnown
    BY <2>1 DEF PassInv, Knowledge, Creating
  <2>3. calm => ZoneKnown' /\ ListedKnown' /\ LinkKnown' /\ RecordsKnown'
    BY <2>1, <2>2 DEF ZoneKnown, ListedKnown, LinkKnown, RecordsKnown
  <2> QED BY <2>1, <2>3, GoesOn DEF Creating, PassInv, PassShape
<1> QED BY <1>1, <1>2

\* ListVirtualNetworkLink goes on to the records only when the operator's link is
\* there, and never picks that link to be dropped.
LEMMA ListLinkInv ==
  ASSUME PassInv, TypeOK', ListVirtualNetworkLink
  PROVE  PassInv'
<1>1. CASE Fail
  BY <1>1, FailInv
<1>2. CASE ~Fail
  <2>0. held \in Held
    BY DEF PassInv, TypeOK, Held
  <2>1. /\ pc = "links" /\ zone /\ succeeded' = FALSE
        /\ UNCHANGED <<wanted, zone, links, records, cleaned, calm>>
        /\ \/ pc' = "getZone" /\ held' = held /\ OwnLinkThere
           \/ pc' = "createLink" /\ held' = held
           \/ pc' = "dropLink" /\ \E l \in links : l.name # OwnLink
                                  /\ held' = [held EXCEPT !.drop = l.name]
    BY <1>2 DEF ListVirtualNetworkLink, OwnLinkThere, Read, Refused, Goto, inputs, cloud
  <2>2. /\ held'.wish = held.wish /\ held'.current = held.current
        /\ pc' = "dropLink" => held'.drop # OwnLink
    BY <2>0, <2>1 DEF Held
  <2>3. calm => ListedKnown
    BY <2>1 DEF PassInv, Knowledge, Creating
  <2>4. calm => ZoneKnown' /\ ListedKnown' /\ LinkKnown' /\ RecordsKnown'
    BY <2>1, <2>2, <2>3
       DEF ZoneKnown, ListedKnown, LinkKnown, RecordsKnown, OwnLinkThere
  <2> QED BY <2>1, <2>2, <2>4, GoesOn DEF Creating, PassInv, PassShape
<1> QED BY <1>1, <1>2

\* Dropping the other link touches no record.
LEMMA DropLinkInv ==
  ASSUME PassInv, TypeOK', DropLink
  PROVE  PassInv'
<1>1. CASE Fail
  BY <1>1, FailInv
<1>2. CASE ~Fail
  <2>1. /\ pc = "dropLink" /\ pc' = "createLink" /\ succeeded' = FALSE
        /\ UNCHANGED <<held, wanted, zone, records, cleaned, calm>>
    BY <1>2 DEF DropLink, DeleteVirtualNetworkLink, Write, Refused, SetLinks, Goto, inputs
  <2>2. calm => ListedKnown /\ ZoneKnown
    BY <2>1 DEF PassInv, Knowledge, Creating
  <2>3. calm => ZoneKnown' /\ ListedKnown' /\ LinkKnown' /\ RecordsKnown'
    BY <2>1, <2>2 DEF ZoneKnown, ListedKnown, LinkKnown, RecordsKnown
  <2> QED BY <2>1, <2>3, GoesOn DEF Creating, PassInv, PassShape
<1> QED BY <1>1, <1>2

\* CreateOrUpdateVirtualNetworkLink leaves the operator's link there.
LEMMA CreateLinkInv ==
  ASSUME PassInv, TypeOK', CreateLink
  PROVE  PassInv'
<1>1. CASE Fail
  BY <1>1, FailInv
<1>2. CASE ~Fail
  <2>1. /\ pc = "createLink" /\ pc' = "getZone" /\ succeeded' = FALSE
        /\ links' = links \union {[name |-> OwnLink, net |-> Ours]}
        /\ UNCHANGED <<held, wanted, zone, records, cleaned, calm>>
    BY <1>2 DEF CreateLink, Write, Refused, SetLinks, Goto, inputs
  <2>2. calm => ListedKnown /\ ZoneKnown
    BY <2>1 DEF PassInv, Knowledge, Creating
  <2>3. OwnLinkThere'
    <3> DEFINE own == [name |-> OwnLink, net |-> Ours]
    <3>1. own \in links' /\ own.name = OwnLink
      BY <2>1
    <3> QED BY <3>1 DEF OwnLinkThere
  <2>4. calm => ZoneKnown' /\ ListedKnown' /\ LinkKnown' /\ RecordsKnown'
    BY <2>1, <2>2, <2>3 DEF ZoneKnown, ListedKnown, LinkKnown, RecordsKnown
  <2> QED BY <2>1, <2>4, GoesOn DEF Creating, PassInv, PassShape
<1> QED BY <1>1, <1>2

\* The wildcard is never among the listed records, so a pass always goes on to it.
LEMMA AfterAGoesOn ==
  ASSUME PassInv, pc \in Creating, NEW todo
  PROVE  AfterA(todo) = IF todo # {} THEN "putA" ELSE "putCname"
<1>1. held.current.cname = None /\ held.wish \in Wish
  BY DEF PassInv, PassShape
<1>2. held.wish.cname # None
  BY <1>1 DEF Wish, Targets, None
<1> QED BY <1>1, <1>2 DEF AfterA

\* calculateMissingARecords finds every A record that is not as wanted.
LEMMA GetZoneInv ==
  ASSUME PassInv, TypeOK', GetPrivateZone
  PROVE  PassInv'
<1>1. CASE Fail
  BY <1>1, FailInv
<1>2. CASE ~Fail
  <2> DEFINE todo == {name \in Names : Missing(name)}
  <2>0. held \in Held /\ pc = "getZone"
    BY DEF PassInv, TypeOK, Held, GetPrivateZone
  <2>1. AfterA(todo) = IF todo # {} THEN "putA" ELSE "putCname"
    BY <2>0, AfterAGoesOn DEF Creating
  <2>2. /\ pc' = AfterA(todo) /\ succeeded' = FALSE
        /\ held' = [held EXCEPT !.todo = todo]
        /\ UNCHANGED <<wanted, zone, links, records, cleaned, calm>>
    BY <1>2, <2>1 DEF GetPrivateZone, Read, Refused, Goto, inputs, cloud
  <2>3. held'.wish = held.wish /\ held'.current = held.current /\ held'.todo = todo
    BY <2>0, <2>2 DEF Held
  <2>4. calm => ListedKnown /\ ZoneKnown /\ LinkKnown /\ held.wish = wanted
    BY <2>0 DEF PassInv, Knowledge, Creating
  <2>5. calm => \A name \in Names :
                  wanted[name] # None => records[name] = wanted[name] \/ name \in todo
    BY <2>0, <2>4 DEF ListedKnown, Missing
  <2>6. calm => RecordsKnown'
    <3> HIDE DEF todo
    <3> QED BY <2>1, <2>2, <2>3, <2>5 DEF RecordsKnown
  <2>7. calm => ZoneKnown' /\ ListedKnown' /\ LinkKnown'
    BY <2>0, <2>1, <2>2, <2>4 DEF ZoneKnown, ListedKnown, LinkKnown, OwnLinkThere
  <2>8. pc' \in {"putA", "putCname"}
    BY <2>1, <2>2
  <2> QED BY <2>0, <2>2, <2>3, <2>6, <2>7, <2>8, GoesOn DEF Creating, PassInv, PassShape
<1> QED BY <1>1, <1>2
\* Setting one record leaves the others.
LEMMA SetOne ==
  ASSUME NEW r \in Zone, NEW name \in Names \union {"cname"}, NEW data,
         NEW n \in Names \union {"cname"}
  PROVE  [r EXCEPT ![name] = data][n] = IF n = name THEN data ELSE r[n]
<1>1. n \in DOMAIN r
  BY NamesAreFields
<1> QED BY <1>1

\* CreateOrUpdateRecordSet makes one more A record right.
LEMMA UpdateAInv ==
  ASSUME PassInv, TypeOK', UpdateARecord
  PROVE  PassInv'
<1>1. CASE Fail
  BY <1>1, FailInv
<1>2. CASE ~Fail
  <2> DEFINE name == First(held.todo)
             todo == held.todo \ {name}
  <2>0. held \in Held /\ pc = "putA" /\ records \in Zone /\ name \in Names
    BY DEF PassInv, TypeOK, Held, UpdateARecord, First, Names
  <2>1. AfterA(todo) = IF todo # {} THEN "putA" ELSE "putCname"
    BY <2>0, AfterAGoesOn DEF Creating
  <2>2. /\ pc' = AfterA(todo) /\ succeeded' = FALSE
        /\ held' = [held EXCEPT !.todo = todo]
        /\ records' = [records EXCEPT ![name] = held.wish[name]]
        /\ UNCHANGED <<wanted, zone, links, cleaned, calm>>
    BY <1>2, <2>1
       DEF UpdateARecord, CreateOrUpdateRecordSet, SetRecord, Write, Refused, Goto, inputs
  <2>3. held'.wish = held.wish /\ held'.current = held.current /\ held'.todo = todo
    BY <2>0, <2>2 DEF Held
  <2>4. calm => ZoneKnown /\ LinkKnown /\ RecordsKnown /\ held.wish = wanted
    BY <2>0 DEF PassInv, Knowledge, Creating
  <2>5. calm => \A n \in Names :
                  wanted[n] # None => records'[n] = wanted[n] \/ n \in todo
    <3> SUFFICES ASSUME calm, NEW n \in Names, wanted[n] # None
                 PROVE  records'[n] = wanted[n] \/ n \in todo
      OBVIOUS
    <3>1. records'[n] = IF n = name THEN held.wish[name] ELSE records[n]
      BY <2>0, <2>2, SetOne
    <3>2. records[n] = wanted[n] \/ n \in held.todo
      BY <2>0, <2>4 DEF RecordsKnown
    <3> QED BY <2>4, <3>1, <3>2
  <2>6. calm => RecordsKnown'
    <3> HIDE DEF todo
    <3> QED BY <2>1, <2>2, <2>3, <2>5 DEF RecordsKnown
  <2>7. calm => ZoneKnown' /\ ListedKnown' /\ LinkKnown'
    BY <2>0, <2>1, <2>2, <2>4 DEF ZoneKnown, ListedKnown, LinkKnown, OwnLinkThere
  <2>8. pc' \in {"putA", "putCname"}
    BY <2>1, <2>2
  <2> QED BY <2>0, <2>2, <2>3, <2>6, <2>7, <2>8, GoesOn DEF Creating, PassInv, PassShape
<1> QED BY <1>1, <1>2

\* The wildcard comes last, and after it everything is there.
LEMMA UpdateCnameInv ==
  ASSUME PassInv, TypeOK', UpdateCnameRecord
  PROVE  PassInv'
<1>1. CASE Fail
  BY <1>1, FailInv
<1>2. CASE ~Fail
  <2>0. pc = "putCname" /\ records \in Zone /\ cleaned = FALSE
    BY DEF PassInv, TypeOK, PassShape, UpdateCnameRecord
  <2>1. /\ pc' = "idle" /\ held' = NothingHeld
        /\ records' = [records EXCEPT !["cname"] = held.wish.cname]
        /\ UNCHANGED <<wanted, zone, links, cleaned, calm>>
    BY <1>2 DEF UpdateCnameRecord, CreateOrUpdateRecordSet, SetRecord, Write, Refused,
                Goto, inputs
  <2>2. calm => /\ zone /\ OwnLinkThere /\ held.wish = wanted
                /\ \A n \in Names : wanted[n] # None => records[n] = wanted[n]
    BY <2>0 DEF PassInv, Knowledge, Creating, ZoneKnown, LinkKnown, RecordsKnown
  <2>3. records'.cname = held.wish.cname
    BY <2>0, <2>1, SetOne
  <2>4. \A n \in Names : records'[n] = records[n]
    BY <2>0, <2>1, SetOne DEF Names
  <2>5. calm => AllThere'
    BY <2>1, <2>2, <2>3, <2>4 DEF AllThere, OwnLinkThere
  <2>6. PassShape'
    BY <2>1 DEF PassShape, Creating, NothingHeld, Empty
  <2>7. Knowledge' /\ Result'
    BY <2>0, <2>1, <2>5 DEF Knowledge, Result, Creating
  <2> QED BY <2>6, <2>7 DEF PassInv
<1> QED BY <1>1, <1>2

\* ReconcileDelete deletes the zone when no link is left, and is done then.
LEMMA DeleteInv ==
  ASSUME PassInv, TypeOK', DeleteLink \/ DeletePrivateZone
  PROVE  PassInv'
<1>1. CASE Fail
  BY <1>1, FailInv
<1>2. CASE DeleteLink /\ ~Fail
  <2>1. /\ pc = "delLink" /\ pc' = "delZone" /\ succeeded' = FALSE
        /\ UNCHANGED <<held, cleaned>>
    BY <1>2 DEF DeleteLink, DeleteVirtualNetworkLink, Write, Refused, Goto
  <2>2. PassShape'
    BY <2>1 DEF PassInv, PassShape, Creating
  <2>3. Knowledge' /\ Result'
    BY <2>1 DEF Knowledge, Result, Creating
  <2> QED BY <2>2, <2>3 DEF PassInv
<1>3. CASE DeletePrivateZone /\ ~Fail
  <2>1. /\ pc' = "idle" /\ held' = NothingHeld /\ cleaned' = TRUE
        /\ zone' = FALSE /\ links' = {}
    BY <1>3 DEF DeletePrivateZone, Refused, Goto
  <2>2. PassShape'
    BY <2>1 DEF PassShape, Creating, NothingHeld, Empty
  <2>3. Knowledge' /\ Result'
    BY <2>1 DEF Knowledge, Result, Creating
  <2> QED BY <2>2, <2>3 DEF PassInv
<1> QED BY <1>1, <1>2, <1>3

\* PassInv is inductive.
LEMMA PassInvHolds == Spec => []PassInv
<1>1. Init => PassInv
  BY InitType
     DEF Init, PassInv, PassShape, Knowledge, Result, Creating, NothingHeld, Empty
<1>2. PassInv /\ [Next]_vars => PassInv'
  <2> SUFFICES ASSUME PassInv, [Next]_vars PROVE PassInv'
    OBVIOUS
  <2>0. TypeOK
    BY DEF PassInv
  <2>1. CASE Start
    <3>1. TypeOK'
      BY <2>0, <2>1, StartType
    <3> QED BY <2>1, <3>1, StartInv
  <2>2. CASE Pass
    <3>1. TypeOK'
      BY <2>0, <2>2, PassType
    <3> QED
      BY <2>2, <3>1, ListInv, CreateZoneInv, ListLinkInv, DropLinkInv, CreateLinkInv,
         GetZoneInv, UpdateAInv, UpdateCnameInv, DeleteInv DEF Pass
  <2>3. CASE Others
    BY <2>3, OthersInv
  <2>4. CASE UNCHANGED vars
    BY <2>4
       DEF vars, inputs, cloud, PassInv, TypeOK, PassShape, Knowledge, Result, ZoneKnown,
           ListedKnown, LinkKnown, RecordsKnown, AllThere, OwnLinkThere
  <2> QED BY <2>1, <2>2, <2>3, <2>4 DEF Next
<1> QED BY <1>1, <1>2, PTL DEF Spec

\* A pass of Reconcile or ReconcileDelete that returned no error, undisturbed, has
\* left nothing undone: the linked zone with every record, or nothing.
THEOREM SuccessIsEarned == Spec => []SuccessIsTruthful
<1>1. PassInv => SuccessIsTruthful
  <2> SUFFICES ASSUME PassInv, succeeded, calm, NameFree
               PROVE  IF cleaned THEN ~zone /\ ~Linked ELSE Converged
    BY DEF SuccessIsTruthful
  <2>1. CASE cleaned
    BY <2>1 DEF PassInv, Result, Linked
  <2>2. CASE ~cleaned
    <3>1. AllThere
      BY <2>2 DEF PassInv, Result
    <3>2. PICK l \in links : l.name = OwnLink
      BY <3>1 DEF AllThere, OwnLinkThere
    <3>3. l \in Link /\ l.net = Ours
      BY <3>2 DEF NameFree, PassInv, TypeOK
    <3>4. l = [name |-> OwnLink, net |-> Ours]
      BY <3>2, <3>3 DEF Link
    <3> QED BY <2>2, <3>1, <3>2, <3>4 DEF Converged, Linked, AllThere
  <2> QED BY <2>1, <2>2
<1> QED BY <1>1, PassInvHolds, PTL
------------------------------------------------------------------------------
(***************************************************************************)
(* Refinement: each call of the pass is a step of DNSService, or none.     *)
(***************************************************************************)
WildcardThere == records.cname # None

\* The resources that exist, one by one.
ExistsMean ==
  /\ Exists \in SUBSET Resources
  /\ "zone" \in Exists <=> zone
  /\ "link" \in Exists <=> OwnLinkThere
  /\ "records" \in Exists <=> WildcardThere

\* Exists has them, in every state.
LEMMA ExistsMeans == ExistsMean
<1>1. Exists \in SUBSET Resources
  BY DEF Exists
<1>2. "zone" \in Exists <=> zone
  BY DEF Exists, Resources
<1>3. "link" \in Exists <=> OwnLinkThere
  BY DEF Exists, Resources, OwnLinkThere
<1>4. "records" \in Exists <=> WildcardThere
  BY DEF Exists, Resources, WildcardThere
<1> QED BY <1>1, <1>2, <1>3, <1>4 DEF ExistsMean

\* And after a step.
LEMMA ExistsMeansNext == ExistsMean'
BY ExistsMeans, PTL

\* Where the service is, by the next call of the pass.
PhaseMean ==
  /\ pc \in Creating => Phase = "creating"
  /\ pc \in {"delLink", "delZone"} => Phase = "deleting"
  /\ pc = "idle" /\ ~succeeded => Phase = "idle"
  /\ pc = "idle" /\ succeeded /\ cleaned => Phase = "deleted"
  /\ pc = "idle" /\ succeeded /\ ~cleaned => Phase = "created"

\* Phase tells it, in every state.
LEMMA PhaseMeans == PhaseMean
<1>1. pc \in Creating => Phase = "creating"
  BY DEF Phase, Creating
<1>2. pc \in {"delLink", "delZone"} => Phase = "deleting"
  BY DEF Phase
<1>3. /\ pc = "idle" /\ ~succeeded => Phase = "idle"
      /\ pc = "idle" /\ succeeded /\ cleaned => Phase = "deleted"
      /\ pc = "idle" /\ succeeded /\ ~cleaned => Phase = "created"
  BY DEF Phase
<1> QED BY <1>1, <1>2, <1>3 DEF PhaseMean

\* And after a step.
LEMMA PhaseMeansNext == PhaseMean'
BY PhaseMeans, PTL

\* A call of Reconcile, lost or not, that takes nothing away, adds link and
\* wildcard only to a zone, and succeeds only when all is there.
LEMMA CreateStep ==
  ASSUME PassInv, TypeOK', pc \in Creating,
         pc' \in Creating \union {"idle"}, calm' = calm, cleaned' = cleaned,
         zone => zone', OwnLinkThere => OwnLinkThere', WildcardThere => WildcardThere',
         OwnLinkThere' /\ ~OwnLinkThere => zone,
         WildcardThere' /\ ~WildcardThere => zone,
         calm /\ succeeded' /\ pc' = "idle" => zone' /\ OwnLinkThere' /\ WildcardThere'
  PROVE  DNS!Create
<1>1. Phase = "creating"
  BY PhaseMeans DEF PhaseMean
<1>2. /\ Phase' \in {"creating", "created", "idle"}
      /\ Phase' = "created" => succeeded' /\ pc' = "idle"
  <2>1. cleaned' = FALSE
    BY DEF PassInv, PassShape, Creating, TypeOK
  <2>2. pc' \in Creating \/ (pc' = "idle" /\ ~succeeded') \/ (pc' = "idle" /\ succeeded')
    OBVIOUS
  <2> QED BY <2>1, <2>2, PhaseMeansNext DEF PhaseMean
<1>3. \E new \in SUBSET Resources :
        /\ Exists' = Exists \union new
        /\ calm => \A r \in new \ Exists : Needs[r] \subseteq Exists
  <2>1. Exists \subseteq Exists'
    BY ExistsMeans, ExistsMeansNext DEF ExistsMean, Resources
  <2>2. \A r \in Exists' \ Exists : Needs[r] \subseteq Exists
    BY ExistsMeans, ExistsMeansNext DEF ExistsMean, Resources, Needs
  <2>3. Exists' \in SUBSET Resources /\ Exists' = Exists \union Exists'
    BY <2>1, ExistsMeansNext DEF ExistsMean
  <2> QED BY <2>2, <2>3
<1>4. Phase' = "created" /\ calm => Exists' = Resources
  BY <1>2, ExistsMeansNext DEF ExistsMean, Resources
<1> QED BY <1>1, <1>2, <1>3, <1>4 DEF DNS!Create
\* A call of ReconcileDelete, lost or not, that adds nothing, takes the zone away
\* only without a link and with its wildcard, and is the last one then.
LEMMA DeleteStep ==
  ASSUME pc \in {"delLink", "delZone"}, pc' \in {"delZone", "idle"}, calm' = calm,
         succeeded' /\ pc' = "idle" => cleaned',
         zone' => zone, OwnLinkThere' => OwnLinkThere, WildcardThere' => WildcardThere,
         zone /\ ~zone' => ~OwnLinkThere' /\ ~WildcardThere',
         succeeded' /\ pc' = "idle" => ~zone' /\ ~OwnLinkThere' /\ ~WildcardThere'
  PROVE  DNS!Delete
<1>1. Phase = "deleting"
  BY PhaseMeans DEF PhaseMean
<1>2. /\ Phase' \in {"deleting", "deleted", "idle"}
      /\ Phase' = "deleted" => succeeded' /\ pc' = "idle"
  <2>1. \/ pc' = "delZone" \/ (pc' = "idle" /\ ~succeeded')
        \/ (pc' = "idle" /\ succeeded' /\ cleaned')
    OBVIOUS
  <2> QED BY <2>1, PhaseMeansNext DEF PhaseMean
<1>3. \E old \in SUBSET Resources :
        /\ Exists' = Exists \ old
        /\ calm => \A r \in Exists' : Needs[r] \intersect old = {}
  <2> DEFINE old == Exists \ Exists'
  <2>1. Exists' \subseteq Exists
    BY ExistsMeans, ExistsMeansNext DEF ExistsMean, Resources
  <2>2. \A r \in Exists' : Needs[r] \intersect old = {}
    BY ExistsMeans, ExistsMeansNext DEF ExistsMean, Resources, Needs
  <2>3. old \in SUBSET Resources /\ Exists' = Exists \ old
    BY <2>1, ExistsMeans DEF ExistsMean
  <2> QED BY <2>2, <2>3
<1>4. Phase' = "deleted" /\ calm => Exists' = {}
  BY <1>2, ExistsMeansNext DEF ExistsMean, Resources
<1> QED BY <1>1, <1>2, <1>3, <1>4 DEF DNS!Delete

\* A call that changes no resource and does not end the pass with success.
LEMMA IdleCreate ==
  ASSUME PassInv, TypeOK', pc \in Creating, UNCHANGED <<zone, links, records, calm, cleaned>>,
         pc' \in Creating \/ Fail
  PROVE  DNS!Create
<1>1. /\ zone => zone'
      /\ OwnLinkThere => OwnLinkThere'
      /\ WildcardThere => WildcardThere'
      /\ ~(OwnLinkThere' /\ ~OwnLinkThere) /\ ~(WildcardThere' /\ ~WildcardThere)
  BY DEF OwnLinkThere, WildcardThere
<1>2. pc' \in Creating \union {"idle"} /\ ~(succeeded' /\ pc' = "idle")
  BY DEF Fail, Creating
<1> QED BY <1>1, <1>2, CreateStep

\* Every call of a pass is a step of the abstract service.
LEMMA PassRefines ==
  ASSUME PassInv, Pass, TypeOK'
  PROVE  DNS!Next
<1>0. held \in Held /\ records \in Zone
  BY DEF PassInv, TypeOK, Held
<1>1. CASE ListPrivateRecordSets
  <2>1. pc = "list" /\ (pc' \in {"links", "createZone"} \/ Fail)
        /\ UNCHANGED <<zone, links, records, calm, cleaned>>
    BY <1>1 DEF ListPrivateRecordSets, Read, Goto, cloud
  <2> QED BY <2>1, IdleCreate DEF Creating, DNS!Next
<1>2. CASE CreateOrUpdatePrivateZone
  <2>1. /\ pc = "createZone" /\ (pc' = "links" \/ Fail)
        /\ UNCHANGED <<links, records, calm, cleaned>> /\ (zone => zone')
    BY <1>2 DEF CreateOrUpdatePrivateZone, Write, SetZone, Goto, cloud
  <2>2. /\ OwnLinkThere' <=> OwnLinkThere
        /\ WildcardThere' <=> WildcardThere
    BY <2>1 DEF OwnLinkThere, WildcardThere
  <2>3. pc' \in Creating \union {"idle"} /\ ~(succeeded' /\ pc' = "idle")
    BY <2>1 DEF Fail, Creating
  <2> QED BY <2>1, <2>2, <2>3, CreateStep DEF Creating, DNS!Next
<1>3. CASE ListVirtualNetworkLink
  <2>1. pc = "links" /\ (pc' \in {"getZone", "dropLink", "createLink"} \/ Fail)
        /\ UNCHANGED <<zone, links, records, calm, cleaned>>
    BY <1>3 DEF ListVirtualNetworkLink, Read, Refused, Goto, cloud
  <2> QED BY <2>1, IdleCreate DEF Creating, DNS!Next
<1>4. CASE DropLink
  <2>1. /\ pc = "dropLink" /\ (pc' = "createLink" \/ Fail)
        /\ UNCHANGED <<zone, records, calm, cleaned>>
        /\ links' \in {links, {l \in links : l.name # held.drop}}
    BY <1>4 DEF DropLink, DeleteVirtualNetworkLink, Write, Refused, SetLinks, Goto, cloud
  <2>2. held.drop # OwnLink
    BY <2>1 DEF PassInv, PassShape
  <2>3. /\ OwnLinkThere' <=> OwnLinkThere
        /\ WildcardThere' <=> WildcardThere
    BY <2>1, <2>2 DEF OwnLinkThere, WildcardThere
  <2>4. pc' \in Creating \union {"idle"} /\ ~(succeeded' /\ pc' = "idle")
    BY <2>1 DEF Fail, Creating
  <2> QED BY <2>1, <2>3, <2>4, CreateStep DEF Creating, DNS!Next
<1>5. CASE CreateLink
  <2>1. CASE ~zone
    <3>1. pc = "createLink" /\ Fail /\ UNCHANGED <<zone, links, records, calm, cleaned>>
      BY <1>5, <2>1 DEF CreateLink, Refused, cloud
    <3> QED BY <3>1, IdleCreate DEF Creating, DNS!Next
  <2>2. CASE zone
    <3>1. /\ pc = "createLink" /\ (pc' = "getZone" \/ Fail)
          /\ UNCHANGED <<zone, records, calm, cleaned>> /\ links \subseteq links'
      BY <1>5 DEF CreateLink, Write, SetLinks, Refused, Goto, cloud
    <3>2. /\ OwnLinkThere => OwnLinkThere'
          /\ WildcardThere' <=> WildcardThere
      BY <3>1 DEF OwnLinkThere, WildcardThere
    <3>3. pc' \in Creating \union {"idle"} /\ ~(succeeded' /\ pc' = "idle")
      BY <3>1 DEF Fail, Creating
    <3> QED BY <2>2, <3>1, <3>2, <3>3, CreateStep DEF Creating, DNS!Next
  <2> QED BY <2>1, <2>2
<1>6. CASE GetPrivateZone
  <2>1. pc = "getZone"
    BY <1>6 DEF GetPrivateZone
  <2>2. AfterA({name \in Names : Missing(name)}) \in {"putA", "putCname"}
    BY <2>1, AfterAGoesOn DEF Creating
  <2>3. /\ pc' \in {"putA", "putCname"} \/ Fail
        /\ UNCHANGED <<zone, links, records, calm, cleaned>>
    BY <1>6, <2>2 DEF GetPrivateZone, Read, Refused, Goto, cloud
  <2> QED BY <2>1, <2>3, IdleCreate DEF Creating, DNS!Next
<1>7. CASE UpdateARecord
  <2> DEFINE name == First(held.todo)
  <2>1. pc = "putA" /\ name \in Names
    BY <1>7 DEF UpdateARecord, First, Names
  <2>2. AfterA(held.todo \ {name}) \in {"putA", "putCname"}
    BY <2>1, AfterAGoesOn DEF Creating
  <2>3. /\ pc' \in {"putA", "putCname"} \/ Fail
        /\ UNCHANGED <<zone, links, calm, cleaned>>
        /\ records' \in {records, [records EXCEPT ![name] = held.wish[name]]}
    BY <1>7, <2>2
       DEF UpdateARecord, CreateOrUpdateRecordSet, SetRecord, Write, Refused, Goto, cloud
  <2>4. records'["cname"] = records["cname"]
    BY <1>0, <2>1, <2>3, SetOne DEF Names
  <2>5. /\ OwnLinkThere' <=> OwnLinkThere
        /\ WildcardThere' <=> WildcardThere
    BY <2>3, <2>4 DEF OwnLinkThere, WildcardThere
  <2>6. pc' \in Creating \union {"idle"} /\ ~(succeeded' /\ pc' = "idle")
    BY <2>3 DEF Fail, Creating
  <2> QED BY <2>1, <2>3, <2>5, <2>6, CreateStep DEF Creating, DNS!Next
<1>8. CASE UpdateCnameRecord
  <2>1. pc = "putCname"
    BY <1>8 DEF UpdateCnameRecord
  <2>2. CASE ~zone
    <3>1. Fail /\ UNCHANGED <<zone, links, records, calm, cleaned>>
      BY <1>8, <2>2 DEF UpdateCnameRecord, CreateOrUpdateRecordSet, Refused, cloud
    <3> QED BY <2>1, <3>1, IdleCreate DEF Creating, DNS!Next
  <2>3. CASE zone
    <3>1. /\ pc' = "idle" /\ UNCHANGED <<zone, links, calm, cleaned>>
          /\ \/ succeeded' = FALSE /\ UNCHANGED records
             \/ records' = [records EXCEPT !["cname"] = held.wish.cname]
      BY <1>8, <2>3
         DEF UpdateCnameRecord, CreateOrUpdateRecordSet, SetRecord, Write, Goto, Fail, cloud
    <3>2. held.wish.cname # None
      BY <2>1 DEF PassInv, PassShape, Creating, Wish, Targets, None
    <3>3. \/ succeeded' = FALSE /\ (WildcardThere' <=> WildcardThere)
          \/ WildcardThere'
      <4>1. CASE records' = [records EXCEPT !["cname"] = held.wish.cname]
        <5>1. records'.cname = held.wish.cname
          BY <1>0, <4>1 DEF Zone
        <5> QED BY <3>2, <5>1 DEF WildcardThere
      <4> QED BY <3>1, <4>1 DEF WildcardThere
    <3>4. OwnLinkThere' <=> OwnLinkThere
      BY <3>1 DEF OwnLinkThere
    <3>5. calm => OwnLinkThere
      BY <2>1 DEF PassInv, Knowledge, LinkKnown, Creating
    <3>6. pc \in Creating /\ pc' \in Creating \union {"idle"}
      BY <2>1, <3>1 DEF Creating
    <3> QED BY <2>3, <3>1, <3>3, <3>4, <3>5, <3>6, CreateStep DEF DNS!Next
  <2> QED BY <2>2, <2>3
<1>9. CASE DeleteLink
  <2>1. /\ pc = "delLink" /\ (pc' = "delZone" \/ Fail)
        /\ UNCHANGED <<zone, records, calm, cleaned>> /\ links' \subseteq links
    BY <1>9 DEF DeleteLink, DeleteVirtualNetworkLink, Write, Refused, SetLinks, Goto, cloud
  <2>2. /\ OwnLinkThere' => OwnLinkThere
        /\ WildcardThere' <=> WildcardThere
    BY <2>1 DEF OwnLinkThere, WildcardThere
  <2>3. pc' \in {"delZone", "idle"} /\ ~(succeeded' /\ pc' = "idle")
    BY <2>1 DEF Fail
  <2> QED BY <2>1, <2>2, <2>3, DeleteStep DEF DNS!Next
<1>10. CASE DeletePrivateZone
  <2>1. pc = "delZone" /\ pc' = "idle" /\ UNCHANGED <<links, calm>>
    BY <1>10 DEF DeletePrivateZone, Refused, Fail, Goto, cloud
  <2>2. OwnLinkThere' <=> OwnLinkThere
    BY <2>1 DEF OwnLinkThere
  <2>3. CASE UNCHANGED <<zone, records>> /\ Fail
    <3>1. (WildcardThere' <=> WildcardThere) /\ succeeded' = FALSE
      BY <2>3 DEF WildcardThere, Fail
    <3> QED BY <2>1, <2>2, <2>3, <3>1, DeleteStep DEF DNS!Next
  <2>4. CASE links = {} /\ zone' = FALSE /\ records' = Empty /\ (succeeded' => cleaned')
    <3>1. ~WildcardThere' /\ ~OwnLinkThere'
      BY <2>1, <2>4 DEF WildcardThere, OwnLinkThere, Empty
    <3> QED BY <2>1, <2>2, <2>4, <3>1, DeleteStep DEF DNS!Next
  <2> QED BY <1>10, <2>3, <2>4 DEF DeletePrivateZone, Refused, Fail, cloud
<1> QED BY <1>1, <1>2, <1>3, <1>4, <1>5, <1>6, <1>7, <1>8, <1>9, <1>10 DEF Pass

\* privatedns.Service implements the abstract service: zone, then link and
\* records; link, then zone with its records; success only when all is done. It
\* does so whatever fails, is lost, or is changed by others between two calls.
THEOREM ServiceIsImplemented == Spec => ImplementsDNSService
<1>1. Init => DNS!Init
  <2>1. Exists \in SUBSET Resources
    BY ExistsMeans DEF ExistsMean
  <2> QED BY <2>1 DEF Init, DNS!Init, Phase
<1>2. PassInv /\ PassInv' /\ [Next]_vars => [DNS!Next]_(DNS!vars)
  <2> SUFFICES ASSUME PassInv, PassInv', [Next]_vars PROVE [DNS!Next]_(DNS!vars)
    OBVIOUS
  <2>1. CASE Start
    <3>1. Phase \in {"idle", "created", "deleted"} /\ Phase' \in {"creating", "deleting"}
      BY <2>1 DEF Start, Goto, Phase
    <3>2. calm' = TRUE /\ UNCHANGED Exists
      BY <2>1 DEF Start, cloud, Exists
    <3> QED BY <3>1, <3>2 DEF DNS!Next, DNS!Begin, DNS!Resting
  <2>2. CASE Pass
    BY <2>2, PassRefines DEF PassInv
  <2>3. CASE Others
    <3>1. calm' = FALSE /\ UNCHANGED <<cleaned, pc, succeeded>>
      BY <2>3 DEF Others, DeleteZone, AddLink, DeleteOtherLink, EditRecord,
                  EditAnnotations, DeleteCluster, Edit
    <3>2. Exists' \in SUBSET Resources /\ UNCHANGED Phase
      BY <3>1, ExistsMeansNext DEF ExistsMean, Phase
    <3> QED BY <3>1, <3>2 DEF DNS!Next, DNS!Disturb
  <2>4. CASE UNCHANGED vars
    BY <2>4 DEF vars, cloud, DNS!vars, Exists, Phase
  <2> QED BY <2>1, <2>2, <2>3, <2>4 DEF Next
<1> QED BY <1>1, <1>2, PassInvHolds, PTL DEF Spec, ImplementsDNSService, DNS!Spec
==============================================================================
