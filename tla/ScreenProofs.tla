----------------------------- MODULE ScreenProofs -----------------------------
(***************************************************************************)
(* What the screens show.  For every number of requests in execution: the  *)
(* order of the transporter's queue is one, and the main screen is empty   *)
(* only when there is no work.  When requests are served one after the     *)
(* other: everything in hand is on "Minhas tarefas", and, as long as what  *)
(* belongs together is at one machine, the cards of the machines (on their *)
(* operators' pages and on the TV monitor) show every pallet once, offer   *)
(* what the server accepts, and never go back.                             *)
(***************************************************************************)
EXTENDS TvMonitor, TransporterScreen, TripProofs, WellFoundedInduction

\* compareTripQueuePriority is a comparator as Array.sort wants it: nothing precedes
\* itself, the order is transitive, and so is having the same rank.
THEOREM PrecedesIsOrder ==
  ASSUME NEW a \in PriorityKeys, NEW b \in PriorityKeys, NEW c \in PriorityKeys
  PROVE  /\ ~ precedes(a, a)
         /\ precedes(a, b) /\ precedes(b, c) => precedes(a, c)
         /\ precedes(a, c) => precedes(a, b) \/ precedes(b, c)
BY DEF PriorityKeys, precedes

\* The least-number principle.
LEMMA Minimum ==
  ASSUME NEW S, S \subseteq Nat, S # {}
  PROVE  \E n \in S : \A k \in S : n <= k
<1> DEFINE R == OpToRel(<, Nat)
<1>1. \E n \in S : \A k \in S : ~ (<<k, n>> \in R)
  <2>1. IsWellFoundedOn(R, Nat)
    BY NatLessThanWellFounded
  <2> HIDE DEF R
  <2> QED BY <2>1, WFMin
<1>2. \A n, k \in Nat : k < n => <<k, n>> \in R
  BY DEF OpToRel
<1> HIDE DEF R
<1>3. PICK n \in S : \A k \in S : ~ (<<k, n>> \in R)
  BY <1>1
<1>4. ASSUME NEW k \in S PROVE n <= k
  <2>1. n \in Nat /\ k \in Nat /\ ~ (k < n)
    BY <1>2, <1>3
  <2> QED BY <2>1
<1> QED BY <1>4

Ranked == [preferredMachine: BOOLEAN, effectiveCritical: BOOLEAN, kindRank: Nat, sortAt: Nat]

\* Some of the keys that remain is preceded by none, one criterion after the other.
LEMMA SomeFirst ==
  ASSUME NEW K \in SUBSET Ranked, K # {}
  PROVE  \E a \in K : \A b \in K : ~ precedes(b, a)
<1>1. PICK K1 \in SUBSET K :
        /\ K1 # {}
        /\ \A a \in K1, b \in K : a.preferredMachine \/ ~ b.preferredMachine
        /\ \A a \in K1, b \in K : b.preferredMachine = a.preferredMachine => b \in K1
  <2>1. CASE \E a \in K : a.preferredMachine
    <3> DEFINE S == {a \in K : a.preferredMachine}
    <3> WITNESS S \in SUBSET K
    <3> QED BY <2>1 DEF Ranked
  <2>2. CASE \A a \in K : ~ a.preferredMachine
    <3> WITNESS K \in SUBSET K
    <3> QED BY <2>2 DEF Ranked
  <2> QED BY <2>1, <2>2
<1>2. PICK K2 \in SUBSET K1 :
        /\ K2 # {}
        /\ \A a \in K2, b \in K1 : a.effectiveCritical \/ ~ b.effectiveCritical
        /\ \A a \in K2, b \in K1 : b.effectiveCritical = a.effectiveCritical => b \in K2
  <2>1. CASE \E a \in K1 : a.effectiveCritical
    <3> DEFINE S == {a \in K1 : a.effectiveCritical}
    <3> WITNESS S \in SUBSET K1
    <3> QED BY <2>1 DEF Ranked
  <2>2. CASE \A a \in K1 : ~ a.effectiveCritical
    <3> WITNESS K1 \in SUBSET K1
    <3> QED BY <1>1, <2>2 DEF Ranked
  <2> QED BY <2>1, <2>2
<1>3. PICK m \in K2 : \A b \in K2 : m.kindRank <= b.kindRank
  <2> DEFINE S == {a.kindRank : a \in K2}
  <2>1. S \subseteq Nat /\ S # {}
    BY <1>2 DEF Ranked
  <2>2. PICK n \in S : \A k \in S : n <= k
    <3> HIDE DEF S
    <3> QED BY <2>1, Minimum
  <2> QED BY <2>2
<1> DEFINE K3 == {b \in K2 : b.kindRank = m.kindRank}
<1>4. PICK a \in K3 : \A b \in K3 : a.sortAt <= b.sortAt
  <2> DEFINE S == {b.sortAt : b \in K3}
  <2>1. S \subseteq Nat /\ S # {}
    BY <1>3 DEF Ranked
  <2>2. PICK n \in S : \A k \in S : n <= k
    <3> HIDE DEF S
    <3> QED BY <2>1, Minimum
  <2> QED BY <2>2
<1>5. ASSUME NEW b \in K, precedes(b, a) PROVE FALSE
  <2>1. a \in Ranked /\ b \in Ranked /\ a \in K1 /\ a \in K2
    BY <1>1, <1>2, <1>4
  <2>2. b.preferredMachine = a.preferredMachine
    BY <1>1, <1>5, <2>1 DEF precedes, Ranked
  <2>3. b \in K1
    BY <1>1, <2>1, <2>2
  <2>4. b.effectiveCritical = a.effectiveCritical
    BY <1>2, <1>5, <2>1, <2>2, <2>3 DEF precedes, Ranked
  <2>5. b \in K2
    BY <1>2, <2>1, <2>3, <2>4
  <2>6. \/ b.kindRank < a.kindRank
        \/ b.kindRank = a.kindRank /\ b.sortAt < a.sortAt
    BY <1>5, <2>1, <2>2, <2>4 DEF precedes, Ranked
  <2>7. m \in Ranked
    BY <1>1, <1>2, <1>3
  <2> QED BY <1>3, <1>4, <2>1, <2>5, <2>6, <2>7 DEF Ranked
<1> QED BY <1>4, <1>5
-----------------------------------------------------------------------------
(* The main screen.                                                        *)

LEMMA RankType ==
  ASSUME NEW kind \in WorkKinds, NEW last \in LastCompleted
  PROVE  tripQueueKindAffinityRank(kind, last) \in Nat
BY DEF WorkKinds, LastCompleted, tripQueueKindAffinityRank

\* Work that is waiting, and when it was created.
LEMMA WaitingWork ==
  ASSUME TypeOK, NEW types, NEW x \in Pairs(types) \cup Standalone(types)
  PROVE  x[1] \in WorkKinds /\ sortAt(x) \in Nat
<1>1. CASE x \in Pairs(types)
  <2>1. PICK r \in TripIds : x = <<"combined", r>>
    BY <1>1 DEF Pairs, VisibleTrips, ValidPairs
  <2>2. trip[r].deliver \in Nat
    BY BoundsAssumption DEF TypeOK, TripRow, DeliveryIds
  <2> QED BY <2>1, <2>2 DEF WorkKinds, sortAt
<1>2. CASE x \in Standalone(types)
  BY <1>2, BoundsAssumption
     DEF Standalone, VisibleDeliveries, VisiblePickups, WorkKinds, sortAt, DeliveryIds, PickupIds
<1> QED BY <1>1, <1>2

\* Of work that merely waits, something is promoted.
LEMMA SomethingPromoted ==
  ASSUME NEW types, NEW critical, NEW last \in LastCompleted, Standalone(types) \ critical # {}
  PROVE  Fallback(types, critical, last) # {}
<1> DEFINE W == Standalone(types) \ critical
           rank(x) == tripQueueKindAffinityRank(x[1], last)
<1>1. \A x \in W : x = <<x[1], x[2]>> /\ x[1] \in {"deliver", "pickup"} /\ x[2] \in Nat
  BY BoundsAssumption
     DEF Standalone, VisibleDeliveries, VisiblePickups, DeliveryIds, PickupIds
<1>2. \A x \in W : rank(x) \in Nat
  BY <1>1, RankType DEF WorkKinds
<1>3. PICK m \in W : \A y \in W : rank(m) <= rank(y)
  <2> DEFINE S == {rank(x) : x \in W}
  <2>1. S \subseteq Nat /\ S # {}
    BY <1>2
  <2>2. PICK n \in S : \A k \in S : n <= k
    <3> HIDE DEF S
    <3> QED BY <2>1, Minimum
  <2> QED BY <2>2
<1> DEFINE Same == {x \in W : x[1] = m[1]}
<1>4. PICK a \in Same : \A y \in Same : a[2] <= y[2]
  <2> DEFINE S == {x[2] : x \in Same}
  <2>1. S \subseteq Nat /\ S # {}
    BY <1>1
  <2>2. PICK n \in S : \A k \in S : n <= k
    <3> HIDE DEF S
    <3> QED BY <2>1, Minimum
  <2> QED BY <2>2
<1>5. a \in Fallback(types, critical, last)
  BY <1>3, <1>4 DEF Fallback
<1> QED BY <1>5

LEMMA MainShowsWork ==
  ASSUME TypeOK, NEW types, NEW critical \in SUBSET TaskIds, NEW preferred, NEW last \in LastCompleted,
         ManualWork(types, critical, preferred) # {}
  PROVE  pickTopMainTripQueueItem(types, critical, preferred, last) # {}
<1> DEFINE items == MainWork(types, critical, preferred, last)
           keys(x) == priorityKeys(x, critical, preferred, last)
           K == {keys(x) : x \in items}
<1>1. PICK x \in Standalone(types) : ~ isUrgent(x, critical, preferred)
  BY DEF ManualWork
<1>2. x \notin critical
  BY <1>1 DEF isUrgent, isCriticalWork, Standalone
<1>3. Fallback(types, critical, last) # {}
  BY <1>2, SomethingPromoted
<1>4. items # {}
  BY <1>3 DEF MainWork
<1>5. items \subseteq Pairs(types) \cup Standalone(types)
  BY DEF MainWork, Recommended, Fallback
<1>6. ASSUME NEW y \in items PROVE keys(y) \in Ranked
  <2>1. y[1] \in WorkKinds /\ sortAt(y) \in Nat
    BY <1>5, WaitingWork
  <2>2. isPreferred(y, preferred) \in BOOLEAN
    BY DEF isPreferred
  <2>3. isCriticalWork(y, critical) \in BOOLEAN
    <3>1. CASE y[1] = "combined"
      BY <3>1 DEF isCriticalWork
    <3>2. CASE y[1] # "combined"
      BY <3>2 DEF isCriticalWork
    <3> QED BY <3>1, <3>2
  <2> QED BY <2>1, <2>2, <2>3, RankType DEF priorityKeys, Ranked
<1>7. PICK a \in K : \A b \in K : ~ precedes(b, a)
  <2>1. K \in SUBSET Ranked /\ K # {}
    BY <1>4, <1>6
  <2> HIDE DEF K
  <2> QED BY <2>1, SomeFirst
<1>8. PICK y \in items : keys(y) = a
  BY <1>7
<1>9. y \in pickTopMainTripQueueItem(types, critical, preferred, last)
  BY <1>7, <1>8 DEF pickTopMainTripQueueItem
<1> QED BY <1>9

\* When the main screen of a transporter is empty there is nothing in the manual queue.
THEOREM MainNeverHidesWork == Spec => []EmptyMainMeansNoWork
<1>1. TypeOK => EmptyMainMeansNoWork
  BY MainShowsWork DEF EmptyMainMeansNoWork
<1> QED BY <1>1, TypeCorrect, PTL
-----------------------------------------------------------------------------
(* The cards of a machine: what the three lists hold and find.             *)

LEMMA InLists ==
  ASSUME NEW m
  PROVE  /\ MachineLists(m).deliveries = {d \in DeliveryIds : delivery[d].machine = m}
         /\ MachineLists(m).pickups = {p \in PickupIds : pickup[p].machine = m}
         /\ MachineLists(m).supplies = {s \in SupplyIds : supply[s].machine = m}
BY DEF MachineLists

LEMMA NotNull == 0 \notin DeliveryIds /\ 0 \notin PickupIds /\ 0 \notin SupplyIds /\ 0 \notin TripIds
BY BoundsAssumption DEF DeliveryIds, PickupIds, SupplyIds, TripIds

\* A request that names a delivery is fulfilled, or cancelled with it, and is the only one.
LEMMA Answer ==
  ASSUME TInv, NEW s \in SupplyIds, supply[s].delivery # 0
  PROVE  /\ supply[s].delivery \in DeliveryIds
         /\ supply[s].status \in {"FULFILLED", "CANCELLED"}
         /\ delivery[supply[s].delivery].status # "ABSENT"
         /\ (delivery[supply[s].delivery].status = "CANCELED") = (supply[s].status = "CANCELLED")
         /\ \A k \in SupplyIds : supply[k].delivery = supply[s].delivery => k = s
BY Typed DEF TInv, RowsFit, SupplyGood, SupplyRow

\* The link of a pickup is its alone.
LEMMA OneLink ==
  ASSUME TInv, NEW p \in PickupIds, pickup[p].link # 0
  PROVE  /\ pickup[p].link \in SupplyIds
         /\ supply[pickup[p].link].status # "ABSENT"
         /\ \A k \in PickupIds : pickup[k].link = pickup[p].link => k = p
BY Typed DEF TInv, RowsFit, LinksGood, GoodPickup, PickupRow

\* The request that the list of tasks finds for a delivery.
LEMMA TaskSupply ==
  ASSUME NEW d, NEW L, L.supplies \subseteq SupplyIds
  PROVE  LET s == findSupplyForDeliveryTask(d, L)
         IN  IF s = 0 THEN \A k \in L.supplies : supply[k].delivery # d
             ELSE s \in L.supplies /\ supply[s].delivery = d
<1> DEFINE S == {s \in L.supplies : supply[s].delivery = d}
<1>1. S \in SUBSET (1 .. MaxSupply) /\ MaxSupply \in Nat
  BY BoundsAssumption DEF SupplyIds
<1>2. findSupplyForDeliveryTask(d, L) = Oldest(S)
  BY DEF findSupplyForDeliveryTask
<1>3. 0 \notin S
  BY NotNull
<1> HIDE DEF S
<1>4. S # {} => Oldest(S) \in S
  BY <1>1, OldestIsIn
<1>5. S = {} => Oldest(S) = 0
  BY <1>1, OldestIsIn
<1> QED BY <1>2, <1>3, <1>4, <1>5 DEF S

\* What is found for a pickup is what the two foreign keys name.
LEMMA PickupFinds ==
  ASSUME NEW p, NEW L, L.supplies \subseteq SupplyIds, L.deliveries \subseteq DeliveryIds,
         findDeliveryForPickup(p, L) # 0
  PROVE  /\ pickup[p].link \in L.supplies
         /\ supply[pickup[p].link].delivery \in L.deliveries
         /\ findDeliveryForPickup(p, L) = supply[pickup[p].link].delivery
BY NotNull DEF findDeliveryForPickup, findSupplyForPickup, FoundIn

LEMMA OnCard ==
  ASSUME NEW x, NEW L
  PROVE  /\ deliveryOn(<<"DELIVERY", x>>, L) = x
         /\ deliveryOn(<<"PICKUP", x>>, L) = findDeliveryForPickup(x, L)
         /\ deliveryOn(<<"SUPPLY", x>>, L) = findDeliveryForSupplyRequest(x, L)
         /\ supplyOn(<<"DELIVERY", x>>, L) = 0
         /\ supplyOn(<<"PICKUP", x>>, L) = findSupplyForPickup(x, L)
         /\ supplyOn(<<"SUPPLY", x>>, L) = x
BY DEF deliveryOn, supplyOn

LEMMA CardKinds ==
  ASSUME NEW L, NEW c
  PROVE  c \in Cards(L) <=>
           \/ \E d \in DeliveryRows(L) : c = <<"DELIVERY", d>>
           \/ \E p \in PickupRows(L) : c = <<"PICKUP", p>>
           \/ \E s \in SupplyRows(L) : c = <<"SUPPLY", s>>
BY DEF Cards
-----------------------------------------------------------------------------
(* Each on one card.                                                       *)

\* A card that shows an open delivery is its own, or that of its request, or that of the
\* pickup linked to its request.
LEMMA DeliveryShown ==
  ASSUME TInv, NoRequestWithPallet, NEW m \in Machines, NEW d \in OpenDeliveries(m), NEW c,
         c \in Cards(MachineLists(m)), deliveryOn(c, MachineLists(m)) = d
  PROVE  LET L == MachineLists(m) IN
         \/ c = <<"DELIVERY", d>> /\ d \in DeliveryRows(L)
         \/ \E p \in PickupRows(L) : /\ c = <<"PICKUP", p>> /\ pickup[p].link \in L.supplies
                                     /\ supply[pickup[p].link].delivery = d
         \/ \E s \in SupplyRows(L) : c = <<"SUPPLY", s>> /\ supply[s].delivery = d
<1> DEFINE L == MachineLists(m)
<1>1. L.supplies \subseteq SupplyIds /\ L.deliveries \subseteq DeliveryIds /\ d # 0
  BY InLists, NotNull DEF OpenDeliveries
<1> HIDE DEF L
<1>2. ASSUME NEW x \in DeliveryRows(L), c = <<"DELIVERY", x>> PROVE x = d
  BY <1>2, OnCard DEF L
<1>3. ASSUME NEW p \in PickupRows(L), c = <<"PICKUP", p>>
      PROVE  pickup[p].link \in L.supplies /\ supply[pickup[p].link].delivery = d
  <2>1. findDeliveryForPickup(p, L) = d
    BY <1>3, OnCard DEF L
  <2> QED BY <1>1, <2>1, PickupFinds
<1>4. ASSUME NEW s \in SupplyRows(L), c = <<"SUPPLY", s>> PROVE supply[s].delivery = d
  <2>1. findDeliveryForSupplyRequest(s, L) = d /\ s \in L.supplies
    BY <1>4, OnCard DEF L, SupplyRows
  <2>2. ~ (supply[s].delivery = 0 /\ supply[s].status = "OPEN")
    BY <2>1, InLists DEF L, NoRequestWithPallet, OpenSupplies
  <2>3. supply[s].delivery # 0
    BY <1>1, <2>1, <2>2 DEF findDeliveryForSupplyRequest
  <2> QED BY <1>1, <2>1, <2>3 DEF findDeliveryForSupplyRequest, FoundIn
<1>5. \/ \E x \in DeliveryRows(L) : c = <<"DELIVERY", x>>
      \/ \E p \in PickupRows(L) : c = <<"PICKUP", p>>
      \/ \E s \in SupplyRows(L) : c = <<"SUPPLY", s>>
  BY CardKinds DEF L
<1> QED BY <1>2, <1>3, <1>4, <1>5 DEF L

LEMMA OneCardPerDelivery ==
  ASSUME TInv, NoRequestWithPallet, NEW m \in Machines, NEW d \in OpenDeliveries(m)
  PROVE  \E card : {c \in Cards(MachineLists(m)) : deliveryOn(c, MachineLists(m)) = d} = {card}
<1> DEFINE L == MachineLists(m)
           s == findSupplyForDeliveryTask(d, L)
<1>1. /\ L.supplies \subseteq SupplyIds /\ L.deliveries \subseteq DeliveryIds
      /\ L.pickups \subseteq PickupIds /\ d \in L.deliveries /\ d # 0 /\ isOpenDelivery(d)
  BY InLists, NotNull DEF OpenDeliveries, isOpenDelivery
<1>2. \A c \in Cards(L) : deliveryOn(c, L) = d =>
        \/ c = <<"DELIVERY", d>> /\ d \in DeliveryRows(L)
        \/ \E p \in PickupRows(L) : /\ c = <<"PICKUP", p>> /\ pickup[p].link \in L.supplies
                                    /\ supply[pickup[p].link].delivery = d
        \/ \E k \in SupplyRows(L) : c = <<"SUPPLY", k>> /\ supply[k].delivery = d
  BY DeliveryShown
<1>3. IF s = 0 THEN \A k \in L.supplies : supply[k].delivery # d
      ELSE s \in L.supplies /\ supply[s].delivery = d
  <2> HIDE DEF L
  <2> QED BY <1>1, TaskSupply
<1> HIDE DEF L, s
<1>4. CASE s = 0
  <2>1. d \in DeliveryRows(L)
    BY <1>1, <1>4 DEF DeliveryRows, s
  <2>2. <<"DELIVERY", d>> \in Cards(L) /\ deliveryOn(<<"DELIVERY", d>>, L) = d
    BY <2>1, CardKinds, OnCard
  <2>3. \A k \in L.supplies : supply[k].delivery # d
    BY <1>3, <1>4
  <2>4. \A k \in SupplyRows(L) : k \in L.supplies
    BY DEF SupplyRows
  <2>5. {c \in Cards(L) : deliveryOn(c, L) = d} = {<<"DELIVERY", d>>}
    BY <1>2, <2>2, <2>3, <2>4
  <2> QED BY <2>5 DEF L
<1>5. CASE s # 0
  <2>1. s \in L.supplies /\ s \in SupplyIds /\ supply[s].delivery = d
    BY <1>1, <1>3, <1>5
  <2>2. supply[s].status = "FULFILLED" /\ \A k \in SupplyIds : supply[k].delivery = d => k = s
    BY <1>1, <2>1, Answer DEF isOpenDelivery, OpenStatus
  <2>3. d \notin DeliveryRows(L)
    BY <2>2, <1>5 DEF DeliveryRows, s
  <2>4. CASE hasActiveLinkedPickup(s, L)
    <3>1. PICK p \in L.pickups : pickup[p].link = s /\ isOpenPickup(p)
      BY <2>4 DEF hasActiveLinkedPickup
    <3>2. p \in PickupRows(L)
      BY <3>1 DEF PickupRows
    <3>3. findDeliveryForPickup(p, L) = d
      BY <1>1, <1>5, <2>1, <3>1 DEF findDeliveryForPickup, findSupplyForPickup, FoundIn
    <3>4. <<"PICKUP", p>> \in Cards(L) /\ deliveryOn(<<"PICKUP", p>>, L) = d
      BY <3>2, <3>3, CardKinds, OnCard
    <3>5. s \notin SupplyRows(L)
      BY <2>4 DEF SupplyRows
    <3>6. \A k \in SupplyRows(L) : k \in SupplyIds
      BY <1>1 DEF SupplyRows
    <3>7. ASSUME NEW k \in PickupRows(L), pickup[k].link \in L.supplies,
                 supply[pickup[k].link].delivery = d
          PROVE  k = p
      <4>1. pickup[k].link = s /\ k \in PickupIds
        BY <1>1, <2>2, <3>7 DEF PickupRows
      <4> QED BY <1>1, <1>5, <3>1, <4>1, OneLink
    <3>8. {c \in Cards(L) : deliveryOn(c, L) = d} = {<<"PICKUP", p>>}
      BY <1>2, <2>2, <2>3, <3>4, <3>5, <3>6, <3>7
    <3> QED BY <3>8 DEF L
  <2>5. CASE ~ hasActiveLinkedPickup(s, L)
    <3>1. findDeliveryForSupplyRequest(s, L) = d
      BY <1>1, <2>1 DEF findDeliveryForSupplyRequest, FoundIn
    <3>2. s \in SupplyRows(L)
      BY <1>1, <2>1, <2>2, <2>5, <3>1 DEF SupplyRows, isOpenDelivery, OpenStatus
    <3>3. <<"SUPPLY", s>> \in Cards(L) /\ deliveryOn(<<"SUPPLY", s>>, L) = d
      BY <3>1, <3>2, CardKinds, OnCard
    <3>4. \A k \in SupplyRows(L) : k \in SupplyIds
      BY <1>1 DEF SupplyRows
    <3>5. ASSUME NEW k \in PickupRows(L), pickup[k].link \in L.supplies,
                 supply[pickup[k].link].delivery = d
          PROVE  FALSE
      <4>1. pickup[k].link = s /\ k \in L.pickups /\ isOpenPickup(k)
        BY <1>1, <2>2, <3>5 DEF PickupRows
      <4> QED BY <2>5, <4>1 DEF hasActiveLinkedPickup
    <3>6. {c \in Cards(L) : deliveryOn(c, L) = d} = {<<"SUPPLY", s>>}
      BY <1>2, <2>2, <2>3, <3>3, <3>4, <3>5
    <3> QED BY <3>6 DEF L
  <2> QED BY <2>4, <2>5
<1> QED BY <1>4, <1>5

\* Of a request, without a look at what else is open.
LEMMA OneCardPerSupply ==
  ASSUME TInv, NEW m \in Machines, NEW s \in OpenSupplies(m)
  PROVE  \E card : {c \in Cards(MachineLists(m)) : supplyOn(c, MachineLists(m)) = s} = {card}
<1> DEFINE L == MachineLists(m)
<1>1. /\ L.supplies \subseteq SupplyIds /\ L.pickups \subseteq PickupIds
      /\ s \in L.supplies /\ s # 0 /\ supply[s].status = "OPEN"
  BY InLists, NotNull DEF OpenSupplies
<1> HIDE DEF L
<1>2. ASSUME NEW p \in PickupRows(L), findSupplyForPickup(p, L) = s
      PROVE  p \in L.pickups /\ pickup[p].link = s /\ isOpenPickup(p)
  BY <1>1, <1>2 DEF findSupplyForPickup, FoundIn, PickupRows
<1>3. ASSUME NEW c \in Cards(L), supplyOn(c, L) = s
      PROVE  \/ \E p \in PickupRows(L) : c = <<"PICKUP", p>> /\ findSupplyForPickup(p, L) = s
             \/ c = <<"SUPPLY", s>> /\ s \in SupplyRows(L)
  <2>1. ASSUME NEW d, c = <<"DELIVERY", d>> PROVE FALSE
    <3>1. supplyOn(c, L) = 0
      BY <2>1 DEF supplyOn
    <3> QED BY <1>1, <1>3, <3>1
  <2>2. ASSUME NEW p, c = <<"PICKUP", p>> PROVE findSupplyForPickup(p, L) = s
    BY <1>3, <2>2, OnCard
  <2>3. ASSUME NEW k, c = <<"SUPPLY", k>> PROVE k = s
    BY <1>3, <2>3, OnCard
  <2> QED BY <2>1, <2>2, <2>3, CardKinds
<1>4. CASE hasActiveLinkedPickup(s, L)
  <2>1. PICK p \in L.pickups : pickup[p].link = s /\ isOpenPickup(p)
    BY <1>4 DEF hasActiveLinkedPickup
  <2>2. p \in PickupRows(L) /\ findSupplyForPickup(p, L) = s
    BY <1>1, <2>1 DEF PickupRows, findSupplyForPickup, FoundIn
  <2>3. <<"PICKUP", p>> \in Cards(L) /\ supplyOn(<<"PICKUP", p>>, L) = s
    BY <2>2, CardKinds, OnCard
  <2>4. s \notin SupplyRows(L)
    BY <1>4 DEF SupplyRows
  <2>5. ASSUME NEW k \in PickupRows(L), findSupplyForPickup(k, L) = s PROVE k = p
    BY <1>1, <1>2, <2>1, <2>5, OneLink
  <2>6. {c \in Cards(L) : supplyOn(c, L) = s} = {<<"PICKUP", p>>}
    BY <1>3, <2>3, <2>4, <2>5
  <2> QED BY <2>6 DEF L
<1>5. CASE ~ hasActiveLinkedPickup(s, L)
  <2>1. s \in SupplyRows(L)
    BY <1>1, <1>5 DEF SupplyRows
  <2>2. <<"SUPPLY", s>> \in Cards(L) /\ supplyOn(<<"SUPPLY", s>>, L) = s
    BY <2>1, CardKinds, OnCard
  <2>3. ~ \E p \in PickupRows(L) : findSupplyForPickup(p, L) = s
    BY <1>2, <1>5 DEF hasActiveLinkedPickup
  <2>4. {c \in Cards(L) : supplyOn(c, L) = s} = {<<"SUPPLY", s>>}
    BY <1>3, <2>2, <2>3
  <2> QED BY <2>4 DEF L
<1> QED BY <1>4, <1>5

LEMMA OnOneCard ==
  ASSUME TInv, NoRequestWithPallet
  PROVE  EachOnOneCard
<1>1. \A card : Cardinality({card}) = 1
  BY FS_Singleton
<1>2. ASSUME NEW m \in Machines, NEW d \in OpenDeliveries(m)
      PROVE  Cardinality({c \in Cards(MachineLists(m)) : deliveryOn(c, MachineLists(m)) = d}) = 1
  <2>1. PICK card : {c \in Cards(MachineLists(m)) : deliveryOn(c, MachineLists(m)) = d} = {card}
    BY OneCardPerDelivery
  <2> QED BY <1>1, <2>1
<1>3. ASSUME NEW m \in Machines, NEW s \in OpenSupplies(m)
      PROVE  Cardinality({c \in Cards(MachineLists(m)) : supplyOn(c, MachineLists(m)) = s}) = 1
  <2>1. PICK card : {c \in Cards(MachineLists(m)) : supplyOn(c, MachineLists(m)) = s} = {card}
    BY OneCardPerSupply
  <2> QED BY <1>1, <2>1
<1> QED BY <1>2, <1>3 DEF EachOnOneCard

\* Every open delivery and request of a machine is on exactly one of its cards, for any
\* number of machines, as long as no request is open at a machine that has a pallet.
THEOREM OnOneCardUnlessCrossed ==
  ASSUME OneSlot PROVE Spec => [](NoRequestWithPallet => EachOnOneCard)
<1>1. TInv => (NoRequestWithPallet => EachOnOneCard)
  BY OnOneCard
<1> QED BY <1>1, AlwaysTInv, PTL

\* With one machine none is: three kinds of cards hide one another's rows, and none hides a
\* pallet or a request from all of them.
THEOREM OnOneCardInSeries == ASSUME OneSlot, OneMachine PROVE Spec => []EachOnOneCard
<1>1. MInv => EachOnOneCard
  BY OnOneCard DEF MInv
<1> QED BY <1>1, AlwaysMInv, PTL
-----------------------------------------------------------------------------
(* What the screen offers.                                                 *)

\* What belongs together is at one machine: no edit took a delivery to another machine
\* than its request's, and no pickup is linked to a request of another machine.
Together ==
  /\ \A s \in SupplyIds : supply[s].delivery # 0 =>
       delivery[supply[s].delivery].machine = supply[s].machine
  /\ \A p \in PickupIds : pickup[p].link # 0 =>
       supply[pickup[p].link].machine = pickup[p].machine

LEMMA OffersAccepted ==
  ASSUME TInv, Together
  PROVE  OfferedIsAccepted
<1> SUFFICES ASSUME NEW m \in Machines
             PROVE  LET L == MachineLists(m) IN
                    /\ canRequestSupply(L) => OpenDeliveries(m) = {} /\ OpenSupplies(m) = {}
                    /\ canRequestPickupWithReplenishment(L) =>
                         OpenDeliveries(m) = {} /\ EligibleUnclaimed(m) = {}
                    /\ \A p \in L.pickups :
                         canCancelPickupRequest(p, L) =>
                           pickup[p].status = "CREATED" /\ ~ LinkedPalletWaits(p)
  BY DEF OfferedIsAccepted
<1> DEFINE L == MachineLists(m)
<1>1. /\ L.deliveries = {d \in DeliveryIds : delivery[d].machine = m}
      /\ L.pickups = {p \in PickupIds : pickup[p].machine = m}
      /\ L.supplies = {s \in SupplyIds : supply[s].machine = m}
  BY InLists
<1> HIDE DEF L
<1>2. ASSUME ~ hasIncomingDelivery(L), ~ hasOpenOperatorSupply(L)
      PROVE  OpenDeliveries(m) = {} /\ OpenSupplies(m) = {}
  BY <1>1, <1>2 DEF hasIncomingDelivery, hasOpenOperatorSupply, isOpenDelivery, OpenDeliveries,
                    OpenSupplies
<1>3. ASSUME OpenDeliveries(m) = {}, OpenSupplies(m) = {}, NEW s \in EligibleUnclaimed(m)
      PROVE  FALSE
  <2>1. s \in SupplyIds /\ supply[s].machine = m /\ supply[s].status # "OPEN"
    BY <1>3 DEF EligibleUnclaimed, OpenSupplies
  <2>2. supply[s].delivery # 0 /\ delivery[supply[s].delivery].status \in OpenStatus
    BY <1>3, <2>1 DEF EligibleUnclaimed, isEligibleSupply
  <2>3. supply[s].delivery \in OpenDeliveries(m)
    BY <2>1, <2>2, Answer DEF Together, OpenDeliveries
  <2> QED BY <1>3, <2>3
<1>4. ASSUME NEW p \in L.pickups, canCancelPickupRequest(p, L), LinkedPalletWaits(p)
      PROVE  FALSE
  <2>1. p \in PickupIds /\ pickup[p].machine = m
    BY <1>1
  <2>2. /\ pickup[p].link # 0 /\ supply[pickup[p].link].delivery # 0
        /\ delivery[supply[pickup[p].link].delivery].status = "CREATED"
        /\ delivery[supply[pickup[p].link].delivery].prepared
    BY <1>4 DEF LinkedPalletWaits
  <2>3. pickup[p].link \in L.supplies /\ pickup[p].link \in SupplyIds
    BY <1>1, <2>1, <2>2, OneLink DEF Together
  <2>4. supply[pickup[p].link].delivery \in L.deliveries
    BY <1>1, <2>2, <2>3, Answer DEF Together
  <2>5. findDeliveryForPickup(p, L) = supply[pickup[p].link].delivery
    BY <2>2, <2>3, <2>4 DEF findDeliveryForPickup, findSupplyForPickup, FoundIn
  <2> QED BY <1>4, <2>2, <2>5 DEF canCancelPickupRequest
<1> QED BY <1>2, <1>3, <1>4 DEF L, canRequestSupply, canRequestPickupWithReplenishment,
                                canCancelPickupRequest

\* What an up-to-date screen offers the server does not refuse, for any number of machines,
\* as long as what belongs together is at one.
THEOREM OffersHoldTogether == ASSUME OneSlot PROVE Spec => [](Together => OfferedIsAccepted)
<1>1. TInv => (Together => OfferedIsAccepted)
  BY OffersAccepted
<1> QED BY <1>1, AlwaysTInv, PTL
-----------------------------------------------------------------------------
(* What the TV monitor shows.                                              *)

\* A request is of some machine, and fulfilled by a delivery.
RequestsGood ==
  \A s \in SupplyIds : /\ supply[s].status # "ABSENT" => supply[s].machine \in Machines
                       /\ supply[s].status = "FULFILLED" => supply[s].delivery # 0

\* A cancelled request takes no pickup with it that goes on.
LiveLinks ==
  \A p \in PickupIds : pickup[p].link # 0 /\ pickup[p].status \in OpenStatus =>
    supply[pickup[p].link].status # "CANCELLED"

LEMMA InTvLists ==
  ASSUME NEW m
  PROVE  /\ TvLists(m).deliveries = {d \in DeliveryIds : delivery[d].machine = m /\ tvDelivery(d)}
         /\ TvLists(m).pickups = {p \in PickupIds : pickup[p].machine = m /\ isOpenPickup(p)}
         /\ TvLists(m).supplies = {s \in SupplyIds : supply[s].machine = m /\ tvSupply(s)}
BY DEF TvLists

\* The only request of a delivery is the one that is looked up.
LEMMA SupplyOfAnswer ==
  ASSUME TInv, NEW s \in SupplyIds, supply[s].delivery # 0
  PROVE  SupplyOf(supply[s].delivery) = s
<1>1. SupplyOf(supply[s].delivery) # 0
  BY SupplyOfNone
<1> QED BY <1>1, SupplyOfIs, Answer

\* The query of the TV monitor keeps the request that an open pickup is linked to, and the
\* delivery of that.
LEMMA LinkedOnTv ==
  ASSUME TInv, Together, RequestsGood, LiveLinks, NEW p \in PickupIds, isOpenPickup(p),
         pickup[p].link # 0
  PROVE  LET s == pickup[p].link IN
         /\ s \in SupplyIds /\ supply[s].machine = pickup[p].machine /\ tvSupply(s)
         /\ supply[s].delivery # 0 =>
              /\ supply[s].delivery \in DeliveryIds /\ tvDelivery(supply[s].delivery)
              /\ delivery[supply[s].delivery].machine = pickup[p].machine
<1> DEFINE s == pickup[p].link
           d == supply[s].delivery
<1>1. s \in SupplyIds /\ supply[s].machine = pickup[p].machine
  BY OneLink DEF Together
<1>2. supply[s].status \in {"OPEN", "FULFILLED"}
  BY <1>1, Typed, OneLink DEF SupplyRow, LiveLinks, isOpenPickup
<1>3. ASSUME d # 0
      PROVE  /\ d \in DeliveryIds /\ delivery[d].machine = pickup[p].machine
             /\ isOpenDelivery(d) \/ delivery[d].status = "COMPLETED"
             /\ SupplyOf(d) = s
  <2>1. d \in DeliveryIds /\ delivery[d].status \notin {"ABSENT", "CANCELED"}
    BY <1>1, <1>2, <1>3, Answer
  <2>2. delivery[d].status \in TaskStatus
    BY <2>1, Typed DEF GoodDelivery, DeliveryRow
  <2>3. delivery[d].machine = supply[s].machine
    BY <1>1, <1>3 DEF Together
  <2> QED BY <1>1, <1>3, <2>1, <2>2, <2>3, SupplyOfAnswer
          DEF TaskStatus, isOpenDelivery, OpenStatus
<1>4. d # 0 => tvDelivery(d)
  <2> SUFFICES ASSUME d # 0 PROVE tvDelivery(d)
    OBVIOUS
  <2>1. SupplyOf(d) # 0 /\ pickup[p].link = SupplyOf(d)
    BY <1>3
  <2> QED BY <1>3, <2>1 DEF tvDelivery
<1>5. tvSupply(s)
  <2>1. CASE supply[s].status = "OPEN"
    BY <2>1 DEF tvSupply
  <2>2. CASE supply[s].status = "FULFILLED"
    <3>1. d # 0
      BY <1>1, <2>2 DEF RequestsGood
    <3> QED BY <1>3, <2>2, <3>1 DEF tvSupply
  <2> QED BY <1>2, <2>1, <2>2
<1> QED BY <1>1, <1>3, <1>4, <1>5

\* The lists of the TV monitor show as many requests, pickups and open deliveries.
LEMMA TvFinds ==
  ASSUME TInv, Together, RequestsGood, LiveLinks, NEW m
  PROVE  LET T == TvLists(m)
             F == MachineLists(m)
         IN  /\ PickupRows(T) = PickupRows(F)
             /\ {d \in T.deliveries : isOpenDelivery(d)} = {d \in F.deliveries : isOpenDelivery(d)}
             /\ \A s : hasActiveLinkedPickup(s, T) = hasActiveLinkedPickup(s, F)
             /\ \A d \in DeliveryIds : isOpenDelivery(d) =>
                  findSupplyForDeliveryTask(d, T) = findSupplyForDeliveryTask(d, F)
             /\ \A p \in PickupRows(F) :
                  /\ findSupplyForPickup(p, T) = findSupplyForPickup(p, F)
                  /\ findDeliveryForPickup(p, T) = findDeliveryForPickup(p, F)
<1> DEFINE T == TvLists(m)
           F == MachineLists(m)
<1>1. /\ F.deliveries = {d \in DeliveryIds : delivery[d].machine = m}
      /\ F.pickups = {p \in PickupIds : pickup[p].machine = m}
      /\ F.supplies = {s \in SupplyIds : supply[s].machine = m}
  BY InLists
<1>2. /\ T.deliveries = {d \in DeliveryIds : delivery[d].machine = m /\ tvDelivery(d)}
      /\ T.pickups = {p \in PickupIds : pickup[p].machine = m /\ isOpenPickup(p)}
      /\ T.supplies = {s \in SupplyIds : supply[s].machine = m /\ tvSupply(s)}
  BY InTvLists
<1> HIDE DEF T, F
<1>3. PickupRows(T) = PickupRows(F)
  BY <1>1, <1>2 DEF PickupRows
<1>4. {d \in T.deliveries : isOpenDelivery(d)} = {d \in F.deliveries : isOpenDelivery(d)}
  BY <1>1, <1>2 DEF tvDelivery
<1>5. ASSUME NEW s PROVE hasActiveLinkedPickup(s, T) = hasActiveLinkedPickup(s, F)
  BY <1>1, <1>2 DEF hasActiveLinkedPickup
<1>6. ASSUME NEW d \in DeliveryIds, isOpenDelivery(d)
      PROVE  findSupplyForDeliveryTask(d, T) = findSupplyForDeliveryTask(d, F)
  <2>1. ASSUME NEW s \in SupplyIds, supply[s].delivery = d PROVE tvSupply(s)
    <3>1. d # 0 /\ delivery[d].status # "CANCELED"
      BY <1>6, NotNull DEF isOpenDelivery, OpenStatus
    <3> QED BY <1>6, <2>1, <3>1, Answer DEF tvSupply
  <2>2. {s \in T.supplies : supply[s].delivery = d} = {s \in F.supplies : supply[s].delivery = d}
    BY <1>1, <1>2, <2>1
  <2> QED BY <2>2 DEF findSupplyForDeliveryTask
<1>7. ASSUME NEW p \in PickupRows(F)
      PROVE  /\ findSupplyForPickup(p, T) = findSupplyForPickup(p, F)
             /\ findDeliveryForPickup(p, T) = findDeliveryForPickup(p, F)
  <2> DEFINE s == pickup[p].link
             d == supply[s].delivery
  <2>1. p \in PickupIds /\ pickup[p].machine = m /\ isOpenPickup(p)
    BY <1>1 DEF PickupRows
  <2>2. 0 \notin T.supplies /\ 0 \notin F.supplies /\ 0 \notin T.deliveries /\ 0 \notin F.deliveries
    BY <1>1, <1>2, NotNull
  <2>3. CASE s = 0
    BY <2>2, <2>3 DEF findSupplyForPickup, findDeliveryForPickup, FoundIn
  <2>4. CASE s # 0
    <3>1. s \in T.supplies /\ s \in F.supplies
      BY <1>1, <1>2, <2>1, <2>4, LinkedOnTv
    <3>2. d # 0 => d \in T.deliveries /\ d \in F.deliveries
      BY <1>1, <1>2, <2>1, <2>4, LinkedOnTv
    <3>3. findSupplyForPickup(p, T) = s /\ findSupplyForPickup(p, F) = s
      BY <3>1 DEF findSupplyForPickup, FoundIn
    <3>4. FoundIn(d, T.deliveries) = FoundIn(d, F.deliveries)
      BY <2>2, <3>2 DEF FoundIn
    <3> QED BY <3>3, <3>4 DEF findDeliveryForPickup
  <2> QED BY <2>3, <2>4
<1> QED BY <1>3, <1>4, <1>5, <1>6, <1>7 DEF T, F

\* A request has a card on the TV monitor when it has one on the machine's screen, at the
\* same step.
LEMMA TvRequests ==
  ASSUME TInv, Together, RequestsGood, LiveLinks, NEW m, NEW s
  PROVE  LET T == TvLists(m)
             F == MachineLists(m)
         IN  /\ s \in SupplyRows(T) <=> s \in SupplyRows(F)
             /\ s \in SupplyRows(F) =>
                  findDeliveryForSupplyRequest(s, T) = findDeliveryForSupplyRequest(s, F)
<1> DEFINE T == TvLists(m)
           F == MachineLists(m)
           d == supply[s].delivery
<1>1. /\ F.deliveries = {e \in DeliveryIds : delivery[e].machine = m}
      /\ F.supplies = {k \in SupplyIds : supply[k].machine = m}
      /\ T.deliveries = {e \in DeliveryIds : delivery[e].machine = m /\ tvDelivery(e)}
      /\ T.supplies = {k \in SupplyIds : supply[k].machine = m /\ tvSupply(k)}
  BY InLists, InTvLists
<1>2. hasActiveLinkedPickup(s, T) = hasActiveLinkedPickup(s, F)
  BY TvFinds
<1>3. {e \in T.deliveries : isOpenDelivery(e)} = {e \in F.deliveries : isOpenDelivery(e)}
  BY TvFinds
<1>4. F.pickups = {p \in PickupIds : pickup[p].machine = m}
  BY InLists
<1> HIDE DEF T, F
<1>5. CASE s \in F.supplies /\ supply[s].status = "OPEN"
  <2>1. s \in T.supplies
    BY <1>1, <1>5 DEF tvSupply
  <2>2. d = 0
    BY <1>1, <1>5 DEF TInv, RowsFit, SupplyGood
  <2>3. findDeliveryForSupplyRequest(s, T) = findDeliveryForSupplyRequest(s, F)
    BY <1>3, <1>5, <2>2 DEF findDeliveryForSupplyRequest
  <2> QED BY <1>2, <1>5, <2>1, <2>3 DEF SupplyRows, T, F
<1>6. CASE s \in F.supplies /\ supply[s].status = "FULFILLED" /\ ~ hasActiveLinkedPickup(s, F)
  <2>1. s \in SupplyIds /\ d # 0 /\ d \in F.deliveries /\ delivery[d].status \notin {"ABSENT", "CANCELED"}
    BY <1>1, <1>6, Answer DEF RequestsGood, Together
  <2>2. findDeliveryForSupplyRequest(s, F) = d
    BY <2>1 DEF findDeliveryForSupplyRequest, FoundIn
  <2>3. CASE isOpenDelivery(d)
    <3>1. d \in T.deliveries /\ s \in T.supplies
      BY <1>1, <1>6, <2>1, <2>3 DEF tvDelivery, tvSupply
    <3>2. findDeliveryForSupplyRequest(s, T) = d
      BY <2>1, <3>1 DEF findDeliveryForSupplyRequest, FoundIn
    <3> QED BY <1>2, <1>6, <2>1, <2>2, <3>1, <3>2 DEF SupplyRows, T, F
  <2>4. CASE ~ isOpenDelivery(d)
    <3>1. delivery[d].status = "COMPLETED"
      <4>1. d \in DeliveryIds
        BY <1>1, <2>1
      <4>2. delivery[d].status \in TaskStatus
        BY <4>1, Typed DEF GoodDelivery, DeliveryRow
      <4> QED BY <2>1, <2>4, <4>2 DEF TaskStatus, isOpenDelivery, OpenStatus
    <3>2. s \notin SupplyRows(F)
      BY <1>6, <2>1, <2>2, <3>1 DEF SupplyRows
    <3>3. s \notin T.supplies
      <4> SUFFICES ASSUME tvSupply(s) PROVE FALSE
        BY <1>1
      <4>1. PICK p \in PickupIds : pickup[p].link = s /\ isOpenPickup(p)
        BY <1>6, <2>4 DEF tvSupply
      <4>2. pickup[p].machine = m
        BY <1>1, <1>6, <2>1, <4>1, NotNull DEF Together
      <4> QED BY <1>4, <1>6, <4>1, <4>2 DEF hasActiveLinkedPickup
    <3> QED BY <3>2, <3>3 DEF SupplyRows, T, F
  <2> QED BY <2>3, <2>4
<1>7. CASE ~ (s \in F.supplies /\ supply[s].status = "OPEN")
           /\ ~ (s \in F.supplies /\ supply[s].status = "FULFILLED" /\ ~ hasActiveLinkedPickup(s, F))
  <2>1. s \notin SupplyRows(F)
    BY <1>7 DEF SupplyRows
  <2>2. s \in T.supplies => s \in F.supplies
    BY <1>1
  <2>3. s \notin SupplyRows(T)
    BY <1>2, <1>7, <2>2 DEF SupplyRows
  <2> QED BY <2>1, <2>3 DEF T, F
<1> QED BY <1>5, <1>6, <1>7

\* The cards are the same, with the same steps, and what they stand on is.
LEMMA TvCards ==
  ASSUME TInv, Together, RequestsGood, LiveLinks, NEW m
  PROVE  Cards(TvLists(m)) = Cards(MachineLists(m))
<1> DEFINE T == TvLists(m)
           F == MachineLists(m)
<1>1. PickupRows(T) = PickupRows(F)
  BY TvFinds
<1>2. SupplyRows(T) = SupplyRows(F)
  BY TvRequests
<1>3. DeliveryRows(T) = DeliveryRows(F)
  <2>1. {d \in T.deliveries : isOpenDelivery(d)} = {d \in F.deliveries : isOpenDelivery(d)}
    BY TvFinds
  <2>2. \A d \in DeliveryIds : isOpenDelivery(d) =>
          findSupplyForDeliveryTask(d, T) = findSupplyForDeliveryTask(d, F)
    BY TvFinds
  <2>3. \A s : hasActiveLinkedPickup(s, T) = hasActiveLinkedPickup(s, F)
    BY TvFinds
  <2>4. F.deliveries \subseteq DeliveryIds
    BY InLists
  <2> HIDE DEF T, F
  <2> QED BY <2>1, <2>2, <2>3, <2>4 DEF DeliveryRows
<1> HIDE DEF T, F
<1>4. Cards(T) = Cards(F)
  BY <1>1, <1>2, <1>3 DEF Cards
<1> QED BY <1>4 DEF T, F

LEMMA TvSeen ==
  ASSUME TInv, Together, RequestsGood, LiveLinks, NEW m, NEW c \in Cards(MachineLists(m))
  PROVE  LET T == TvLists(m)
             F == MachineLists(m)
         IN  /\ stepOf(c, T) = stepOf(c, F)
             /\ operatorMachineRowIsAccepted(c, T) = operatorMachineRowIsAccepted(c, F)
             /\ operatorMachineRowTimerStart(c, T) = operatorMachineRowTimerStart(c, F)
<1> DEFINE T == TvLists(m)
           F == MachineLists(m)
<1>1. CASE \E d \in DeliveryRows(F) : c = <<"DELIVERY", d>>
  <2>1. c[1] = "DELIVERY"
    BY <1>1
  <2> HIDE DEF T, F
  <2>2. stepOf(c, T) = stepOf(c, F)
    BY <2>1 DEF stepOf
  <2>3. operatorMachineRowIsAccepted(c, T) = operatorMachineRowIsAccepted(c, F)
    BY <2>1 DEF operatorMachineRowIsAccepted
  <2>4. operatorMachineRowTimerStart(c, T) = operatorMachineRowTimerStart(c, F)
    BY <2>1 DEF operatorMachineRowTimerStart
  <2> QED BY <2>2, <2>3, <2>4 DEF T, F
<1>2. ASSUME NEW p \in PickupRows(F), c = <<"PICKUP", p>>
      PROVE  /\ stepOf(c, T) = stepOf(c, F)
             /\ operatorMachineRowIsAccepted(c, T) = operatorMachineRowIsAccepted(c, F)
             /\ operatorMachineRowTimerStart(c, T) = operatorMachineRowTimerStart(c, F)
  <2>1. /\ findSupplyForPickup(p, T) = findSupplyForPickup(p, F)
        /\ findDeliveryForPickup(p, T) = findDeliveryForPickup(p, F)
    BY TvFinds
  <2> HIDE DEF T, F
  <2>2. c[1] = "PICKUP" /\ c[2] = p
    BY <1>2
  <2>3. supplyOn(c, T) = supplyOn(c, F) /\ deliveryOn(c, T) = deliveryOn(c, F)
    <3>1. ASSUME NEW L
          PROVE  /\ supplyOn(c, L) = findSupplyForPickup(p, L)
                 /\ deliveryOn(c, L) = findDeliveryForPickup(p, L)
      BY <1>2, OnCard
    <3> QED BY <2>1, <3>1
  <2>4. replenishmentPickupActiveStep(p, T) = replenishmentPickupActiveStep(p, F)
    BY <2>1 DEF replenishmentPickupActiveStep
  <2>5. stepOf(c, T) = stepOf(c, F)
    BY <2>2, <2>4 DEF stepOf
  <2>6. operatorMachineRowIsAccepted(c, T) = operatorMachineRowIsAccepted(c, F)
    BY <2>2, <2>3 DEF operatorMachineRowIsAccepted
  <2>7. operatorMachineRowTimerStart(c, T) = operatorMachineRowTimerStart(c, F)
    BY <2>2, <2>3 DEF operatorMachineRowTimerStart
  <2> QED BY <2>5, <2>6, <2>7
<1>3. ASSUME NEW s \in SupplyRows(F), c = <<"SUPPLY", s>>
      PROVE  /\ stepOf(c, T) = stepOf(c, F)
             /\ operatorMachineRowIsAccepted(c, T) = operatorMachineRowIsAccepted(c, F)
             /\ operatorMachineRowTimerStart(c, T) = operatorMachineRowTimerStart(c, F)
  <2>1. findDeliveryForSupplyRequest(s, T) = findDeliveryForSupplyRequest(s, F)
    BY TvRequests
  <2> HIDE DEF T, F
  <2>2. c[1] = "SUPPLY" /\ c[2] = s
    BY <1>3
  <2>3. stepOf(c, T) = stepOf(c, F)
    BY <2>1, <2>2 DEF stepOf, supplyOnlyStep
  <2>4. operatorMachineRowIsAccepted(c, T) = operatorMachineRowIsAccepted(c, F)
    BY <2>2 DEF operatorMachineRowIsAccepted
  <2>5. operatorMachineRowTimerStart(c, T) = operatorMachineRowTimerStart(c, F)
    BY <2>2 DEF operatorMachineRowTimerStart
  <2> QED BY <2>3, <2>4, <2>5
<1> HIDE DEF T
<1> QED BY <1>1, <1>2, <1>3, CardKinds DEF T

LEMMA TvShows ==
  ASSUME TInv, Together, RequestsGood, LiveLinks
  PROVE  TvShowsMachineCards
<1> SUFFICES ASSUME NEW m \in Machines
             PROVE  CardsSeen(TvLists(m)) = CardsSeen(MachineLists(m))
  BY DEF TvShowsMachineCards
<1> DEFINE seenOn(c, L) == [card |-> c, step |-> stepOf(c, L),
                            accepted |-> operatorMachineRowIsAccepted(c, L),
                            timer |-> operatorMachineRowTimerStart(c, L)]
<1>1. \A c \in Cards(MachineLists(m)) : seenOn(c, TvLists(m)) = seenOn(c, MachineLists(m))
  BY TvSeen
<1>2. /\ CardsSeen(TvLists(m)) = {seenOn(c, TvLists(m)) : c \in Cards(TvLists(m))}
      /\ CardsSeen(MachineLists(m)) = {seenOn(c, MachineLists(m)) : c \in Cards(MachineLists(m))}
  BY DEF CardsSeen
<1> HIDE DEF seenOn
<1> QED BY <1>1, <1>2, TvCards
-----------------------------------------------------------------------------
(* "Minhas tarefas".                                                       *)

\* Who has a task in hand drives something.
Driving == \A o \in Operators : mode[o] = "NONE" => HandsFree(o)

\* What a trip that was accepted delivers does not wait.
TripsLeft ==
  \A r \in TripIds : trip[r].status = "ACCEPTED" => delivery[trip[r].deliver].status # "CREATED"

LEMMA TasksShown ==
  ASSUME TInv, Driving
  PROVE  TasksInHandShown
<1> SUFFICES ASSUME NEW o \in Operators
             PROVE  /\ \A d \in OpenDeliveriesOf(o) : <<"deliver", d>> \in groupOpenTasks(o)
                    /\ \A p \in OpenPickupsOf(o) : <<"pickup", p>> \in groupOpenTasks(o)
  BY DEF TasksInHandShown
<1>1. /\ \A d, e \in OpenDeliveriesOf(o) : d = e
      /\ \A p, k \in OpenPickupsOf(o) : p = k
  BY DEF TInv, RowsFit, HandsGood
<1>2. OpenDeliveriesOf(o) \subseteq Int /\ OpenPickupsOf(o) \subseteq Int
  BY BoundsAssumption DEF OpenDeliveriesOf, OpenPickupsOf, DeliveryIds, PickupIds
<1>3. ASSUME NEW x \in assignedTasks(o)
      PROVE  /\ x[2] \in Int
             /\ \A y \in assignedTasks(o) : x[1] = y[1] => y[2] = x[2]
  BY <1>1, <1>2 DEF assignedTasks
<1>4. \A x \in assignedTasks(o) : x \in groupOpenTasks(o)
  BY <1>3 DEF groupOpenTasks
<1>5. ASSUME mode[o] # "NONE"
      PROVE  /\ \A d \in OpenDeliveriesOf(o) : <<"deliver", d>> \in assignedTasks(o)
             /\ \A p \in OpenPickupsOf(o) : <<"pickup", p>> \in assignedTasks(o)
  BY <1>5 DEF assignedTasks
<1>6. mode[o] = "NONE" => OpenDeliveriesOf(o) = {} /\ OpenPickupsOf(o) = {}
  BY DEF Driving, HandsFree
<1> QED BY <1>4, <1>5, <1>6

\* The card of an accepted trip offers the pickup when the pallet is delivered, or is not
\* this transporter's to deliver.
InOrderOrShared ==
  \A r \in TripIds, o \in Operators :
    trip[r].status = "ACCEPTED" /\ <<"pickup", trip[r].pickup>> \in CardButton(o) =>
      \/ delivery[trip[r].deliver].status = "COMPLETED"
      \/ /\ delivery[trip[r].deliver].status = "ASSIGNED"
         /\ delivery[trip[r].deliver].op # o

LEMMA LedInOrder ==
  ASSUME TInv, Driving, Together, LiveLinks, TripsLeft
  PROVE  InOrderOrShared
<1> SUFFICES ASSUME NEW r \in TripIds, NEW o \in Operators, trip[r].status = "ACCEPTED",
                    <<"pickup", trip[r].pickup>> \in CardButton(o)
             PROVE  \/ delivery[trip[r].deliver].status = "COMPLETED"
                    \/ /\ delivery[trip[r].deliver].status = "ASSIGNED"
                       /\ delivery[trip[r].deliver].op # o
  BY DEF InOrderOrShared
<1> DEFINE d == trip[r].deliver
           p == trip[r].pickup
           s == pickup[p].link
<1>1. d \in DeliveryIds /\ p \in PickupIds /\ isLive(r) /\ d # 0
  BY Typed, NotNull DEF GoodTrip, isLive
<1>2. p \in OpenPickupsOf(o) /\ onSameCard(<<"pickup", p>>, o) = {}
  <2>1. <<"pickup", p>> \in assignedTasks(o)
    BY DEF CardButton, groupOpenTasks
  <2>2. p \in OpenPickupsOf(o)
    BY <2>1 DEF assignedTasks
  <2> QED BY <2>2 DEF CardButton
<1>3. pickup[p].status \in OpenStatus
  BY <1>2 DEF OpenPickupsOf
<1>4. delivery[d].status # "ABSENT" /\ s # 0 /\ supply[s].delivery = d
  BY <1>1, <1>3 DEF TInv, RowsFit, TripsGood, isLinkedPair
<1>5. delivery[d].status # "CANCELED"
  BY <1>1, <1>3, <1>4, OneLink, Answer DEF LiveLinks
<1>6. delivery[d].status # "CREATED"
  BY DEF TripsLeft
<1>7. delivery[d].status \in {"ASSIGNED", "COMPLETED"}
  BY <1>1, <1>4, <1>5, <1>6, Typed DEF GoodDelivery, DeliveryRow, TaskStatus
<1>8. ASSUME delivery[d].status = "ASSIGNED", delivery[d].op = o PROVE FALSE
  <2>1. d \in OpenDeliveriesOf(o)
    BY <1>1, <1>8 DEF OpenDeliveriesOf, OpenStatus
  <2>2. <<"deliver", d>> \in groupOpenTasks(o)
    BY <2>1, TasksShown DEF TasksInHandShown
  <2>3. delivery[d].machine = pickup[p].machine
    BY <1>1, <1>4, OneLink DEF Together
  <2>4. MachineOf(<<"deliver", d>>) = MachineOf(<<"pickup", p>>)
    BY <2>3 DEF MachineOf
  <2>5. <<"deliver", d>> # <<"pickup", p>>
    OBVIOUS
  <2>6. <<"deliver", d>> \in onSameCard(<<"pickup", p>>, o)
    BY <2>2, <2>4, <2>5 DEF onSameCard
  <2> QED BY <1>2, <2>6
<1> QED BY <1>7, <1>8

OneOperator == \A o, k \in Operators : o = k

LEMMA InOrder ==
  ASSUME TInv, Driving, InOrderOrShared, OneOperator
  PROVE  TripCompletedInOrder
<1> SUFFICES ASSUME NEW r \in TripIds, NEW o \in Operators
             PROVE  /\ goToAvailableTasks(o) =>
                         trip[r].deliver \notin OpenDeliveriesOf(o) /\ trip[r].pickup \notin OpenPickupsOf(o)
                    /\ trip[r].status = "ACCEPTED" /\ <<"pickup", trip[r].pickup>> \in CardButton(o) =>
                         delivery[trip[r].deliver].status = "COMPLETED"
  BY DEF TripCompletedInOrder
<1>1. ASSUME goToAvailableTasks(o)
      PROVE  OpenDeliveriesOf(o) = {} /\ OpenPickupsOf(o) = {}
  BY <1>1, TasksShown DEF TasksInHandShown, goToAvailableTasks, groupOpenTasks
<1>2. ASSUME trip[r].status = "ACCEPTED", <<"pickup", trip[r].pickup>> \in CardButton(o)
      PROVE  delivery[trip[r].deliver].status = "COMPLETED"
  <2>1. trip[r].deliver \in DeliveryIds
    BY <1>2, Typed DEF GoodTrip
  <2>2. delivery[trip[r].deliver].status = "ASSIGNED" => delivery[trip[r].deliver].op = o
    BY <2>1, Typed DEF GoodDelivery, isSomebodys, OneOperator
  <2> QED BY <1>2, <2>2 DEF InOrderOrShared
<1> QED BY <1>1, <1>2
-----------------------------------------------------------------------------
(* How the requests for a pallet move.                                     *)

\* What a step may do with request s.
RequestMoves(s) ==
  LET old == supply[s]
      new == supply'[s]
  IN  /\ new.status # "ABSENT" => new.machine \in Machines
      /\ new.status = "FULFILLED" => new.delivery # 0
      /\ old.status # "ABSENT" => new.status # "ABSENT" /\ new.machine = old.machine
      /\ old.status \notin {"ABSENT", "OPEN"} => new.status # "OPEN" /\ new.delivery = old.delivery
      /\ new.status = "CANCELLED" =>
           old.status = "CANCELLED" \/ \E w \in Slots : FinishCancel(w) /\ job[w].s = s

LEMMA RequestCreated ==
  ASSUME TInv, RequestsGood, NEW s \in SupplyIds, NEW row, IsNextId(s, supply),
         supply' = [supply EXCEPT ![s] = row], row.machine \in Machines,
         row.status = "FULFILLED" => row.delivery # 0, row.status # "CANCELLED"
  PROVE  \A k \in SupplyIds : RequestMoves(k)
<1>1. supply'[s] = row /\ \A k \in SupplyIds \ {s} : supply'[k] = supply[k]
  BY DEF TInv, SInv, IInv, RowsGood
<1>2. supply[s].status = "ABSENT"
  BY DEF IsNextId
<1>3. RequestMoves(s)
  BY <1>1, <1>2 DEF RequestMoves
<1>4. ASSUME NEW k \in SupplyIds \ {s} PROVE RequestMoves(k)
  <2>1. supply'[k] = supply[k] /\ k \in SupplyIds
    BY <1>1
  <2>2. supply[k].status \notin {"ABSENT", "OPEN"} => supply[k].status # "OPEN"
    OBVIOUS
  <2> QED BY <2>1, <2>2 DEF RequestMoves, RequestsGood
<1> QED BY <1>3, <1>4

LEMMA RequestsKept ==
  ASSUME TInv, RequestsGood, UNCHANGED supply
  PROVE  \A k \in SupplyIds : RequestMoves(k)
BY DEF RequestMoves, RequestsGood

LEMMA DeliveryAnswers ==
  ASSUME TInv, RequestsGood, NEW w \in Slots, NEW m, NEW t, NEW ready, NEW named,
         CreateDelivery(w, m, t, ready, named)
  PROVE  \A s \in SupplyIds : RequestMoves(s)
<1>1. PICK d \in DeliveryIds :
        supply' = [s \in SupplyIds |->
                     IF s \in FulfilledBy(m, named)
                     THEN [supply[s] EXCEPT !.status = "FULFILLED", !.delivery = d]
                     ELSE supply[s]]
  BY DEF CreateDelivery
<1> TAKE s \in SupplyIds
<1>2. supply[s] \in SupplyRow
  BY Typed
<1>3. CASE s \in FulfilledBy(m, named)
  <2>1. supply[s].status = "OPEN"
    BY <1>3 DEF FulfilledBy, OpenSupplies
  <2>2. supply'[s] = [supply[s] EXCEPT !.status = "FULFILLED", !.delivery = d]
    BY <1>1, <1>3
  <2>3. /\ supply'[s].status = "FULFILLED" /\ supply'[s].delivery = d
        /\ supply'[s].machine = supply[s].machine
    BY <1>2, <2>2 DEF SupplyRow
  <2> QED BY <2>1, <2>3, NotNull DEF RequestMoves, RequestsGood
<1>4. CASE s \notin FulfilledBy(m, named)
  <2>1. supply'[s] = supply[s]
    BY <1>1, <1>4
  <2> QED BY <2>1 DEF RequestMoves, RequestsGood
<1> QED BY <1>3, <1>4

\* What the transaction of a cancellation does to the requests, and that it takes one that
\* is there.
LEMMA RequestCancelled ==
  ASSUME TInv, NEW w \in Slots, FinishCancel(w)
  PROVE  LET j == job[w] IN
         /\ j.kind = "cancelTx" /\ j.p \in PickupIds /\ j.s \in SupplyIds \cup {0}
         /\ j.s # 0 => supply[j.s].status # "ABSENT"
         /\ \A s \in SupplyIds : s # j.s => supply'[s] = supply[s]
         /\ j.s # 0 => /\ supply'[j.s].status = "CANCELLED"
                       /\ supply'[j.s].machine = supply[j.s].machine
                       /\ supply'[j.s].delivery = supply[j.s].delivery
         /\ pickup'[j.p].status = "CANCELED" /\ pickup'[j.p].link = 0
         /\ pickup'[j.p].machine = pickup[j.p].machine /\ pickup[j.p].status = "CREATED"
         /\ \A k \in PickupIds \ {j.p} : pickup'[k] = pickup[k]
<1> DEFINE j == job[w]
<1>1. /\ j.kind = "cancelTx" /\ j.p \in PickupIds /\ j.s \in SupplyIds \cup {0}
      /\ pickup[j.p].status = "CREATED"
      /\ j.d # 0 => j.s # 0 /\ supply[j.s].delivery = j.d
      /\ j.d = 0 /\ j.s # 0 => supply[j.s].status = "OPEN"
  <2>1. j.kind = "cancelTx" /\ j \in CancelTxJob
    BY Typed, JobShape DEF FinishCancel
  <2> QED BY <2>1 DEF CancelTxJob, TInv, SInv, Fresh, Recalls
<1>2. j.s # 0 => supply[j.s].status # "ABSENT"
  <2>1. j.s # 0 => j.s \in SupplyIds
    BY <1>1
  <2> QED BY <1>1, <2>1 DEF TInv, RowsFit, SupplyGood
<1>3. supply \in [SupplyIds -> SupplyRow] /\ pickup \in [PickupIds -> PickupRow]
  BY Typed DEF GoodPickup, TInv, SInv, IInv, RowsGood
<1>4. /\ \A s \in SupplyIds : s # j.s => supply'[s] = supply[s]
      /\ j.s # 0 => /\ supply'[j.s].status = "CANCELLED"
                    /\ supply'[j.s].machine = supply[j.s].machine
                    /\ supply'[j.s].delivery = supply[j.s].delivery
  <2>1. CASE j.s = 0
    BY <2>1 DEF FinishCancel
  <2>2. CASE j.s \in SupplyIds /\ j.s # 0
    <3>1. supply' = [supply EXCEPT ![j.s].status = "CANCELLED"]
      BY <2>2 DEF FinishCancel
    <3> QED BY <1>3, <2>2, <3>1 DEF SupplyRow
  <2> QED BY <1>1, <2>1, <2>2
<1>5. /\ pickup'[j.p].status = "CANCELED" /\ pickup'[j.p].link = 0
      /\ pickup'[j.p].machine = pickup[j.p].machine
      /\ \A k \in PickupIds \ {j.p} : pickup'[k] = pickup[k]
  BY <1>1, <1>3 DEF FinishCancel, PickupRow
<1> QED BY <1>1, <1>2, <1>4, <1>5

LEMMA RequestsMove ==
  ASSUME TInv, RequestsGood, [Next]_vars
  PROVE  \A s \in SupplyIds : RequestMoves(s)
<1>1. CASE UNCHANGED supply
  BY <1>1, RequestsKept
<1>2. ASSUME NEW w \in Slots, NEW m \in Machines, NEW t \in TaskTypes, NEW ready \in BOOLEAN,
             NEW named \in SupplyIds \cup {0}, CreateDelivery(w, m, t, ready, named)
      PROVE  \A s \in SupplyIds : RequestMoves(s)
  BY <1>2, DeliveryAnswers
<1>3. ASSUME NEW w \in Slots, CreateOrphanSupply(w)
      PROVE  \A s \in SupplyIds : RequestMoves(s)
  <2> DEFINE row == NewSupply(job[w].dm, "FULFILLED", job[w].d)
  <2>1. job[w].d \in DeliveryIds /\ job[w].dm \in Machines
    <3>1. job[w] \in OrphanJob
      BY <1>3, Typed, JobShape DEF CreateOrphanSupply
    <3> QED BY <3>1 DEF OrphanJob
  <2>2. row.machine \in Machines /\ row.delivery # 0 /\ row.status # "CANCELLED"
    BY <2>1, NotNull DEF NewSupply
  <2>3. UNCHANGED supply \/ \E s \in SupplyIds : IsNextId(s, supply) /\ supply' = [supply EXCEPT ![s] = row]
    BY <1>3 DEF CreateOrphanSupply
  <2> HIDE DEF row
  <2>4. ASSUME NEW s \in SupplyIds, IsNextId(s, supply), supply' = [supply EXCEPT ![s] = row]
        PROVE  \A k \in SupplyIds : RequestMoves(k)
    BY <2>2, <2>4, RequestCreated
  <2> QED BY <1>1, <2>3, <2>4
<1>4. ASSUME NEW w \in Slots, CreateSupply(w) \/ CreateBoth(w)
      PROVE  \A s \in SupplyIds : RequestMoves(s)
  <2> DEFINE row == NewSupply(job[w].m, "OPEN", 0)
  <2>1. job[w].m \in Machines
    <3>1. job[w] \in NewSupplyJob \cup NewPairJob
      BY <1>4, Typed, JobShape DEF CreateSupply, CreateBoth
    <3> QED BY <3>1 DEF NewSupplyJob, NewPairJob
  <2>2. row.machine \in Machines /\ row.status \notin {"FULFILLED", "CANCELLED"}
    BY <2>1 DEF NewSupply
  <2>3. PICK s \in SupplyIds : IsNextId(s, supply) /\ supply' = [supply EXCEPT ![s] = row]
    BY <1>4 DEF CreateSupply, CreateBoth
  <2> HIDE DEF row
  <2> QED BY <2>2, <2>3, RequestCreated
<1>5. ASSUME NEW w \in Slots, FinishCancel(w)
      PROVE  \A s \in SupplyIds : RequestMoves(s)
  <2> TAKE s \in SupplyIds
  <2>1. CASE s = job[w].s
    BY <1>5, <2>1, RequestCancelled, NotNull DEF RequestMoves, RequestsGood
  <2>2. CASE s # job[w].s
    <3>1. supply'[s] = supply[s]
      BY <1>5, <2>2, RequestCancelled
    <3> QED BY <3>1 DEF RequestMoves, RequestsGood
  <2> QED BY <2>1, <2>2
<1>6. CASE UNCHANGED vars
  BY <1>1, <1>6 DEF vars
<1>7. ASSUME NEW w \in Slots,
             \/ SupplyRequest(w) \/ MachineRequest(w) \/ TransportRequest(w)
             \/ SupplyStep(w) \/ MachineStep(w) \/ TransportStep(w)
             \/ TripStep(w) \/ Fail(w)
      PROVE  \A s \in SupplyIds : RequestMoves(s)
  <2>1. CASE SupplyRequest(w) \/ SupplyStep(w)
    BY <1>1, <1>2, <2>1 DEF SupplyRequest, SupplyStep, BeginEdit, MarkPrepared,
       SetProductionStatus, FinishEdit
  <2>2. CASE MachineRequest(w)
    BY <1>1, <2>2 DEF MachineRequest, RequestPickup, BeginRequestBoth, RepairLinks,
       BeginRequestSupply, BeginCancel
  <2>3. CASE MachineStep(w)
    BY <1>1, <1>3, <1>4, <1>5, <2>3 DEF MachineStep, ResolveSupply, LinkPickup, JoinDelivery,
       JoinTrip, LinkSupply, ReadCancel
  <2>4. CASE TransportRequest(w)
    BY <1>1, <2>4 DEF TransportRequest, SetMode, BeginClearMode, BeginList, BeginAcceptDeliver,
       BeginAcceptPickup, BeginAcceptTrip, BeginCompleteDeliver, BeginCompletePickup
  <2>5. CASE TransportStep(w)
    BY <1>1, <2>5 DEF TransportStep, FinishAcceptDeliver, FinishAcceptPickup, FinishAcceptTrip,
       FinishCompleteDeliver, ResumeMachine, FinishCompletePickup, CloseTrip, FinishClearMode
  <2>6. CASE TripStep(w) \/ Fail(w)
    BY <1>1, <2>6 DEF TripStep, RepointPair, CreatePair, RollBackPair, Bind, Sync,
       SyncNextMachine, FinishList, Fail
  <2> QED BY <1>7, <2>1, <2>2, <2>3, <2>4, <2>5, <2>6
<1> QED BY <1>6, <1>7 DEF Next

LEMMA NextRequestsGood == ASSUME TInv, RequestsGood, [Next]_vars PROVE RequestsGood'
BY RequestsMove DEF RequestsGood, RequestMoves
-----------------------------------------------------------------------------
(* What the rest of a request may rely on.                                 *)

\* What job j expects of the rows, besides what it recalls, when its next step begins.
Expects(j) ==
  /\ j.kind \in {"linkTo", "linkFrom"} => supply[j.s].status # "CANCELLED"
  /\ j.kind \in {"cancel", "cancelTx"} /\ j.s # 0 => pickup[j.p].link = j.s
  /\ j.kind = "clearMode" => HandsFree(j.o)
  /\ j.kind \in {"acceptDeliver", "acceptPickup", "acceptTrip"} => mode[j.o] # "NONE"

ExpectingKinds == {"linkTo", "linkFrom", "cancel", "cancelTx", "clearMode", "acceptDeliver",
                   "acceptPickup", "acceptTrip"}

LEMMA NothingExpected ==
  ASSUME NEW w \in Slots, job'[w].kind \notin ExpectingKinds
  PROVE  Expects(job[w])'
BY DEF Expects, ExpectingKinds

LEMMA DeskExpects ==
  ASSUME TInv, NEW w \in Slots, SupplyRequest(w) \/ SupplyStep(w)
  PROVE  Expects(job[w])'
<1>1. ASSUME NEW m, NEW t, NEW ready, NEW named, CreateDelivery(w, m, t, ready, named)
      PROVE  job'[w].kind \notin ExpectingKinds
  <2>1. \E d : Continue(w, [kind |-> "bind", d |-> d, m |-> m, t |-> t, then |-> Idle])
    BY <1>1 DEF CreateDelivery
  <2> QED BY <2>1, GoesOn DEF ExpectingKinds
<1>2. ASSUME NEW d, NEW m, NEW t, BeginEdit(w, d, m, t) PROVE job'[w].kind \notin ExpectingKinds
  BY <1>2, GoesOn DEF BeginEdit, ExpectingKinds
<1>3. ASSUME NEW d, MarkPrepared(w, d) PROVE job'[w].kind \notin ExpectingKinds
  BY <1>3, GoesOn DEF MarkPrepared, ExpectingKinds
<1>4. ASSUME NEW m, NEW status, SetProductionStatus(w, m, status)
      PROVE  job'[w].kind \notin ExpectingKinds
  BY <1>4 DEF SetProductionStatus, isFree, Idle, ExpectingKinds
<1>5. CASE FinishEdit(w)
  <2>1. job'[w].kind \notin ExpectingKinds
    BY <1>5, GoesOn DEF FinishEdit, Idle, ExpectingKinds
  <2> QED BY <2>1, NothingExpected
<1> QED BY <1>1, <1>2, <1>3, <1>4, <1>5, NothingExpected DEF SupplyRequest, SupplyStep

LEMMA MachineRequestExpects ==
  ASSUME TInv, NEW w \in Slots, MachineRequest(w)
  PROVE  Expects(job[w])'
<1>1. ASSUME NEW m, NEW t, RequestPickup(w, m, t) PROVE job'[w].kind \notin ExpectingKinds
  <2>1. \E p : Continue(w, [kind |-> "link", p |-> p, m |-> m])
    BY <1>1 DEF RequestPickup
  <2> QED BY <2>1, GoesOn DEF ExpectingKinds
<1>2. ASSUME NEW m, NEW t, BeginRequestBoth(w, m, t) PROVE job'[w].kind \notin ExpectingKinds
  BY <1>2, GoesOn DEF BeginRequestBoth, ExpectingKinds
<1>3. ASSUME NEW m, RepairLinks(w, m) PROVE job'[w].kind \notin ExpectingKinds
  <2>1. \E p : Continue(w, [kind |-> "link", p |-> p, m |-> m])
    BY <1>3 DEF RepairLinks
  <2> QED BY <2>1, GoesOn DEF ExpectingKinds
<1>4. ASSUME NEW m, BeginRequestSupply(w, m) PROVE job'[w].kind \notin ExpectingKinds
  BY <1>4, GoesOn DEF BeginRequestSupply, ExpectingKinds
<1>5. ASSUME NEW p \in PickupIds, BeginCancel(w, p) PROVE Expects(job[w])'
  <2>1. job'[w] = [kind |-> "cancel", p |-> p, s |-> pickup[p].link]
    BY <1>5, GoesOn DEF BeginCancel
  <2>2. UNCHANGED pickup
    BY <1>5 DEF BeginCancel
  <2> QED BY <2>1, <2>2 DEF Expects
<1> QED BY <1>1, <1>2, <1>3, <1>4, <1>5, NothingExpected DEF MachineRequest

LEMMA LinkToExpects ==
  ASSUME TInv, NEW w \in Slots, NEW p, NEW m, NEW s, supply[s].status # "CANCELLED",
         LinkTo(w, p, m, s), UNCHANGED supply
  PROVE  Expects(job[w])'
<1>1. job'[w] = [kind |-> "linkTo", p |-> p, m |-> m, s |-> s, d |-> supply[s].delivery]
  BY GoesOn DEF LinkTo
<1> QED BY <1>1 DEF Expects

LEMMA ResolveExpects ==
  ASSUME TInv, NEW w \in Slots, ResolveSupply(w)
  PROVE  Expects(job[w])'
<1> DEFINE j == job[w]
<1>1. j.m \in Machines /\ UNCHANGED supply
  <2>1. j \in LinkJob
    BY Typed, JobShape DEF ResolveSupply
  <2> QED BY <2>1 DEF LinkJob, ResolveSupply
<1>2. CASE Continue(w, Idle)
  <2>1. job'[w].kind \notin ExpectingKinds
    BY <1>2, GoesOn DEF Idle, ExpectingKinds
  <2> QED BY <2>1, NothingExpected
<1>3. CASE EligibleUnclaimed(j.m) # {} /\ LinkTo(w, j.p, j.m, Oldest(EligibleUnclaimed(j.m)))
  <2> DEFINE s == Oldest(EligibleUnclaimed(j.m))
  <2>1. s \in EligibleUnclaimed(j.m)
    <3>1. EligibleUnclaimed(j.m) \in SUBSET (1 .. MaxSupply) /\ MaxSupply \in Nat
      BY BoundsAssumption DEF SupplyIds, EligibleUnclaimed
    <3> QED BY <1>3, <3>1, OldestIsIn
  <2>2. supply[s].status # "CANCELLED"
    BY <2>1 DEF EligibleUnclaimed, isEligibleSupply
  <2> HIDE DEF s
  <2> QED BY <1>1, <1>3, <2>2, LinkToExpects DEF s
<1>4. ASSUME NEW d, Continue(w, [kind |-> "orphan", p |-> j.p, m |-> j.m, d |-> d,
                                 dm |-> delivery[d].machine])
      PROVE  Expects(job[w])'
  <2>1. job'[w].kind \notin ExpectingKinds
    BY <1>4, GoesOn DEF ExpectingKinds
  <2> QED BY <2>1, NothingExpected
<1>5. ASSUME NEW d \in DeliveriesToJoin(j.m), SupplyOf(d) # 0, LinkTo(w, j.p, j.m, SupplyOf(d))
      PROVE  Expects(job[w])'
  <2>1. d \in DeliveryIds /\ delivery[d].status \in OpenStatus
    BY <1>1, <1>5, DeliveriesToJoinType DEF OpenDeliveries
  <2>2. SupplyOf(d) \in SupplyIds /\ supply[SupplyOf(d)].delivery = d /\ d # 0
    BY <1>5, <2>1, SupplyOfIs, NotNull
  <2>3. supply[SupplyOf(d)].status # "CANCELLED"
    BY <2>1, <2>2, Answer DEF OpenStatus
  <2> QED BY <1>1, <1>5, <2>3, LinkToExpects
<1> QED BY <1>2, <1>3, <1>4, <1>5 DEF ResolveSupply

LEMMA MachineStepExpects ==
  ASSUME TInv, NEW w \in Slots, Expects(job[w]), MachineStep(w)
  PROVE  Expects(job[w])'
<1> DEFINE j == job[w]
<1>1. CASE Continue(w, Idle)
  <2>1. job'[w].kind \notin ExpectingKinds
    BY <1>1, GoesOn DEF Idle, ExpectingKinds
  <2> QED BY <2>1, NothingExpected
<1>2. CASE CreateOrphanSupply(w)
  <2>1. ASSUME NEW s \in SupplyIds, supply' = [supply EXCEPT ![s] = NewSupply(j.dm, "FULFILLED", j.d)],
               Continue(w, [kind |-> "linkTo", p |-> j.p, m |-> j.m, s |-> s, d |-> j.d])
        PROVE  Expects(job[w])'
    <3>1. job'[w] = [kind |-> "linkTo", p |-> j.p, m |-> j.m, s |-> s, d |-> j.d]
      BY <2>1, GoesOn
    <3>2. supply'[s].status = "FULFILLED"
      BY <2>1 DEF NewSupply, TInv, SInv, IInv, RowsGood
    <3> QED BY <3>1, <3>2 DEF Expects
  <2> QED BY <1>1, <1>2, <2>1 DEF CreateOrphanSupply
<1>3. CASE LinkPickup(w)
  <2>1. job'[w] = Idle \/ job'[w] = AfterLink(j)
    BY <1>3, GoesOn DEF LinkPickup
  <2>2. job'[w].kind \notin ExpectingKinds
    BY <2>1 DEF AfterLink, Idle, ExpectingKinds
  <2> QED BY <2>2, NothingExpected
<1>4. CASE JoinDelivery(w)
  <2>1. job'[w] = [j EXCEPT !.kind = "joinPair"] /\ j \in JoinJob
    BY <1>4, GoesOn, Typed, JobShape DEF JoinDelivery
  <2>2. job'[w].kind \notin ExpectingKinds
    BY <2>1 DEF JoinJob, ExpectingKinds
  <2> QED BY <2>2, NothingExpected
<1>5. CASE CreateSupply(w)
  <2>1. ASSUME NEW s \in SupplyIds, NEW p, supply' = [supply EXCEPT ![s] = NewSupply(j.m, "OPEN", 0)],
               Continue(w, [kind |-> "linkFrom", s |-> s, p |-> p])
        PROVE  Expects(job[w])'
    <3>1. job'[w] = [kind |-> "linkFrom", s |-> s, p |-> p]
      BY <2>1, GoesOn
    <3>2. supply'[s].status = "OPEN"
      BY <2>1 DEF NewSupply, TInv, SInv, IInv, RowsGood
    <3> QED BY <3>1, <3>2 DEF Expects
  <2> QED BY <1>1, <1>5, <2>1 DEF CreateSupply
<1>6. CASE ReadCancel(w)
  <2>1. \E d : \/ Continue(w, [kind |-> "cancelTx", p |-> j.p, s |-> j.s, d |-> d])
               \/ Continue(w, [kind |-> "cancelTx", p |-> j.p, s |-> 0, d |-> d])
    BY <1>6 DEF ReadCancel
  <2>2. j.kind = "cancel" /\ UNCHANGED pickup
    BY <1>6 DEF ReadCancel
  <2>3. ASSUME NEW d, NEW s \in {j.s, 0},
               Continue(w, [kind |-> "cancelTx", p |-> j.p, s |-> s, d |-> d])
        PROVE  Expects(job[w])'
    <3>1. job'[w] = [kind |-> "cancelTx", p |-> j.p, s |-> s, d |-> d]
      BY <2>3, GoesOn
    <3> QED BY <2>2, <2>3, <3>1 DEF Expects
  <2> QED BY <2>1, <2>3
<1>7. CASE JoinTrip(w) \/ LinkSupply(w) \/ CreateBoth(w) \/ FinishCancel(w)
  BY <1>1, <1>7 DEF JoinTrip, LinkSupply, CreateBoth, FinishCancel
<1> QED BY <1>2, <1>3, <1>4, <1>5, <1>6, <1>7, ResolveExpects DEF MachineStep

LEMMA TransportExpects ==
  ASSUME TInv, NEW w \in Slots, TransportRequest(w) \/ TransportStep(w)
  PROVE  Expects(job[w])'
<1>1. ASSUME NEW o \in Operators, NEW d, BeginAcceptDeliver(w, o, d) PROVE Expects(job[w])'
  <2>1. /\ job'[w] = [kind |-> "acceptDeliver", o |-> o, d |-> d, with |-> mode[o]]
        /\ mode'[o] # "NONE"
    BY <1>1, GoesOn DEF BeginAcceptDeliver, mayAccept
  <2> QED BY <2>1 DEF Expects
<1>2. ASSUME NEW o \in Operators, NEW p, BeginAcceptPickup(w, o, p) PROVE Expects(job[w])'
  <2>1. /\ job'[w] = [kind |-> "acceptPickup", o |-> o, p |-> p, with |-> mode[o]]
        /\ mode'[o] # "NONE"
    BY <1>2, GoesOn DEF BeginAcceptPickup, mayAccept
  <2> QED BY <2>1 DEF Expects
<1>3. ASSUME NEW o \in Operators, NEW r, BeginAcceptTrip(w, o, r) PROVE Expects(job[w])'
  <2>1. /\ job'[w] = [kind |-> "acceptTrip", o |-> o, r |-> r, d |-> trip[r].deliver,
                      p |-> trip[r].pickup, with |-> mode[o]]
        /\ mode'[o] # "NONE"
    BY <1>3, GoesOn DEF BeginAcceptTrip, mayAccept
  <2> QED BY <2>1 DEF Expects
<1>4. ASSUME NEW o \in Operators, BeginClearMode(w, o) PROVE Expects(job[w])'
  <2>1. job'[w] = [kind |-> "clearMode", o |-> o] /\ UNCHANGED <<delivery, pickup>>
    BY <1>4, GoesOn DEF BeginClearMode
  <2>2. HandsFree(o)
    BY <1>4, FreeHands DEF BeginClearMode
  <2>3. HandsFree(o)'
    BY <2>1, <2>2 DEF HandsFree, OpenDeliveriesOf, OpenPickupsOf
  <2> QED BY <2>1, <2>3 DEF Expects
<1>5. ASSUME NEW o, NEW m, SetMode(w, o, m) PROVE job'[w].kind \notin ExpectingKinds
  BY <1>5 DEF SetMode, isFree, Idle, ExpectingKinds
<1>6. ASSUME NEW o, NEW main, BeginList(w, o, main) PROVE job'[w].kind \notin ExpectingKinds
  BY <1>6, GoesOn DEF BeginList, ExpectingKinds
<1>7. ASSUME NEW o, NEW d, BeginCompleteDeliver(w, o, d) PROVE job'[w].kind \notin ExpectingKinds
  BY <1>7, GoesOn DEF BeginCompleteDeliver, ExpectingKinds
<1>8. ASSUME NEW o, NEW p, BeginCompletePickup(w, o, p) PROVE job'[w].kind \notin ExpectingKinds
  BY <1>8, GoesOn DEF BeginCompletePickup, ExpectingKinds
<1>9. CASE TransportStep(w)
  <2>1. \/ Continue(w, Idle)
        \/ \E m : Continue(w, [kind |-> "resume", m |-> m])
        \/ \E r : Continue(w, [kind |-> "closeTrip", r |-> r])
    BY <1>9 DEF TransportStep, FinishAcceptDeliver, FinishAcceptPickup, FinishAcceptTrip,
                FinishCompleteDeliver, ResumeMachine, FinishCompletePickup, CloseTrip,
                FinishClearMode
  <2>2. ASSUME Continue(w, Idle) PROVE job'[w].kind \notin ExpectingKinds
    BY <2>2, GoesOn DEF Idle, ExpectingKinds
  <2>3. ASSUME NEW m, Continue(w, [kind |-> "resume", m |-> m])
        PROVE  job'[w].kind \notin ExpectingKinds
    BY <2>3, GoesOn DEF ExpectingKinds
  <2>4. ASSUME NEW r, Continue(w, [kind |-> "closeTrip", r |-> r])
        PROVE  job'[w].kind \notin ExpectingKinds
    BY <2>4, GoesOn DEF ExpectingKinds
  <2> QED BY <2>1, <2>2, <2>3, <2>4, NothingExpected
<1> QED BY <1>1, <1>2, <1>3, <1>4, <1>5, <1>6, <1>7, <1>8, <1>9, NothingExpected
        DEF TransportRequest

LEMMA TripStepExpects ==
  ASSUME TInv, NEW w \in Slots, TripStep(w) \/ Fail(w)
  PROVE  Expects(job[w])'
<1>1. CASE TripStep(w)
  BY <1>1, TripStepKinds, NothingExpected DEF TripKinds, ExpectingKinds
<1>2. CASE Fail(w)
  <2>1. job'[w].kind = "idle"
    BY <1>2, GoesOn DEF Fail, Idle
  <2> QED BY <2>1, NothingExpected DEF ExpectingKinds
<1> QED BY <1>1, <1>2

LEMMA NextExpects ==
  ASSUME TInv, OneSlot, NEW w \in Slots, Expects(job[w]), [Next]_vars
  PROVE  Expects(job[w])'
<1>1. CASE UNCHANGED vars
  BY <1>1 DEF vars, Expects, HandsFree, OpenDeliveriesOf, OpenPickupsOf
<1>2. CASE Next
  <2>1. \/ SupplyRequest(w) \/ MachineRequest(w) \/ TransportRequest(w)
        \/ SupplyStep(w) \/ MachineStep(w) \/ TransportStep(w)
        \/ TripStep(w) \/ Fail(w)
    BY <1>2 DEF Next, OneSlot
  <2> QED BY <2>1, DeskExpects, MachineRequestExpects, MachineStepExpects, TransportExpects,
             TripStepExpects
<1> QED BY <1>1, <1>2
-----------------------------------------------------------------------------
(* How the pickups move.                                                   *)

\* What a step may make of the row of a pickup: it does not become a waiting one again;
\* whoever gets it drives something; it is not linked to a cancelled request.
PickupMay(old, new) ==
  /\ new.status = "CREATED" => old.status \in {"ABSENT", "CREATED"}
  /\ new.status \in OpenStatus /\ new.op # NoOp =>
       (old.status \in OpenStatus /\ old.op = new.op) \/ mode[new.op] # "NONE"
  /\ new.status \in OpenStatus /\ new.link # 0 =>
       \/ old.status \in OpenStatus /\ old.link = new.link
       \/ supply'[new.link].status # "CANCELLED"

PickupsMay == \A p \in PickupIds : PickupMay(pickup[p], pickup'[p])

LEMMA SamePickup == ASSUME NEW row PROVE PickupMay(row, row)
BY DEF PickupMay

LEMMA PickupsKept == ASSUME UNCHANGED pickup PROVE PickupsMay
BY SamePickup DEF PickupsMay

LEMMA PickupPut ==
  ASSUME TInv, NEW p \in PickupIds, NEW row, pickup' = [pickup EXCEPT ![p] = row],
         PickupMay(pickup[p], row)
  PROVE  PickupsMay
<1>1. pickup'[p] = row /\ \A k \in PickupIds \ {p} : pickup'[k] = pickup[k]
  BY DEF TInv, SInv, IInv, RowsGood
<1>2. ASSUME NEW k \in PickupIds PROVE PickupMay(pickup[k], pickup'[k])
  <2>1. CASE k = p
    BY <1>1, <2>1
  <2>2. CASE k # p
    <3>1. pickup'[k] = pickup[k]
      BY <1>1, <2>2
    <3> QED BY <3>1, SamePickup
  <2> QED BY <2>1, <2>2
<1> QED BY <1>2 DEF PickupsMay

LEMMA PickupsMadeMay ==
  ASSUME TInv, NEW w \in Slots,
         (\E m \in Machines, t \in TaskTypes : RequestPickup(w, m, t)) \/ CreateBoth(w)
  PROVE  PickupsMay
<1>1. ASSUME NEW p \in PickupIds, NEW m, NEW t, NEW s, IsNextId(p, pickup),
             s # 0 => supply'[s].status # "CANCELLED",
             pickup' = [pickup EXCEPT ![p] = NewPickup(m, t, s)]
      PROVE  PickupsMay
  <2> DEFINE row == NewPickup(m, t, s)
  <2>1. row.status = "CREATED" /\ row.op = NoOp /\ row.link = s
    BY DEF NewPickup
  <2>2. pickup' = [pickup EXCEPT ![p] = row] /\ pickup[p].status = "ABSENT"
    BY <1>1 DEF IsNextId
  <2> HIDE DEF row
  <2>3. PickupMay(pickup[p], row)
    BY <1>1, <2>1, <2>2 DEF PickupMay
  <2> QED BY <2>2, <2>3, PickupPut
<1>2. ASSUME NEW m, NEW t, RequestPickup(w, m, t) PROVE PickupsMay
  BY <1>1, <1>2 DEF RequestPickup
<1>3. CASE CreateBoth(w)
  <2>1. PICK s \in SupplyIds, p \in PickupIds :
          /\ IsNextId(p, pickup)
          /\ supply' = [supply EXCEPT ![s] = NewSupply(job[w].m, "OPEN", 0)]
          /\ pickup' = [pickup EXCEPT ![p] = NewPickup(job[w].m, job[w].t, s)]
    BY <1>3 DEF CreateBoth
  <2>2. supply'[s].status # "CANCELLED"
    BY <2>1 DEF NewSupply, TInv, SInv, IInv, RowsGood
  <2> QED BY <1>1, <2>1, <2>2
<1> QED BY <1>2, <1>3

LEMMA LinkPickupMay ==
  ASSUME TInv, NEW w \in Slots, Expects(job[w]), LinkPickup(w)
  PROVE  PickupsMay
<1> DEFINE j == job[w]
           cleared == LinksCleared(j.s)
           taken == \E p \in PickupIds \ {j.p} : cleared[p].link = j.s
<1>1. j.p \in PickupIds /\ supply'[j.s].status # "CANCELLED"
  <2>1. j.kind = "linkTo"
    BY DEF LinkPickup
  <2> QED BY <2>1, MachineRemembers DEF TInv, Expects, LinkPickup
<1>2. \A p \in PickupIds :
        /\ cleared[p] \in PickupRow /\ cleared[p].status = pickup[p].status
        /\ cleared[p].op = pickup[p].op /\ cleared[p].link \in {0, pickup[p].link}
  <2> TAKE p \in PickupIds
  <2>1. pickup[p] \in PickupRow
    BY Typed DEF GoodPickup
  <2> QED BY <2>1 DEF LinksCleared, PickupRow
<1>3. DOMAIN cleared = PickupIds
  BY DEF LinksCleared
<1>4. pickup' = IF taken THEN cleared ELSE [cleared EXCEPT ![j.p].link = j.s]
  BY DEF LinkPickup
<1> HIDE DEF cleared, taken
<1>5. \A k \in PickupIds : /\ pickup'[k].status = pickup[k].status /\ pickup'[k].op = pickup[k].op
                           /\ pickup'[k].link \in {0, pickup[k].link, j.s}
  BY <1>1, <1>2, <1>3, <1>4 DEF PickupRow
<1> QED BY <1>1, <1>5 DEF PickupsMay, PickupMay

LEMMA LinkSupplyMay ==
  ASSUME TInv, NEW w \in Slots, Expects(job[w]), LinkSupply(w)
  PROVE  PickupsMay
<1> DEFINE j == job[w]
<1>1. j.p \in PickupIds /\ supply'[j.s].status # "CANCELLED"
  <2>1. j.kind = "linkFrom" /\ j \in LinkFromJob
    BY Typed, JobShape DEF LinkSupply
  <2> QED BY <2>1 DEF LinkFromJob, Expects, LinkSupply
<1>2. \A k \in PickupIds : pickup[k] \in PickupRow
  BY Typed DEF GoodPickup
<1>3. DOMAIN pickup = PickupIds
  BY DEF TInv, SInv, IInv, RowsGood
<1>4. \A k \in PickupIds : /\ pickup'[k].status = pickup[k].status /\ pickup'[k].op = pickup[k].op
                           /\ pickup'[k].link \in {pickup[k].link, j.s}
  BY <1>1, <1>2, <1>3 DEF LinkSupply, PickupRow
<1> QED BY <1>1, <1>4 DEF PickupsMay, PickupMay

LEMMA JoinDeliveryMay ==
  ASSUME TInv, Driving, NEW w \in Slots, JoinDelivery(w)
  PROVE  PickupsMay
<1> DEFINE j == job[w]
           row == [pickup[j.p] EXCEPT !.status = "ASSIGNED", !.op = j.o, !.with = j.with]
<1>1. /\ j.p \in PickupIds /\ j.d \in DeliveryIds /\ j.o \in Operators
      /\ pickup[j.p].status \in OpenStatus
      /\ delivery[j.d].status = "ASSIGNED" /\ delivery[j.d].op = j.o
  <2>1. j.kind = "join" /\ j \in JoinJob
    BY Typed, JobShape DEF JoinDelivery
  <2> QED BY <2>1 DEF JoinJob, TInv, SInv, Fresh, Recalls
<1>2. pickup' = [pickup EXCEPT ![j.p] = row]
  BY <1>1, Typed DEF JoinDelivery, TInv, SInv, IInv, RowsGood, GoodPickup, PickupRow
<1>3. row.status = "ASSIGNED" /\ row.op = j.o /\ row.link = pickup[j.p].link
  BY <1>1, Typed DEF GoodPickup, PickupRow
<1>4. mode[j.o] # "NONE"
  <2>1. j.d \in OpenDeliveriesOf(j.o)
    BY <1>1 DEF OpenDeliveriesOf, OpenStatus
  <2> QED BY <1>1, <2>1 DEF Driving, HandsFree
<1> HIDE DEF row
<1>5. PickupMay(pickup[j.p], row)
  BY <1>1, <1>3, <1>4 DEF PickupMay
<1> HIDE DEF j
<1> QED BY <1>1, <1>2, <1>5, PickupPut

LEMMA AcceptsMay ==
  ASSUME TInv, NEW w \in Slots, Expects(job[w]), FinishAcceptPickup(w) \/ FinishAcceptTrip(w)
  PROVE  PickupsMay
<1> DEFINE j == job[w]
           row == Assigned(pickup[j.p], j.o, j.with)
<1>1. j.p \in PickupIds /\ j.o \in Operators /\ mode[j.o] # "NONE"
  <2>1. j.kind \in {"acceptPickup", "acceptTrip"} /\ j \in AcceptJob
    BY Typed, JobShape DEF FinishAcceptPickup, FinishAcceptTrip
  <2> QED BY <2>1 DEF AcceptJob, Expects
<1>2. row.status = "ASSIGNED" /\ row.op = j.o /\ row.link = pickup[j.p].link
  BY <1>1, Typed DEF Assigned, GoodPickup, PickupRow
<1>3. UNCHANGED pickup \/ (pickup[j.p].status = "CREATED" /\ pickup' = [pickup EXCEPT ![j.p] = row])
  <2>1. CASE FinishAcceptPickup(w)
    <3>1. j.kind = "acceptPickup"
      BY <2>1 DEF FinishAcceptPickup
    <3>2. pickup[j.p].status = "CREATED"
      BY <3>1 DEF TInv, SInv, Fresh
    <3> QED BY <2>1, <3>2, <1>1 DEF FinishAcceptPickup, TInv, SInv, IInv, RowsGood
  <2>2. CASE FinishAcceptTrip(w) /\ ~ UNCHANGED pickup
    <3>1. pickup' = [pickup EXCEPT ![j.p] =
                       IF pickup[j.p].status = "CREATED" THEN row ELSE pickup[j.p]]
      BY <2>2 DEF FinishAcceptTrip
    <3> HIDE DEF row
    <3>2. pickup[j.p].status = "CREATED"
      BY <2>2, <3>1 DEF TInv, SInv, IInv, RowsGood
    <3> QED BY <3>1, <3>2
  <2> QED BY <2>1, <2>2
<1> HIDE DEF row
<1>4. pickup[j.p].status = "CREATED" => PickupMay(pickup[j.p], row)
  BY <1>1, <1>2 DEF PickupMay, OpenStatus
<1> HIDE DEF j
<1>5. CASE pickup[j.p].status = "CREATED" /\ pickup' = [pickup EXCEPT ![j.p] = row]
  BY <1>1, <1>4, <1>5, PickupPut
<1> QED BY <1>3, <1>5, PickupsKept

\* A pickup that is closed.
LEMMA ClosesMay ==
  ASSUME TInv, NEW w \in Slots, FinishCancel(w) \/ FinishCompletePickup(w)
  PROVE  PickupsMay
<1>1. PICK p \in PickupIds : /\ pickup'[p].status \notin OpenStatus
                             /\ \A k \in PickupIds \ {p} : pickup'[k] = pickup[k]
  <2>1. CASE FinishCancel(w)
    BY <2>1, RequestCancelled DEF OpenStatus
  <2>2. CASE FinishCompletePickup(w)
    <3>1. job[w].p \in PickupIds
      BY <2>2, AcceptRemembers DEF FinishCompletePickup, TInv
    <3>2. pickup \in [PickupIds -> PickupRow]
      BY Typed DEF GoodPickup, TInv, SInv, IInv, RowsGood
    <3>3. pickup' = [pickup EXCEPT ![job[w].p].status = "COMPLETED", ![job[w].p].op = job[w].o,
                       ![job[w].p].with = IF job[w].first THEN job[w].with ELSE @]
      BY <2>2 DEF FinishCompletePickup
    <3>4. pickup[job[w].p] \in PickupRow
      BY <3>1, <3>2
    <3>5. /\ pickup'[job[w].p].status = "COMPLETED"
          /\ \A k \in PickupIds \ {job[w].p} : pickup'[k] = pickup[k]
      BY <3>1, <3>2, <3>3, <3>4 DEF PickupRow
    <3> QED BY <3>1, <3>5 DEF OpenStatus
  <2> QED BY <2>1, <2>2
<1>2. PickupMay(pickup[p], pickup'[p])
  BY <1>1 DEF PickupMay, OpenStatus
<1> QED BY <1>1, <1>2, SamePickup DEF PickupsMay

LEMMA PickupsMove ==
  ASSUME TInv, Driving, \A w \in Slots : Expects(job[w]), [Next]_vars
  PROVE  PickupsMay
<1>1. CASE UNCHANGED vars
  BY <1>1, PickupsKept DEF vars
<1>2. ASSUME NEW w \in Slots,
             \/ SupplyRequest(w) \/ MachineRequest(w) \/ TransportRequest(w)
             \/ SupplyStep(w) \/ MachineStep(w) \/ TransportStep(w)
             \/ TripStep(w) \/ Fail(w)
      PROVE  PickupsMay
  <2>1. CASE SupplyRequest(w) \/ SupplyStep(w)
    BY <2>1, PickupsKept DEF SupplyRequest, SupplyStep, CreateDelivery, BeginEdit, MarkPrepared,
       SetProductionStatus, FinishEdit
  <2>2. CASE MachineRequest(w)
    BY <2>2, PickupsKept, PickupsMadeMay DEF MachineRequest, BeginRequestBoth, RepairLinks,
       BeginRequestSupply, BeginCancel
  <2>3. CASE MachineStep(w)
    BY <2>3, PickupsKept, PickupsMadeMay, LinkPickupMay, LinkSupplyMay, JoinDeliveryMay, ClosesMay
       DEF MachineStep, ResolveSupply, CreateOrphanSupply, JoinTrip, CreateSupply, ReadCancel
  <2>4. CASE TransportRequest(w)
    BY <2>4, PickupsKept DEF TransportRequest, SetMode, BeginClearMode, BeginList,
       BeginAcceptDeliver, BeginAcceptPickup, BeginAcceptTrip, BeginCompleteDeliver,
       BeginCompletePickup
  <2>5. CASE TransportStep(w)
    BY <2>5, PickupsKept, AcceptsMay, ClosesMay DEF TransportStep, FinishAcceptDeliver,
       FinishCompleteDeliver, ResumeMachine, CloseTrip, FinishClearMode
  <2>6. CASE TripStep(w) \/ Fail(w)
    BY <2>6, PickupsKept DEF TripStep, RepointPair, CreatePair, RollBackPair, Bind, Sync,
       SyncNextMachine, FinishList, Fail
  <2> QED BY <1>2, <2>1, <2>2, <2>3, <2>4, <2>5, <2>6
<1> QED BY <1>1, <1>2 DEF Next

LEMMA NextLiveLinks ==
  ASSUME TInv, RequestsGood, LiveLinks, Driving, \A w \in Slots : Expects(job[w]), [Next]_vars
  PROVE  LiveLinks'
<1> SUFFICES ASSUME NEW p \in PickupIds, pickup'[p].link # 0, pickup'[p].status \in OpenStatus
             PROVE  supply'[pickup'[p].link].status # "CANCELLED"
  BY DEF LiveLinks
<1>1. PickupMay(pickup[p], pickup'[p])
  BY PickupsMove DEF PickupsMay
<1>2. CASE pickup[p].status \in OpenStatus /\ pickup[p].link = pickup'[p].link
  <2> DEFINE s == pickup[p].link
  <2>1. /\ s \in SupplyIds /\ supply[s].status # "CANCELLED" /\ s # 0
        /\ \A k \in PickupIds : pickup[k].link = s => k = p
    BY <1>2, OneLink DEF LiveLinks
  <2>2. SUFFICES ASSUME supply'[s].status = "CANCELLED" PROVE FALSE
    BY <1>2
  <2> HIDE DEF s
  <2>3. PICK w \in Slots : FinishCancel(w) /\ job[w].s = s
    <3>1. RequestMoves(s)
      BY <2>1, RequestsMove
    <3> QED BY <2>1, <2>2, <3>1 DEF RequestMoves
  <2>4. /\ job[w].kind = "cancelTx" /\ job[w].p \in PickupIds
        /\ pickup'[job[w].p].status = "CANCELED"
    BY <2>3, RequestCancelled
  <2>5. pickup[job[w].p].link = s
    BY <2>1, <2>3, <2>4 DEF Expects
  <2>6. job[w].p = p
    BY <2>1, <2>4, <2>5
  <2> QED BY <2>4, <2>6 DEF OpenStatus
<1> QED BY <1>1, <1>2 DEF PickupMay
-----------------------------------------------------------------------------
(* Who drives, and what trips lead to.                                     *)

\* The stages of the deliveries, one by one.
LEMMA DeliveriesMove ==
  ASSUME TInv, [Next]_vars
  PROVE  \A d \in DeliveryIds : Moves(d) \/ delivery'[d] = delivery[d]
<1>1. CASE delivery' = delivery
  BY <1>1
<1>2. CASE delivery' # delivery
  <2>1. PICK w \in Slots :
          \/ SupplyRequest(w) \/ MachineRequest(w) \/ TransportRequest(w)
          \/ SupplyStep(w) \/ MachineStep(w) \/ TransportStep(w)
          \/ TripStep(w) \/ Fail(w)
    BY <1>2 DEF Next, vars
  <2>2. ~ TripStep(w) /\ ~ Fail(w)
    BY <1>2 DEF TripStep, RepointPair, CreatePair, RollBackPair, Bind, Sync, SyncNextMachine,
                FinishList, Fail
  <2>3. OneMoves
    <3>1. CASE SupplyRequest(w) \/ SupplyStep(w)
      BY <1>2, <3>1, DeskMoves
    <3>2. CASE MachineRequest(w) \/ MachineStep(w)
      BY <1>2, <3>2, MachineMoves
    <3>3. CASE TransportRequest(w) \/ TransportStep(w)
      BY <1>2, <3>3, TransportMoves
    <3> QED BY <2>1, <2>2, <3>1, <3>2, <3>3
  <2> QED BY <2>3 DEF OneMoves
<1> QED BY <1>1, <1>2

\* A transporter who drives nothing chose to put the equipment away, or drove nothing before.
LEMMA ModeLeft ==
  ASSUME TInv, [Next]_vars, NEW o \in Operators, mode'[o] = "NONE", mode[o] # "NONE"
  PROVE  \E w \in Slots : /\ job[w].kind = "clearMode" /\ job[w].o = o
                          /\ UNCHANGED <<delivery, pickup>>
<1>1. mode \in [Operators -> ModeOrNull]
  BY DEF TInv, SInv, IInv, RestOK
<1>2. PICK w \in Slots :
        \/ SupplyRequest(w) \/ MachineRequest(w) \/ TransportRequest(w)
        \/ SupplyStep(w) \/ MachineStep(w) \/ TransportStep(w)
        \/ TripStep(w) \/ Fail(w)
  BY DEF Next, vars
<1>3. mode' # mode
  OBVIOUS
<1>4. ~ (SupplyRequest(w) \/ SupplyStep(w))
  BY <1>3 DEF SupplyRequest, SupplyStep, CreateDelivery, BeginEdit, MarkPrepared,
     SetProductionStatus, FinishEdit
<1>5. ~ (MachineRequest(w) \/ MachineStep(w))
  BY <1>3 DEF MachineRequest, MachineStep, RequestPickup, BeginRequestBoth, RepairLinks,
     BeginRequestSupply, BeginCancel, ResolveSupply, CreateOrphanSupply, LinkPickup,
     JoinDelivery, JoinTrip, CreateSupply, LinkSupply, CreateBoth, ReadCancel, FinishCancel
<1>6. ~ (TripStep(w) \/ Fail(w))
  BY <1>3 DEF TripStep, RepointPair, CreatePair, RollBackPair, Bind, Sync, SyncNextMachine,
     FinishList, Fail
<1>7. ASSUME NEW k \in Operators, NEW m \in OperatingModes, SetMode(w, k, m) PROVE FALSE
  <2>1. m # "NONE"
    BY EnumAssumption
  <2> QED BY <1>1, <1>7, <2>1 DEF SetMode
<1>8. CASE FinishClearMode(w)
  BY <1>1, <1>8 DEF FinishClearMode
<1>9. CASE ~ FinishClearMode(w)
  BY <1>2, <1>3, <1>4, <1>5, <1>6, <1>7, <1>9
     DEF TransportRequest, TransportStep, BeginClearMode, BeginList, BeginAcceptDeliver,
         BeginAcceptPickup, BeginAcceptTrip, BeginCompleteDeliver, BeginCompletePickup,
         FinishAcceptDeliver, FinishAcceptPickup, FinishAcceptTrip, FinishCompleteDeliver,
         ResumeMachine, FinishCompletePickup, CloseTrip
<1> QED BY <1>8, <1>9

LEMMA NextDriving ==
  ASSUME TInv, TInv', Driving, \A w \in Slots : Expects(job[w]), [Next]_vars
  PROVE  Driving'
<1> SUFFICES ASSUME NEW o \in Operators, mode'[o] = "NONE"
             PROVE  HandsFree(o)'
  BY DEF Driving
<1>1. CASE mode[o] # "NONE"
  <2>1. PICK w \in Slots : /\ job[w].kind = "clearMode" /\ job[w].o = o
                           /\ UNCHANGED <<delivery, pickup>>
    BY <1>1, ModeLeft
  <2>2. HandsFree(o)
    BY <2>1 DEF Expects
  <2> QED BY <2>1, <2>2 DEF HandsFree, OpenDeliveriesOf, OpenPickupsOf
<1>2. CASE mode[o] = "NONE"
  <2>1. HandsFree(o)
    BY <1>2 DEF Driving
  <2>2. ASSUME NEW d \in DeliveryIds, delivery'[d].op = o, delivery'[d].status \in OpenStatus
        PROVE  FALSE
    <3>1. delivery'[d].status = "ASSIGNED"
      BY <2>2, NullAssumption DEF TInv, SInv, IInv, RowsGood, GoodDelivery, isWaiting, OpenStatus
    <3>2. ~ (delivery[d].op = o /\ delivery[d].status \in OpenStatus)
      BY <2>1 DEF HandsFree, OpenDeliveriesOf
    <3>3. delivery[d].status = "CREATED"
      BY <2>2, <3>1, <3>2, DeliveriesMove DEF Moves, OpenStatus
    <3>4. PICK w \in Slots : job[w].kind \in {"acceptDeliver", "acceptTrip"} /\ job[w].o = o
      BY <2>2, <3>1, <3>3, TakenByAccepting
    <3> QED BY <1>2, <3>4 DEF Expects
  <2>3. ASSUME NEW p \in PickupIds, pickup'[p].op = o, pickup'[p].status \in OpenStatus
        PROVE  FALSE
    <3>1. PickupMay(pickup[p], pickup'[p]) /\ o # NoOp
      BY PickupsMove, NullAssumption DEF PickupsMay
    <3>2. ~ (pickup[p].op = o /\ pickup[p].status \in OpenStatus)
      BY <2>1 DEF HandsFree, OpenPickupsOf
    <3> QED BY <1>2, <2>3, <3>1, <3>2 DEF PickupMay
  <2> QED BY <2>2, <2>3 DEF HandsFree, OpenDeliveriesOf, OpenPickupsOf
<1> QED BY <1>1, <1>2

\* A trip that is accepted was so, or does not wait for its delivery.
TripsMay ==
  \A r \in TripIds : trip'[r].status = "ACCEPTED" =>
    \/ trip[r].status = "ACCEPTED" /\ trip'[r].deliver = trip[r].deliver
    \/ delivery'[trip'[r].deliver].status # "CREATED"

LEMMA TripsQuiet ==
  ASSUME \A r \in TripIds : trip'[r] = trip[r] \/ trip'[r].status # "ACCEPTED"
  PROVE  TripsMay
BY DEF TripsMay

LEMMA ExpiredQuiet ==
  ASSUME TInv, NEW d, NEW p, trip' = OtherPairsExpired(d, p)
  PROVE  TripsMay
<1>1. ASSUME NEW r \in TripIds PROVE trip'[r] = trip[r] \/ trip'[r].status # "ACCEPTED"
  <2>1. trip[r] \in TripRow
    BY Typed DEF GoodTrip
  <2> QED BY <2>1 DEF OtherPairsExpired, TripRow
<1> QED BY <1>1, TripsQuiet

LEMMA TripPut ==
  ASSUME TInv, NEW r \in TripIds, NEW row, trip' = [trip EXCEPT ![r] = row],
         row.status = "ACCEPTED" => delivery'[row.deliver].status # "CREATED"
  PROVE  TripsMay
<1>1. trip'[r] = row /\ \A k \in TripIds \ {r} : trip'[k] = trip[k]
  BY DEF TInv, SInv, IInv, RowsGood
<1> QED BY <1>1 DEF TripsMay

LEMMA TripStepMay ==
  ASSUME TInv, NEW w \in Slots, TripStep(w)
  PROVE  TripsMay
<1> DEFINE j == job[w]
<1>1. CASE UNCHANGED trip
  BY <1>1, TripsQuiet
<1>2. ASSUME NEW d, NEW p, NEW m, NEW t, NEW then, StartUpsert(w, d, p, m, t, then)
      PROVE  TripsMay
  BY <1>2, ExpiredQuiet DEF StartUpsert
<1>3. ASSUME NEW m, NEW then, SyncMachine(w, m, then) PROVE TripsMay
  BY <1>1, <1>2, <1>3 DEF SyncMachine
<1>4. CASE RepointPair(w)
  <2> DEFINE row == PairRow(j, "OPEN", trip[j.row].by)
  <2>5. PICK rest : Thinned(rest) /\ (trip' = rest \/ Repointed(j, rest))
    BY <1>4, RepointedTrips
  <2>1. trip' \in {rest, [rest EXCEPT ![j.row] = row]} /\ row.status = "OPEN"
    BY <2>5 DEF Repointed, PairRow
  <2>2. DOMAIN rest = TripIds
    BY <2>5 DEF Thinned
  <2>3. ASSUME NEW r \in TripIds PROVE rest[r] = trip[r] \/ rest[r].status = "DELETED"
    BY <2>5 DEF Thinned, NoTrip
  <2> HIDE DEF row
  <2>4. ASSUME NEW r \in TripIds PROVE trip'[r] = trip[r] \/ trip'[r].status # "ACCEPTED"
    BY <2>1, <2>2, <2>3
  <2> QED BY <2>4, TripsQuiet
<1>5. CASE CreatePair(w)
  <2> DEFINE row == PairRow(j, "OPEN", NoOp)
  <2>1. PICK r \in TripIds : trip' = [trip EXCEPT ![r] = row]
    BY <1>5 DEF CreatePair
  <2>2. row.status = "OPEN"
    BY DEF PairRow
  <2> HIDE DEF row
  <2> QED BY <2>1, <2>2, TripPut
<1>6. CASE FinishList(w)
  <2>1. ASSUME NEW r \in TripIds PROVE trip'[r] = trip[r] \/ trip'[r].status # "ACCEPTED"
    <3>1. trip[r] \in TripRow
      BY Typed DEF GoodTrip
    <3> QED BY <1>6, <3>1 DEF FinishList, ReconciledTrips, TripRow
  <2> QED BY <2>1, TripsQuiet
<1>7. CASE Bind(w)
  BY <1>1, <1>2, <1>7 DEF Bind
<1>8. CASE Sync(w) \/ SyncNextMachine(w)
  BY <1>3, <1>8 DEF Sync, SyncNextMachine
<1>9. CASE RollBackPair(w)
  BY <1>1, <1>9 DEF RollBackPair
<1> QED BY <1>4, <1>5, <1>6, <1>7, <1>8, <1>9 DEF TripStep

LEMMA JoinTripMay ==
  ASSUME TInv, NEW w \in Slots, JoinTrip(w)
  PROVE  TripsMay
<1> DEFINE j == job[w]
           row == PairRow(j, "ACCEPTED", j.o)
<1>1. delivery'[row.deliver].status # "CREATED"
  <2>1. j.kind = "joinPair" /\ UNCHANGED delivery
    BY DEF JoinTrip
  <2>2. delivery[j.d].status = "ASSIGNED"
    BY <2>1 DEF TInv, Recalls
  <2>3. row.deliver = j.d
    BY DEF PairRow
  <2> QED BY <2>1, <2>2, <2>3
<1>2. \/ trip' = OtherPairsExpired(j.d, j.p) \/ UNCHANGED trip
      \/ \E r : r # 0 /\ trip' = [trip EXCEPT ![r] = row]
  BY NotNull DEF JoinTrip
<1> HIDE DEF row, j
<1>3. ASSUME NEW r, trip' = [trip EXCEPT ![r] = row] PROVE TripsMay
  <2>1. CASE r \in TripIds
    BY <1>1, <1>3, <2>1, TripPut
  <2>2. CASE r \notin TripIds
    <3>1. \A k \in TripIds : trip'[k] = trip[k]
      BY <1>3, <2>2 DEF TInv, SInv, IInv, RowsGood
    <3> QED BY <3>1, TripsQuiet
  <2> QED BY <2>1, <2>2
<1> QED BY <1>2, <1>3, ExpiredQuiet, TripsQuiet

LEMMA AcceptTripMay ==
  ASSUME TInv, NEW w \in Slots, FinishAcceptTrip(w)
  PROVE  TripsMay
<1> DEFINE j == job[w]
<1>1. CASE UNCHANGED trip
  BY <1>1, TripsQuiet
<1>2. CASE ~ UNCHANGED trip
  <2>1. /\ j.r \in TripIds /\ j.d \in DeliveryIds /\ trip[j.r].deliver = j.d
    <3>1. j.kind = "acceptTrip" /\ j \in AcceptJob
      BY Typed, JobShape DEF FinishAcceptTrip
    <3> QED BY <3>1 DEF AcceptJob, TInv, Recalls
  <2>2. /\ trip' = [trip EXCEPT ![j.r].status = "ACCEPTED", ![j.r].by = j.o]
        /\ delivery' = [delivery EXCEPT ![j.d] =
              IF @.status = "CREATED" THEN Assigned(@, j.o, j.with) ELSE @]
    BY <1>2 DEF FinishAcceptTrip
  <2>3. trip \in [TripIds -> TripRow] /\ delivery \in [DeliveryIds -> DeliveryRow]
    BY Typed DEF GoodTrip, GoodDelivery, TInv, SInv, IInv, RowsGood
  <2> HIDE DEF j
  <2>4. /\ trip'[j.r].deliver = j.d
        /\ \A k \in TripIds \ {j.r} : trip'[k] = trip[k]
    BY <2>1, <2>2, <2>3 DEF TripRow
  <2>5. delivery'[j.d].status # "CREATED"
    <3>1. Assigned(delivery[j.d], j.o, j.with).status = "ASSIGNED"
      BY <2>1, <2>3 DEF Assigned, DeliveryRow
    <3>2. delivery'[j.d] = IF delivery[j.d].status = "CREATED"
                           THEN Assigned(delivery[j.d], j.o, j.with) ELSE delivery[j.d]
      BY <2>1, <2>2, <2>3
    <3> QED BY <3>1, <3>2
  <2> QED BY <2>1, <2>4, <2>5 DEF TripsMay
<1> QED BY <1>1, <1>2

\* Steps that only take trips back.
LEMMA TakenBackMay ==
  ASSUME TInv, NEW w \in Slots,
         \/ FinishCancel(w) \/ CloseTrip(w)
         \/ \E o \in Operators, main \in BOOLEAN : BeginList(w, o, main)
  PROVE  TripsMay
<1>1. ASSUME NEW r \in TripIds PROVE trip'[r] = trip[r] \/ trip'[r].status # "ACCEPTED"
  <2>1. trip[r] \in TripRow /\ trip \in [TripIds -> TripRow]
    BY Typed DEF GoodTrip, TInv, SInv, IInv, RowsGood
  <2>2. CASE FinishCancel(w)
    BY <2>1, <2>2 DEF FinishCancel, TripRow
  <2>3. CASE \E o \in Operators, main \in BOOLEAN : BeginList(w, o, main)
    BY <2>1, <2>3 DEF BeginList, TripRow
  <2>4. CASE CloseTrip(w)
    <3> DEFINE i == job[w].r
               row == [trip[i] EXCEPT !.status = "COMPLETED"]
    <3>1. trip' = [trip EXCEPT ![i].status = IF trip[i].status = "ACCEPTED" THEN "COMPLETED"
                                             ELSE trip[i].status]
      BY <2>4 DEF CloseTrip
    <3> HIDE DEF i
    <3>2. CASE r # i
      BY <2>1, <3>1, <3>2
    <3>3. CASE r = i /\ trip[r].status = "ACCEPTED"
      BY <2>1, <3>1, <3>3 DEF TripRow
    <3>4. CASE r = i /\ trip[r].status # "ACCEPTED"
      BY <2>1, <3>1, <3>4 DEF TripRow
    <3> QED BY <3>2, <3>3, <3>4
  <2> QED BY <2>2, <2>3, <2>4
<1> QED BY <1>1, TripsQuiet

LEMMA TripsMove ==
  ASSUME TInv, [Next]_vars
  PROVE  TripsMay
<1>1. CASE UNCHANGED trip
  BY <1>1, TripsQuiet
<1>2. ASSUME NEW w \in Slots,
             \/ SupplyRequest(w) \/ MachineRequest(w) \/ TransportRequest(w)
             \/ SupplyStep(w) \/ MachineStep(w) \/ TransportStep(w)
             \/ TripStep(w) \/ Fail(w)
      PROVE  TripsMay
  <2>1. CASE SupplyRequest(w) \/ SupplyStep(w)
    BY <1>1, <2>1 DEF SupplyRequest, SupplyStep, CreateDelivery, BeginEdit, MarkPrepared,
       SetProductionStatus, FinishEdit
  <2>2. CASE MachineRequest(w)
    BY <1>1, <2>2 DEF MachineRequest, RequestPickup, BeginRequestBoth, RepairLinks,
       BeginRequestSupply, BeginCancel
  <2>3. CASE MachineStep(w)
    BY <1>1, <2>3, JoinTripMay, TakenBackMay DEF MachineStep, ResolveSupply, CreateOrphanSupply,
       LinkPickup, JoinDelivery, CreateSupply, LinkSupply, CreateBoth, ReadCancel
  <2>4. CASE TransportRequest(w)
    BY <1>1, <2>4, TakenBackMay DEF TransportRequest, SetMode, BeginClearMode,
       BeginAcceptDeliver, BeginAcceptPickup, BeginAcceptTrip, BeginCompleteDeliver,
       BeginCompletePickup
  <2>5. CASE TransportStep(w)
    BY <1>1, <2>5, AcceptTripMay, TakenBackMay DEF TransportStep, FinishAcceptDeliver,
       FinishAcceptPickup, FinishCompleteDeliver, ResumeMachine, FinishCompletePickup,
       FinishClearMode
  <2>6. CASE TripStep(w)
    BY <2>6, TripStepMay
  <2>7. CASE Fail(w)
    BY <1>1, <2>7 DEF Fail
  <2> QED BY <1>2, <2>1, <2>2, <2>3, <2>4, <2>5, <2>6, <2>7
<1> QED BY <1>1, <1>2 DEF Next, vars

LEMMA NextTripsLeft ==
  ASSUME TInv, TripsLeft, [Next]_vars
  PROVE  TripsLeft'
<1> SUFFICES ASSUME NEW r \in TripIds, trip'[r].status = "ACCEPTED"
             PROVE  delivery'[trip'[r].deliver].status # "CREATED"
  BY DEF TripsLeft
<1>1. CASE trip[r].status = "ACCEPTED" /\ trip'[r].deliver = trip[r].deliver
  <2> DEFINE d == trip[r].deliver
  <2>1. d \in DeliveryIds /\ isLive(r)
    BY <1>1, Typed DEF GoodTrip, isLive
  <2>2. delivery[d].status \notin {"ABSENT", "CREATED"}
    BY <1>1, <2>1 DEF TInv, RowsFit, TripsGood, TripsLeft
  <2>3. Moves(d) \/ delivery'[d] = delivery[d]
    BY <2>1, DeliveriesMove
  <2> QED BY <1>1, <2>2, <2>3 DEF Moves
<1> QED BY <1>1, TripsMove DEF TripsMay
-----------------------------------------------------------------------------
(* The invariant, and what follows of what is on the screens.              *)

HInv ==
  /\ TInv /\ RequestsGood /\ LiveLinks /\ TripsLeft /\ Driving
  /\ \A w \in Slots : Expects(job[w])

LEMMA InitHInv == Init => HInv
<1> SUFFICES ASSUME Init PROVE HInv
  OBVIOUS
<1>1. RequestsGood /\ LiveLinks /\ TripsLeft
  BY DEF Init, NoSupply, NoPickup, NoTrip, RequestsGood, LiveLinks, TripsLeft
<1>2. Driving
  BY DEF Init, NoDelivery, NoPickup, Driving, HandsFree, OpenDeliveriesOf, OpenPickupsOf, OpenStatus
<1>3. \A w \in Slots : Expects(job[w])
  BY DEF Init, Idle, Expects
<1> QED BY <1>1, <1>2, <1>3, InitTInv DEF HInv

LEMMA NextHInv == ASSUME HInv, [Next]_vars, OneSlot PROVE HInv'
<1>1. TInv'
  BY NextTInv DEF HInv
<1>2. RequestsGood' /\ LiveLinks' /\ TripsLeft' /\ Driving'
  BY <1>1, NextRequestsGood, NextLiveLinks, NextTripsLeft, NextDriving DEF HInv
<1>3. \A w \in Slots : Expects(job[w])'
  BY NextExpects DEF HInv
<1> QED BY <1>1, <1>2, <1>3 DEF HInv

LEMMA AlwaysHInv == ASSUME OneSlot PROVE Spec => []HInv
<1>1. HInv /\ [Next]_vars => HInv'
  BY NextHInv
<1> QED BY <1>1, InitHInv, PTL DEF Spec

\* What is at one machine is together.
LEMMA OnePlace == ASSUME HInv, OneMachine PROVE Together
<1>1. ASSUME NEW s \in SupplyIds, supply[s].delivery # 0
      PROVE  delivery[supply[s].delivery].machine = supply[s].machine
  <2>1. supply[s].machine \in Machines
    BY <1>1, Answer DEF HInv, RequestsGood
  <2>2. delivery[supply[s].delivery].machine \in Machines
    BY <1>1, Answer, Typed DEF HInv, GoodDelivery
  <2> QED BY <2>1, <2>2 DEF OneMachine
<1>2. ASSUME NEW p \in PickupIds, pickup[p].link # 0
      PROVE  supply[pickup[p].link].machine = pickup[p].machine
  <2>1. supply[pickup[p].link].machine \in Machines
    BY <1>2, OneLink DEF HInv, RequestsGood
  <2>2. pickup[p].machine \in Machines
    BY <1>2, Typed DEF HInv, TInv, SInv, GoodPickup
  <2> QED BY <2>1, <2>2 DEF OneMachine
<1> QED BY <1>1, <1>2 DEF Together

\* Everything a transporter has in hand is on "Minhas tarefas": who has work in hand
\* drives something, because the equipment is put away only with free hands, and has one
\* task of each kind at most, so that the card of a machine has room for them.
THEOREM TasksShownInSeries == ASSUME OneSlot PROVE Spec => []TasksInHandShown
<1>1. HInv => TasksInHandShown
  BY TasksShown DEF HInv
<1> QED BY <1>1, AlwaysHInv, PTL

\* The TV monitor shows the cards that the operators see, for any number of machines, as
\* long as what belongs together is at one.
THEOREM TvShowsTogether == ASSUME OneSlot PROVE Spec => [](Together => TvShowsMachineCards)
<1>1. HInv => (Together => TvShowsMachineCards)
  BY TvShows DEF HInv
<1> QED BY <1>1, AlwaysHInv, PTL

\* Whoever accepted a trip is led through it in order unless another transporter has the
\* pallet, for any number of transporters and of machines that keep together what belongs
\* together.
THEOREM InOrderUnlessShared == ASSUME OneSlot PROVE Spec => [](Together => InOrderOrShared)
<1>1. HInv => (Together => InOrderOrShared)
  BY LedInOrder DEF HInv
<1> QED BY <1>1, AlwaysHInv, PTL

\* What an up-to-date screen offers the server does not refuse: the three guards of the
\* page say of the lists what the server's say of the tables.
THEOREM OffersHoldInSeries == ASSUME OneSlot, OneMachine PROVE Spec => []OfferedIsAccepted
<1>1. HInv => OfferedIsAccepted
  BY OnePlace, OffersAccepted DEF HInv
<1> QED BY <1>1, AlwaysHInv, PTL

\* The TV monitor shows the cards that the operator of the machine sees, at the same steps
\* and with the same timers, although its queries leave out most rows.
THEOREM TvShowsInSeries == ASSUME OneSlot, OneMachine PROVE Spec => []TvShowsMachineCards
<1>1. HInv => TvShowsMachineCards
  BY OnePlace, TvShows DEF HInv
<1> QED BY <1>1, AlwaysHInv, PTL

\* The only transporter of a machine is led through the accepted trip in order: the page
\* is not left with a task in hand, and offers the pickup when its pallet is delivered.
THEOREM InOrderInSeries ==
  ASSUME OneSlot, OneMachine, OneOperator PROVE Spec => []TripCompletedInOrder
<1>1. HInv => TripCompletedInOrder
  BY OnePlace, LedInOrder, InOrder DEF HInv
<1> QED BY <1>1, AlwaysHInv, PTL
-----------------------------------------------------------------------------
(* No card goes back.                                                      *)

\* The step n of a pickup that is linked to a request with delivery d, and of request s
\* with delivery d.
IsPickupStep(p, d, n) ==
  /\ d = 0 => n = 1
  /\ d # 0 /\ delivery[d].status # "COMPLETED" => n = deliverStep(d)
  /\ d # 0 /\ delivery[d].status = "COMPLETED" /\ pickup[p].status = "ASSIGNED" => n = 7
  /\ d # 0 /\ delivery[d].status = "COMPLETED" /\ pickup[p].status = "CREATED" => n = 6

IsSupplyStep(s, d, n) ==
  /\ s \in SupplyIds
  /\ \/ supply[s].status = "OPEN" /\ n = 2
     \/ supply[s].status = "FULFILLED" /\ d \in DeliveryIds /\ n = deliverStep(d)

\* The step of every card of a machine is that of the rows that its foreign keys name.
StepsAre ==
  \A m \in Machines : LET L == MachineLists(m) IN
    /\ \A p \in PickupRows(L) : p \in PickupIds /\ pickup[p].status \in OpenStatus
    /\ \A p \in PickupRows(L) : \A d :
         pickup[p].link # 0 /\ d = supply[pickup[p].link].delivery =>
           IsPickupStep(p, d, stepOf(<<"PICKUP", p>>, L))
    /\ \A s \in SupplyRows(L) : \A d :
         d = supply[s].delivery => IsSupplyStep(s, d, stepOf(<<"SUPPLY", s>>, L))

LEMMA PickupStepIs ==
  ASSUME HInv, Together, NEW m \in Machines, NEW p \in PickupRows(MachineLists(m)),
         pickup[p].link # 0
  PROVE  LET d == supply[pickup[p].link].delivery IN
         stepOf(<<"PICKUP", p>>, MachineLists(m)) =
           IF d = 0 THEN 1
           ELSE IF delivery[d].status # "COMPLETED" THEN deliverStep(d)
           ELSE IF pickup[p].status = "ASSIGNED" THEN 7 ELSE 6
<1> DEFINE L == MachineLists(m)
           s == pickup[p].link
           d == supply[s].delivery
<1>1. p \in PickupIds /\ pickup[p].machine = m /\ pickup[p].status \in OpenStatus
  BY InLists DEF PickupRows, isOpenPickup
<1>2. s \in SupplyIds /\ supply[s].status # "ABSENT" /\ supply[s].machine = m
  BY <1>1, OneLink DEF HInv, Together
<1>3. findSupplyForPickup(p, L) = s
  BY <1>2, InLists DEF findSupplyForPickup, FoundIn
<1>4. d = 0 => supply[s].status = "OPEN"
  <2>1. supply[s].status # "CANCELLED"
    BY <1>1 DEF HInv, LiveLinks
  <2>2. supply[s].status = "FULFILLED" => d # 0
    BY <1>2 DEF HInv, RequestsGood
  <2> QED BY <1>2, <2>1, <2>2, Typed DEF HInv, SupplyRow
<1>5. stepOf(<<"PICKUP", p>>, L) = replenishmentPickupActiveStep(p, L)
  BY DEF stepOf
<1>6. pickup[p].status \in {"CREATED", "ASSIGNED"}
  BY <1>1 DEF OpenStatus
<1> HIDE DEF L
<1>7. replenishmentPickupActiveStep(p, L) =
        CASE d = 0 -> IF supply[s].status = "OPEN" THEN 1 ELSE 2
          [] d # 0 /\ delivery[d].status # "COMPLETED" -> deliverStep(d)
          [] d # 0 /\ delivery[d].status = "COMPLETED" ->
               CASE pickup[p].status = "COMPLETED" -> 9
                 [] pickup[p].status = "ASSIGNED"  -> 7
                 [] OTHER                          -> 6
  BY <1>3 DEF replenishmentPickupActiveStep
<1> HIDE DEF d, s
<1>8. CASE d = 0
  BY <1>4, <1>5, <1>7, <1>8 DEF L, d, s
<1>9. CASE d # 0 /\ delivery[d].status # "COMPLETED"
  BY <1>5, <1>7, <1>9 DEF L, d, s
<1>10. CASE d # 0 /\ delivery[d].status = "COMPLETED"
  BY <1>5, <1>6, <1>7, <1>10 DEF L, d, s
<1> QED BY <1>8, <1>9, <1>10

LEMMA SupplyStepIs ==
  ASSUME HInv, Together, NoRequestWithPallet, NEW m \in Machines,
         NEW s \in SupplyRows(MachineLists(m))
  PROVE  /\ s \in SupplyIds
         /\ \/ supply[s].status = "OPEN" /\ stepOf(<<"SUPPLY", s>>, MachineLists(m)) = 2
            \/ /\ supply[s].status = "FULFILLED" /\ supply[s].delivery \in DeliveryIds
               /\ stepOf(<<"SUPPLY", s>>, MachineLists(m)) = deliverStep(supply[s].delivery)
<1> DEFINE L == MachineLists(m)
           d == supply[s].delivery
<1>1. /\ s \in SupplyIds /\ supply[s].machine = m
      /\ supply[s].status \in {"OPEN", "FULFILLED"}
  BY InLists DEF SupplyRows
<1>2. stepOf(<<"SUPPLY", s>>, L) = supplyOnlyStep(s, L)
  BY DEF stepOf
<1>3. CASE supply[s].status = "OPEN"
  <2>1. d = 0
    BY <1>1, <1>3 DEF HInv, TInv, RowsFit, SupplyGood
  <2>2. OpenDeliveries(m) = {}
    BY <1>1, <1>3 DEF NoRequestWithPallet, OpenSupplies
  <2>3. {e \in L.deliveries : isOpenDelivery(e)} = {}
    BY <2>2, InLists DEF OpenDeliveries, isOpenDelivery
  <2>4. findDeliveryForSupplyRequest(s, L) = 0
    BY <1>3, <2>1, <2>3 DEF findDeliveryForSupplyRequest, Newest
  <2>5. supplyOnlyStep(s, L) = 2
    BY <1>3, <2>4 DEF supplyOnlyStep
  <2> QED BY <1>1, <1>2, <1>3, <2>5
<1>4. CASE supply[s].status = "FULFILLED"
  <2>1. d # 0
    BY <1>1, <1>4 DEF HInv, RequestsGood
  <2>2. d \in DeliveryIds /\ delivery[d].machine = m
    BY <1>1, <2>1, Answer DEF HInv, Together
  <2>3. d \in L.deliveries
    BY <2>2, InLists
  <2>4. findDeliveryForSupplyRequest(s, L) = d
    BY <2>1, <2>3 DEF findDeliveryForSupplyRequest, FoundIn
  <2>5. supplyOnlyStep(s, L) = deliverStep(d)
    BY <2>1, <2>4 DEF supplyOnlyStep
  <2> QED BY <1>1, <1>2, <1>4, <2>2, <2>5
<1> QED BY <1>1, <1>3, <1>4

LEMMA StepsKnown == HInv /\ Together /\ NoRequestWithPallet => StepsAre
<1> SUFFICES ASSUME HInv, Together, NoRequestWithPallet PROVE StepsAre
  OBVIOUS
<1>1. ASSUME NEW m \in Machines, NEW x \in PickupRows(MachineLists(m))
      PROVE  x \in PickupIds /\ pickup[x].status \in OpenStatus
  BY InLists DEF PickupRows, isOpenPickup
<1>2. ASSUME NEW m \in Machines, NEW p \in PickupRows(MachineLists(m)), NEW d,
             pickup[p].link # 0, d = supply[pickup[p].link].delivery
      PROVE  IsPickupStep(p, d, stepOf(<<"PICKUP", p>>, MachineLists(m)))
  BY <1>2, PickupStepIs DEF IsPickupStep
<1>3. ASSUME NEW m \in Machines, NEW s \in SupplyRows(MachineLists(m)), NEW d,
             d = supply[s].delivery
      PROVE  IsSupplyStep(s, d, stepOf(<<"SUPPLY", s>>, MachineLists(m)))
  BY <1>3, SupplyStepIs DEF IsSupplyStep
<1> QED BY <1>1, <1>2, <1>3 DEF StepsAre

\* In which order the pallet's steps come.
LEMMA DeliverStepIs ==
  ASSUME NEW d
  PROVE  /\ delivery[d].status = "COMPLETED" => deliverStep(d) = 6
         /\ delivery[d].status = "ASSIGNED" => deliverStep(d) = 4
         /\ delivery[d].status = "CREATED" /\ delivery[d].prepared => deliverStep(d) = 3
         /\ delivery[d].status = "CREATED" /\ ~ delivery[d].prepared => deliverStep(d) = 2
         /\ delivery[d].status \in {"ABSENT", "CANCELED"} => deliverStep(d) = 2
         /\ deliverStep(d) \in {2, 3, 4, 6}
         /\ delivery'[d].status = "COMPLETED" => deliverStep(d)' = 6
         /\ delivery'[d].status = "ASSIGNED" => deliverStep(d)' = 4
         /\ delivery'[d].status = "CREATED" /\ delivery'[d].prepared => deliverStep(d)' = 3
         /\ delivery'[d].status = "CREATED" /\ ~ delivery'[d].prepared => deliverStep(d)' = 2
         /\ delivery'[d].status \in {"ABSENT", "CANCELED"} => deliverStep(d)' = 2
         /\ deliverStep(d)' \in {2, 3, 4, 6}
BY DEF deliverStep

LEMMA DeliverStepGrows ==
  ASSUME TInv, [Next]_vars, NEW d \in DeliveryIds
  PROVE  /\ deliverStep(d) <= deliverStep(d)'
         /\ delivery[d].status = "COMPLETED" => delivery'[d].status = "COMPLETED"
<1>1. delivery[d].status \in TaskStatus
  BY Typed DEF GoodDelivery, DeliveryRow
<1>2. CASE delivery'[d] = delivery[d]
  <2>1. deliverStep(d)' = deliverStep(d)
    BY <1>2 DEF deliverStep
  <2> QED BY <1>2, <2>1, DeliverStepIs
<1>3. CASE Moves(d)
  BY <1>1, <1>3, DeliverStepIs DEF Moves, TaskStatus
<1> QED BY <1>2, <1>3, DeliveriesMove

LEMMA PickupCardGrows ==
  ASSUME HInv, StepsAre, StepsAre', [Next]_vars, NEW m \in Machines, NEW p,
         p \in PickupRows(MachineLists(m)), p \in PickupRows(MachineLists(m))',
         pickup'[p].link = pickup[p].link
  PROVE  stepOf(<<"PICKUP", p>>, MachineLists(m)) <= stepOf(<<"PICKUP", p>>, MachineLists(m))'
<1> DEFINE old == stepOf(<<"PICKUP", p>>, MachineLists(m))
           new == stepOf(<<"PICKUP", p>>, MachineLists(m))'
<1>1. /\ p \in PickupIds /\ pickup[p].status \in OpenStatus
      /\ pickup'[p].status \in OpenStatus
  BY DEF StepsAre
<1>2. pickup'[p].status = "CREATED" => pickup[p].status = "CREATED"
  <2>1. PickupMay(pickup[p], pickup'[p])
    BY <1>1, PickupsMove DEF HInv, PickupsMay
  <2> QED BY <1>1, <2>1 DEF PickupMay, OpenStatus
<1>3. CASE pickup[p].link = 0
  <2>1. old = pickupFlowStep(p) /\ new = pickupFlowStep(p)'
    BY <1>3 DEF stepOf
  <2>2. /\ pickup[p].status = "CREATED" => pickupFlowStep(p) = 1
        /\ pickup[p].status = "ASSIGNED" => pickupFlowStep(p) = 2
        /\ pickup'[p].status = "CREATED" => pickupFlowStep(p)' = 1
        /\ pickup'[p].status = "ASSIGNED" => pickupFlowStep(p)' = 2
    BY DEF pickupFlowStep
  <2> QED BY <1>1, <1>2, <2>1, <2>2 DEF OpenStatus
<1>4. CASE pickup[p].link # 0
  <2>1. PICK s \in SupplyIds : s = pickup[p].link /\ s = pickup'[p].link /\ s # 0
    BY <1>1, <1>4, OneLink DEF HInv
  <2>2. PICK d : d = supply[s].delivery
    OBVIOUS
  <2>3. PICK e : e = supply'[s].delivery
    OBVIOUS
  <2>4. /\ d = 0 => old = 1
        /\ d # 0 /\ delivery[d].status # "COMPLETED" => old = deliverStep(d)
        /\ d # 0 /\ delivery[d].status = "COMPLETED" /\ pickup[p].status = "ASSIGNED" => old = 7
        /\ d # 0 /\ delivery[d].status = "COMPLETED" /\ pickup[p].status = "CREATED" => old = 6
    <3>1. IsPickupStep(p, d, old)
      BY <2>1, <2>2 DEF StepsAre
    <3> QED BY <3>1 DEF IsPickupStep
  <2>5. /\ e = 0 => new = 1
        /\ e # 0 /\ delivery'[e].status # "COMPLETED" => new = deliverStep(e)'
        /\ e # 0 /\ delivery'[e].status = "COMPLETED" /\ pickup'[p].status = "ASSIGNED" => new = 7
        /\ e # 0 /\ delivery'[e].status = "COMPLETED" /\ pickup'[p].status = "CREATED" => new = 6
    <3>1. IsPickupStep(p, e, stepOf(<<"PICKUP", p>>, MachineLists(m)))'
      BY <2>1, <2>3 DEF StepsAre
    <3> QED BY <3>1 DEF IsPickupStep
  <2>6. d # 0 => e = d /\ d \in DeliveryIds
    <3>1. RequestMoves(s)
      BY RequestsMove DEF HInv
    <3> QED BY <2>2, <2>3, <3>1, Answer DEF HInv, RequestMoves
  <2> HIDE DEF old, new
  <2>7. CASE d = 0
    <3>1. deliverStep(e)' \in {2, 3, 4, 6}
      BY DeliverStepIs
    <3>2. new \in {1, 2, 3, 4, 6, 7}
      BY <1>1, <2>5, <3>1 DEF OpenStatus
    <3> QED BY <2>4, <2>7, <3>2 DEF old, new
  <2>8. CASE d # 0
    <3>1. e = d /\ d \in DeliveryIds
      BY <2>6, <2>8
    <3>2. /\ deliverStep(d) <= deliverStep(d)'
          /\ delivery[d].status = "COMPLETED" => delivery'[d].status = "COMPLETED"
      BY <3>1, DeliverStepGrows DEF HInv
    <3>3. deliverStep(d) \in {2, 3, 4, 6} /\ deliverStep(d)' \in {2, 3, 4, 6}
      BY DeliverStepIs
    <3>4. /\ delivery'[d].status # "COMPLETED" => new = deliverStep(d)'
          /\ delivery'[d].status = "COMPLETED" =>
               /\ pickup'[p].status = "ASSIGNED" => new = 7
               /\ pickup'[p].status = "CREATED" => new = 6
      BY <2>5, <2>8, <3>1
    <3>5. old <= new
      <4>1. CASE delivery[d].status = "COMPLETED"
        BY <1>1, <1>2, <2>4, <2>8, <3>2, <3>4, <4>1 DEF OpenStatus
      <4>2. CASE delivery[d].status # "COMPLETED" /\ delivery'[d].status # "COMPLETED"
        BY <2>4, <2>8, <3>2, <3>4, <4>2
      <4>3. CASE delivery[d].status # "COMPLETED" /\ delivery'[d].status = "COMPLETED"
        BY <1>1, <2>4, <2>8, <3>3, <3>4, <4>3 DEF OpenStatus
      <4> QED BY <4>1, <4>2, <4>3
    <3> QED BY <3>5 DEF old, new
  <2> QED BY <2>7, <2>8
<1> QED BY <1>3, <1>4

LEMMA SupplyCardGrows ==
  ASSUME HInv, StepsAre, StepsAre', [Next]_vars, NEW m \in Machines, NEW s,
         s \in SupplyRows(MachineLists(m)), s \in SupplyRows(MachineLists(m))'
  PROVE  stepOf(<<"SUPPLY", s>>, MachineLists(m)) <= stepOf(<<"SUPPLY", s>>, MachineLists(m))'
<1> DEFINE old == stepOf(<<"SUPPLY", s>>, MachineLists(m))
           new == stepOf(<<"SUPPLY", s>>, MachineLists(m))'
<1>1. PICK d : d = supply[s].delivery
  OBVIOUS
<1>2. PICK e : e = supply'[s].delivery
  OBVIOUS
<1>3. /\ s \in SupplyIds
      /\ \/ supply[s].status = "OPEN" /\ old = 2
         \/ supply[s].status = "FULFILLED" /\ d \in DeliveryIds /\ old = deliverStep(d)
  BY <1>1 DEF StepsAre, IsSupplyStep
<1>4. \/ supply'[s].status = "OPEN" /\ new = 2
      \/ supply'[s].status = "FULFILLED" /\ e \in DeliveryIds /\ new = deliverStep(e)'
  BY <1>2 DEF StepsAre, IsSupplyStep
<1>5. RequestMoves(s)
  BY <1>3, RequestsMove DEF HInv
<1> HIDE DEF old, new
<1>6. CASE supply[s].status = "OPEN"
  <2>1. deliverStep(e)' \in {2, 3, 4, 6}
    BY DeliverStepIs
  <2>2. old = 2 /\ new \in {2, 3, 4, 6}
    BY <1>3, <1>4, <1>6, <2>1
  <2> QED BY <2>2 DEF old, new
<1>7. CASE supply[s].status = "FULFILLED"
  <2>1. d \in DeliveryIds /\ e = d /\ supply'[s].status # "OPEN" /\ old = deliverStep(d)
    BY <1>1, <1>2, <1>3, <1>5, <1>7 DEF RequestMoves
  <2>2. deliverStep(d) <= deliverStep(d)' /\ new = deliverStep(d)'
    BY <1>4, <2>1, DeliverStepGrows DEF HInv
  <2> QED BY <2>1, <2>2 DEF old, new
<1> QED BY <1>3, <1>6, <1>7

LEMMA CardsGrow ==
  ASSUME HInv, StepsAre, StepsAre', [Next]_vars, NEW m \in Machines, NEW c,
         c \in Cards(MachineLists(m)), c \in Cards(MachineLists(m))',
         c[1] = "PICKUP" => pickup'[c[2]].link = pickup[c[2]].link
  PROVE  stepOf(c, MachineLists(m)) <= stepOf(c, MachineLists(m))'
<1>1. ASSUME NEW d \in DeliveryRows(MachineLists(m)), c = <<"DELIVERY", d>>
      PROVE  stepOf(c, MachineLists(m)) <= stepOf(c, MachineLists(m))'
  <2>1. d \in DeliveryIds
    BY InLists DEF DeliveryRows
  <2>2. stepOf(c, MachineLists(m)) = deliverStep(d)
    BY <1>1 DEF stepOf
  <2>3. stepOf(c, MachineLists(m))' = deliverStep(d)'
    BY <1>1 DEF stepOf, deliverStep
  <2> QED BY <2>1, <2>2, <2>3, DeliverStepGrows DEF HInv
<1>2. ASSUME NEW p \in PickupRows(MachineLists(m)), c = <<"PICKUP", p>>
      PROVE  stepOf(c, MachineLists(m)) <= stepOf(c, MachineLists(m))'
  <2>1. p \in PickupRows(MachineLists(m))'
    BY <1>2 DEF Cards
  <2>2. pickup'[p].link = pickup[p].link
    BY <1>2
  <2> QED BY <1>2, <2>1, <2>2, PickupCardGrows
<1>3. ASSUME NEW s \in SupplyRows(MachineLists(m)), c = <<"SUPPLY", s>>
      PROVE  stepOf(c, MachineLists(m)) <= stepOf(c, MachineLists(m))'
  <2>1. s \in SupplyRows(MachineLists(m))'
    BY <1>3 DEF Cards
  <2> QED BY <1>3, <2>1, SupplyCardGrows
<1> QED BY <1>1, <1>2, <1>3, CardKinds

\* What CardNeverGoesBack says of a step.
Forward ==
  \A m \in Machines :
    \A c \in Cards(MachineLists(m)) \cap Cards(MachineLists(m))' :
      (c[1] = "PICKUP" => pickup'[c[2]].link = pickup[c[2]].link) =>
        stepOf(c, MachineLists(m)) <= stepOf(c, MachineLists(m))'

\* The screens are not crossed by an edit that took a pallet to another machine, nor by a
\* delivery that fulfilled another machine's request.
Uncrossed == Together /\ NoRequestWithPallet

LEMMA StepForward == HInv /\ HInv' /\ Uncrossed /\ Uncrossed' /\ [Next]_vars => Forward
<1>1. HInv /\ Uncrossed => StepsAre
  BY StepsKnown DEF Uncrossed
<1>2. (HInv /\ Uncrossed => StepsAre)'
  BY <1>1, PTL
<1>3. HInv /\ StepsAre /\ StepsAre' /\ [Next]_vars => Forward
  BY CardsGrow DEF Forward
<1> QED BY <1>1, <1>2, <1>3

\* For any number of machines, no card goes back a step, as long as it is shown with the
\* same link and nothing is crossed: the pallet's step is the stage of the delivery that the
\* request names, which goes only forward, and which a request names once and for all.
THEOREM NeverBackUncrossed ==
  ASSUME OneSlot PROVE Spec => [][Uncrossed /\ Uncrossed' => Forward]_vars
<1>1. HInv /\ HInv' /\ [Next]_vars => [Uncrossed /\ Uncrossed' => Forward]_vars
  BY StepForward
<1> HIDE DEF Uncrossed, Forward
<1> QED BY <1>1, AlwaysHInv, PTL DEF Spec

\* With one machine nothing is ever crossed.
THEOREM NeverBackInSeries == ASSUME OneSlot, OneMachine PROVE Spec => CardNeverGoesBack
<1>1. HInv /\ MInv => Uncrossed
  BY OnePlace DEF MInv, Uncrossed
<1>2. HInv /\ HInv' /\ Uncrossed /\ Uncrossed' /\ [Next]_vars => [Forward]_vars
  BY StepForward
<1>3. CardNeverGoesBack <=> [][Forward]_vars
  BY DEF CardNeverGoesBack, Forward
<1> HIDE DEF Uncrossed, Forward
<1> QED BY <1>1, <1>2, <1>3, AlwaysHInv, AlwaysMInv, PTL DEF Spec
=============================================================================
