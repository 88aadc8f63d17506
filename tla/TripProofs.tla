------------------------------ MODULE TripProofs ------------------------------
(***************************************************************************)
(* The rest of what holds when requests are served one after the other:    *)
(* how the four tables hang together.  A trip is the pair that the foreign *)
(* keys name, one transporter has one trip in hand, what leaves is         *)
(* prepared, a delivery is cancelled with its request; and the deliveries  *)
(* behave as DeliveryLifecycle says.                                       *)
(***************************************************************************)
EXTENDS SerialProofs

\* A request names its delivery from the moment it is fulfilled, the delivery is there,
\* no other request has it, and the two are cancelled together.
SupplyGood ==
  /\ \A s \in SupplyIds : supply[s].status \in {"ABSENT", "OPEN"} => supply[s].delivery = 0
  /\ \A s \in SupplyIds : supply[s].delivery # 0 =>
       /\ delivery[supply[s].delivery].status # "ABSENT"
       /\ (delivery[supply[s].delivery].status = "CANCELED") = (supply[s].status = "CANCELLED")
       /\ \A k \in SupplyIds : supply[k].delivery = supply[s].delivery => k = s

\* A link is to a request that is there and has no other link.
LinksGood ==
  \A p \in PickupIds : pickup[p].link # 0 =>
    /\ supply[pickup[p].link].status # "ABSENT"
    /\ \A k \in PickupIds : pickup[k].link = pickup[p].link => k = p

\* A trip is a linked pair while its pickup is open, and one that was ever shown has a
\* prepared delivery, whatever has become of the row.
TripsGood ==
  /\ \A r \in TripIds : isLive(r) =>
       /\ delivery[trip[r].deliver].status # "ABSENT"
       /\ pickup[trip[r].pickup].status # "ABSENT"
       /\ pickup[trip[r].pickup].status \in OpenStatus =>
            isLinkedPair(trip[r].deliver, trip[r].pickup)
  /\ \A r \in seen.trip :
       /\ trip[r].status # "ABSENT"
       /\ isLive(r) => delivery[trip[r].deliver].prepared

HandsGood ==
  \A o \in Operators :
    /\ \A d, e \in OpenDeliveriesOf(o) : d = e
    /\ \A p, k \in OpenPickupsOf(o) : p = k
    /\ \A d \in OpenDeliveriesOf(o), p \in OpenPickupsOf(o) : isLinkedPair(d, p)

HandsFree(o) == OpenDeliveriesOf(o) = {} /\ OpenPickupsOf(o) = {}

\* What job j knows of the rows when its next step begins.
Recalls(j) ==
  /\ j.kind = "pair" =>
       /\ pickup[j.p].status = "CREATED" /\ isLinkedPair(j.d, j.p)
       /\ j.row # 0 => trip[j.row].status # "ABSENT"
       /\ j.row \in seen.trip => delivery[j.d].prepared
  /\ j.kind = "orphan" => delivery[j.d].status \in OpenStatus
  /\ j.kind = "linkTo" => supply[j.s].status # "ABSENT" /\ supply[j.s].delivery = j.d
  /\ j.kind = "linkFrom" => supply[j.s].status # "ABSENT"
  /\ j.kind \in {"join", "joinPair"} =>
       /\ isLinkedPair(j.d, j.p) /\ pickup[j.p].status # "ABSENT"
       /\ delivery[j.d].status = "ASSIGNED" /\ delivery[j.d].op = j.o
  /\ j.kind = "cancel" /\ j.s # 0 => supply[j.s].status # "ABSENT"
  /\ j.kind = "cancelTx" =>
       /\ j.d # 0 => j.s # 0 /\ supply[j.s].delivery = j.d
       /\ j.d = 0 /\ j.s # 0 => supply[j.s].status = "OPEN"
  /\ j.kind \in {"acceptDeliver", "acceptPickup", "acceptTrip"} => HandsFree(j.o)
  /\ j.kind \in {"acceptDeliver", "acceptTrip"} => delivery[j.d].prepared
  /\ j.kind = "acceptTrip" =>
       isLive(j.r) /\ trip[j.r].deliver = j.d /\ trip[j.r].pickup = j.p
  /\ j.kind = "completeDeliver" => delivery[j.d].status = "ASSIGNED"

RecallKinds ==
  {"pair", "orphan", "linkTo", "linkFrom", "join", "joinPair", "cancel", "cancelTx",
   "acceptDeliver", "acceptPickup", "acceptTrip", "completeDeliver"}

RowsFit == SupplyGood /\ LinksGood /\ TripsGood /\ HandsGood /\ DriveOnlyPrepared

TInv ==
  /\ SInv /\ OnePairPerTask /\ RowsFit
  /\ \A w \in Slots : Recalls(job[w])

\* What a step of slot w has to keep.
Fits(w) == RowsFit' /\ Recalls(job[w])'
-----------------------------------------------------------------------------
(* Steps that write no row.                                                *)

LEMMA Reads ==
  ASSUME TInv, NEW w \in Slots, UNCHANGED <<delivery, pickup, supply, trip, seen>>,
         Recalls(job[w])'
  PROVE  Fits(w)
BY DEF TInv, Fits, RowsFit, SupplyGood, LinksGood, TripsGood, HandsGood, DriveOnlyPrepared,
       OpenDeliveriesOf, OpenPickupsOf, isLinkedPair, isLive

LEMMA NothingRecalled ==
  ASSUME NEW w \in Slots, job'[w].kind \notin RecallKinds
  PROVE  Recalls(job[w])'
BY DEF Recalls, RecallKinds

LEMMA OnlyReads ==
  ASSUME TInv, NEW w \in Slots, UNCHANGED <<delivery, pickup, supply, trip, seen>>,
         job'[w].kind \notin RecallKinds
  PROVE  Fits(w)
BY Reads, NothingRecalled

\* Continues, of the stronger invariant.
LEMMA GoesOn ==
  ASSUME TInv, NEW w \in Slots, NEW next, Continue(w, next)
  PROVE  job'[w] = next
BY Continues DEF TInv

\* The rows and the jobs have their types.
LEMMA Typed ==
  ASSUME TInv
  PROVE  /\ \A d \in DeliveryIds : delivery[d] \in GoodDelivery
         /\ \A p \in PickupIds : pickup[p] \in GoodPickup
         /\ \A s \in SupplyIds : supply[s] \in SupplyRow
         /\ \A r \in TripIds : trip[r] \in GoodTrip
         /\ \A w \in Slots : job[w] \in JobSet
BY DEF TInv, SInv, IInv, RowsGood, JobsOK
-----------------------------------------------------------------------------
(* What requests read.                                                     *)

LEMMA FreeHands ==
  ASSUME NEW o, ~ HasIncompleteTasks(o)
  PROVE  HandsFree(o)
BY DEF HasIncompleteTasks, HandsFree, OpenDeliveriesOf, OpenPickupsOf

LEMMA AcceptsFit ==
  ASSUME TInv, NEW w \in Slots, NEW o \in Operators,
         \/ \E d \in DeliveryIds : BeginAcceptDeliver(w, o, d)
         \/ \E p \in PickupIds : BeginAcceptPickup(w, o, p)
         \/ \E r \in TripIds : BeginAcceptTrip(w, o, r)
  PROVE  Fits(w)
<1>1. ASSUME NEW d \in DeliveryIds, BeginAcceptDeliver(w, o, d) PROVE Fits(w)
  <2>1. job'[w] = [kind |-> "acceptDeliver", o |-> o, d |-> d, with |-> mode[o]]
    BY <1>1, GoesOn DEF BeginAcceptDeliver
  <2>2. HandsFree(o)' /\ delivery'[d].prepared
    BY <1>1, FreeHands DEF BeginAcceptDeliver, mayAccept, HandsFree, OpenDeliveriesOf, OpenPickupsOf
  <2>3. Recalls(job[w])'
    BY <2>1, <2>2 DEF Recalls
  <2> QED BY <1>1, <2>3, Reads DEF BeginAcceptDeliver
<1>2. ASSUME NEW p \in PickupIds, BeginAcceptPickup(w, o, p) PROVE Fits(w)
  <2>1. job'[w] = [kind |-> "acceptPickup", o |-> o, p |-> p, with |-> mode[o]]
    BY <1>2, GoesOn DEF BeginAcceptPickup
  <2>2. HandsFree(o)'
    BY <1>2, FreeHands DEF BeginAcceptPickup, mayAccept, HandsFree, OpenDeliveriesOf, OpenPickupsOf
  <2>3. Recalls(job[w])'
    BY <2>1, <2>2 DEF Recalls
  <2> QED BY <1>2, <2>3, Reads DEF BeginAcceptPickup
<1>3. ASSUME NEW r \in TripIds, BeginAcceptTrip(w, o, r) PROVE Fits(w)
  <2>1. job'[w] = [kind |-> "acceptTrip", o |-> o, r |-> r, d |-> trip[r].deliver,
                   p |-> trip[r].pickup, with |-> mode[o]]
    BY <1>3, GoesOn DEF BeginAcceptTrip
  <2>2. HandsFree(o)'
    BY <1>3, FreeHands DEF BeginAcceptTrip, mayAccept, HandsFree, OpenDeliveriesOf, OpenPickupsOf
  <2>3. isLive(r) /\ delivery[trip[r].deliver].prepared
    BY <1>3 DEF BeginAcceptTrip, isLive, TInv, RowsFit, TripsGood
  <2>4. UNCHANGED <<delivery, pickup, supply, trip, seen>>
    BY <1>3 DEF BeginAcceptTrip
  <2>5. Recalls(job[w])'
    BY <2>1, <2>2, <2>3, <2>4 DEF Recalls, isLive
  <2> QED BY <2>4, <2>5, Reads
<1> QED BY <1>1, <1>2, <1>3

\* A delivery that somebody has in hand is on its way.
LEMMA CompletesFit ==
  ASSUME TInv, NEW w \in Slots, NEW o \in Operators, NEW d \in DeliveryIds,
         BeginCompleteDeliver(w, o, d)
  PROVE  Fits(w)
<1>1. job'[w] = [kind |-> "completeDeliver", d |-> d]
  BY GoesOn DEF BeginCompleteDeliver
<1>2. delivery[d].status = "ASSIGNED"
  BY Typed, NullAssumption DEF BeginCompleteDeliver, GoodDelivery, isWaiting, OpenStatus
<1>3. Recalls(job[w])'
  BY <1>1, <1>2 DEF Recalls, BeginCompleteDeliver
<1> QED BY <1>3, Reads DEF BeginCompleteDeliver

LEMMA TransportReadsFit ==
  ASSUME TInv, NEW w \in Slots, NEW o \in Operators,
         \/ \E m \in OperatingModes : SetMode(w, o, m)
         \/ BeginClearMode(w, o)
         \/ \E p \in PickupIds : BeginCompletePickup(w, o, p)
  PROVE  Fits(w)
<1>1. ASSUME NEW m, SetMode(w, o, m) PROVE Fits(w)
  BY <1>1, OnlyReads DEF SetMode, isFree, Idle, RecallKinds
<1>2. CASE BeginClearMode(w, o)
  <2>1. job'[w] = [kind |-> "clearMode", o |-> o]
    BY <1>2, GoesOn DEF BeginClearMode
  <2> QED BY <1>2, <2>1, OnlyReads DEF BeginClearMode, RecallKinds
<1>3. ASSUME NEW p, BeginCompletePickup(w, o, p) PROVE Fits(w)
  <2>1. job'[w].kind = "completePickup"
    BY <1>3, GoesOn DEF BeginCompletePickup
  <2> QED BY <1>3, <2>1, OnlyReads DEF BeginCompletePickup, RecallKinds
<1> QED BY <1>1, <1>2, <1>3

LEMMA DeskReadsFit ==
  ASSUME TInv, NEW w \in Slots,
         \/ \E d \in DeliveryIds, m \in Machines \cup {NoMachine}, t \in TaskTypes \cup {"NONE"} :
              BeginEdit(w, d, m, t)
         \/ \E m \in Machines, status \in {"TRABALHANDO", "ABASTECER"} :
              SetProductionStatus(w, m, status)
         \/ \E m \in Machines : RepairLinks(w, m) \/ BeginRequestSupply(w, m)
         \/ \E m \in Machines, t \in TaskTypes : BeginRequestBoth(w, m, t)
         \/ ResumeMachine(w) \/ FinishClearMode(w) \/ Fail(w)
  PROVE  Fits(w)
<1>1. ASSUME NEW d, NEW m, NEW t, BeginEdit(w, d, m, t) PROVE Fits(w)
  <2>1. job'[w].kind = "edit"
    BY <1>1, GoesOn DEF BeginEdit
  <2> QED BY <1>1, <2>1, OnlyReads DEF BeginEdit, RecallKinds
<1>2. ASSUME NEW m, NEW status, SetProductionStatus(w, m, status) PROVE Fits(w)
  BY <1>2, OnlyReads DEF SetProductionStatus, isFree, Idle, RecallKinds
<1>3. ASSUME NEW m, RepairLinks(w, m) PROVE Fits(w)
  <2>1. job'[w].kind = "link"
    BY <1>3, GoesOn DEF RepairLinks
  <2> QED BY <1>3, <2>1, OnlyReads DEF RepairLinks, RecallKinds
<1>4. ASSUME NEW m, BeginRequestSupply(w, m) PROVE Fits(w)
  <2>1. job'[w].kind = "newSupply"
    BY <1>4, GoesOn DEF BeginRequestSupply
  <2> QED BY <1>4, <2>1, OnlyReads DEF BeginRequestSupply, RecallKinds
<1>5. ASSUME NEW m, NEW t, BeginRequestBoth(w, m, t) PROVE Fits(w)
  <2>1. job'[w].kind = "newPair"
    BY <1>5, GoesOn DEF BeginRequestBoth
  <2> QED BY <1>5, <2>1, OnlyReads DEF BeginRequestBoth, RecallKinds
<1>6. CASE ResumeMachine(w) \/ FinishClearMode(w) \/ Fail(w)
  <2>1. job'[w].kind = "idle"
    BY <1>6, GoesOn DEF ResumeMachine, FinishClearMode, Fail, Idle
  <2> QED BY <1>6, <2>1, OnlyReads DEF ResumeMachine, FinishClearMode, Fail, RecallKinds
<1> QED BY <1>1, <1>2, <1>3, <1>4, <1>5, <1>6

\* Cancelling: the link names a request that is there; the reads find a delivery only
\* together with the request that it answers.
LEMMA CancelReadsFit ==
  ASSUME TInv, NEW w \in Slots, (\E p \in PickupIds : BeginCancel(w, p)) \/ ReadCancel(w)
  PROVE  Fits(w)
<1>1. ASSUME NEW p \in PickupIds, BeginCancel(w, p) PROVE Fits(w)
  <2>1. job'[w] = [kind |-> "cancel", p |-> p, s |-> pickup[p].link]
    BY <1>1, GoesOn DEF BeginCancel
  <2>2. pickup[p].link # 0 => supply[pickup[p].link].status # "ABSENT"
    BY DEF TInv, RowsFit, LinksGood
  <2>3. UNCHANGED <<delivery, pickup, supply, trip, seen>>
    BY <1>1 DEF BeginCancel
  <2>4. Recalls(job[w])'
    BY <2>1, <2>2, <2>3 DEF Recalls
  <2> QED BY <2>3, <2>4, Reads
<1>2. CASE ReadCancel(w)
  <2> DEFINE j == job[w]
             d == IF j.s # 0 /\ supply[j.s].status = "FULFILLED" THEN supply[j.s].delivery ELSE 0
             goes == j.s # 0 /\ (supply[j.s].status = "OPEN" \/ isCancelableDelivery(d))
             s1 == IF goes THEN j.s ELSE 0
             d1 == IF isCancelableDelivery(d) THEN d ELSE 0
  <2>1. Continue(w, [kind |-> "cancelTx", p |-> j.p, s |-> s1, d |-> d1])
    BY <1>2 DEF ReadCancel
  <2>2. job'[w] = [kind |-> "cancelTx", p |-> j.p, s |-> s1, d |-> d1]
    BY <2>1, GoesOn
  <2>3. d1 # 0 => s1 # 0 /\ supply[s1].delivery = d1
    BY DEF isCancelableDelivery
  <2>4. d1 = 0 /\ s1 # 0 => supply[s1].status = "OPEN"
    BY DEF isCancelableDelivery
  <2>5. UNCHANGED <<delivery, pickup, supply, trip, seen>>
    BY <1>2 DEF ReadCancel
  <2> HIDE DEF s1, d1
  <2>6. Recalls(job[w])'
    BY <2>2, <2>3, <2>4, <2>5 DEF Recalls
  <2> QED BY <2>5, <2>6, Reads
<1> QED BY <1>1, <1>2

\* The request of a delivery.
LEMMA SupplyOfIs ==
  ASSUME NEW d, SupplyOf(d) # 0
  PROVE  SupplyOf(d) \in SupplyIds /\ supply[SupplyOf(d)].delivery = d
<1> DEFINE S == {s \in SupplyIds : supply[s].delivery = d}
<1>1. S \in SUBSET (1 .. MaxSupply) /\ MaxSupply \in Nat
  BY BoundsAssumption DEF SupplyIds
<1>2. SupplyOf(d) = Oldest(S)
  BY DEF SupplyOf
<1> HIDE DEF S
<1>3. SupplyOf(d) \in S
  BY <1>1, <1>2, OldestIsIn
<1> QED BY <1>3 DEF S

\* A request that was read to be linked is there.
LEMMA LinkToFits ==
  ASSUME TInv, NEW w \in Slots, NEW p, NEW m, NEW s \in SupplyIds, supply[s].status # "ABSENT",
         LinkTo(w, p, m, s), UNCHANGED <<delivery, pickup, supply, trip, seen>>
  PROVE  Fits(w)
<1>1. job'[w] = [kind |-> "linkTo", p |-> p, m |-> m, s |-> s, d |-> supply[s].delivery]
  BY GoesOn DEF LinkTo
<1>2. Recalls(job[w])'
  BY <1>1 DEF Recalls
<1> QED BY <1>2, Reads

LEMMA ResolveSupplyFits == ASSUME TInv, NEW w \in Slots, ResolveSupply(w) PROVE Fits(w)
<1> DEFINE j == job[w]
<1>1. j.m \in Machines
  <2>1. j \in LinkJob
    BY Typed, JobShape DEF ResolveSupply
  <2> QED BY <2>1 DEF LinkJob
<1>2. UNCHANGED <<delivery, pickup, supply, trip, seen>>
  BY DEF ResolveSupply
<1>3. CASE Continue(w, Idle)
  <2>1. job'[w].kind = "idle"
    BY <1>3, GoesOn DEF Idle
  <2> QED BY <1>2, <2>1, OnlyReads DEF RecallKinds
<1>4. CASE EligibleUnclaimed(j.m) # {} /\ LinkTo(w, j.p, j.m, Oldest(EligibleUnclaimed(j.m)))
  <2> DEFINE s == Oldest(EligibleUnclaimed(j.m))
  <2>1. s \in EligibleUnclaimed(j.m)
    <3>1. EligibleUnclaimed(j.m) \in SUBSET (1 .. MaxSupply) /\ MaxSupply \in Nat
      BY BoundsAssumption DEF SupplyIds, EligibleUnclaimed
    <3> QED BY <1>4, <3>1, OldestIsIn
  <2>2. s \in SupplyIds /\ supply[s].status # "ABSENT"
    BY <2>1 DEF EligibleUnclaimed, isEligibleSupply
  <2> HIDE DEF s
  <2> QED BY <1>2, <1>4, <2>2, LinkToFits DEF s
<1>5. ASSUME NEW d \in DeliveriesToJoin(j.m), SupplyOf(d) = 0,
             Continue(w, [kind |-> "orphan", p |-> j.p, m |-> j.m, d |-> d,
                          dm |-> delivery[d].machine])
      PROVE  Fits(w)
  <2>1. job'[w] = [kind |-> "orphan", p |-> j.p, m |-> j.m, d |-> d, dm |-> delivery[d].machine]
    BY <1>5, GoesOn
  <2>2. delivery[d].status \in OpenStatus
    BY <1>1, <1>5, DeliveriesToJoinType DEF OpenDeliveries
  <2>3. Recalls(job[w])'
    BY <1>2, <2>1, <2>2 DEF Recalls
  <2> QED BY <1>2, <2>3, Reads
<1>6. ASSUME NEW d \in DeliveriesToJoin(j.m), SupplyOf(d) # 0, LinkTo(w, j.p, j.m, SupplyOf(d))
      PROVE  Fits(w)
  <2>1. d \in DeliveryIds
    BY <1>1, DeliveriesToJoinType DEF OpenDeliveries
  <2>2. SupplyOf(d) \in SupplyIds /\ supply[SupplyOf(d)].delivery # 0
    BY <1>6, <2>1, SupplyOfIs, BoundsAssumption DEF DeliveryIds
  <2>3. supply[SupplyOf(d)].status # "ABSENT"
    BY <2>2 DEF TInv, RowsFit, SupplyGood
  <2> QED BY <1>2, <1>6, <2>2, <2>3, LinkToFits
<1> QED BY <1>3, <1>4, <1>5, <1>6 DEF ResolveSupply
-----------------------------------------------------------------------------
(* Steps that write trips only.                                            *)

\* No row vanishes, and none comes to life or changes its pair.
TripsLast ==
  KeepsPairs /\ \A r \in TripIds : trip[r].status # "ABSENT" => trip'[r].status # "ABSENT"

\* The pairs that are left are pairs that were there.
LEMMA TripsKept ==
  ASSUME TInv, NEW w \in Slots, TripsLast, UNCHANGED <<delivery, pickup, supply, seen>>,
         Recalls(job[w])'
  PROVE  Fits(w)
<1>1. TripsGood'
  <2>1. ASSUME NEW r \in TripIds, isLive(r)'
        PROVE  /\ delivery'[trip'[r].deliver].status # "ABSENT"
               /\ pickup'[trip'[r].pickup].status # "ABSENT"
               /\ pickup'[trip'[r].pickup].status \in OpenStatus =>
                    isLinkedPair(trip[r].deliver, trip[r].pickup)'
    <3>1. isLive(r) /\ trip'[r].deliver = trip[r].deliver /\ trip'[r].pickup = trip[r].pickup
      BY <2>1 DEF TripsLast, KeepsPairs
    <3> QED BY <3>1 DEF TInv, RowsFit, TripsGood, isLinkedPair
  <2>2. ASSUME NEW r \in seen'.trip
        PROVE  /\ trip'[r].status # "ABSENT"
               /\ isLive(r)' => delivery'[trip'[r].deliver].prepared
    <3>1. r \in seen.trip /\ r \in TripIds
      BY DEF TInv, SInv, IInv, RestOK
    <3> QED BY <3>1 DEF TripsLast, KeepsPairs, TInv, RowsFit, TripsGood
  <2> QED BY <2>1, <2>2 DEF TripsGood
<1> QED BY <1>1 DEF TInv, Fits, RowsFit, SupplyGood, LinksGood, HandsGood, DriveOnlyPrepared,
                    OpenDeliveriesOf, OpenPickupsOf, isLinkedPair

\* Changing the status of live rows.
LEMMA StatusOnly ==
  ASSUME TInv, \A r \in TripIds :
                 \/ trip'[r] = trip[r]
                 \/ /\ isLive(r)
                    /\ \E s \in {"EXPIRED", "ACCEPTED", "COMPLETED"} :
                         trip'[r] = [trip[r] EXCEPT !.status = s]
  PROVE  TripsLast
<1>1. KeepsPairs
  BY ExpiringKeeps DEF TInv, SInv
<1>2. ASSUME NEW r \in TripIds, trip[r].status # "ABSENT" PROVE trip'[r].status # "ABSENT"
  <2>1. trip[r] \in TripRow
    BY Typed DEF GoodTrip
  <2>2. \A s : [trip[r] EXCEPT !.status = s].status = s
    BY <2>1 DEF TripRow
  <2>3. CASE trip'[r] = trip[r]
    BY <1>2, <2>3
  <2>4. ASSUME NEW s \in {"EXPIRED", "ACCEPTED", "COMPLETED"},
               trip'[r] = [trip[r] EXCEPT !.status = s]
        PROVE  trip'[r].status # "ABSENT"
    <3>1. trip'[r].status = s
      BY <2>2, <2>4
    <3> QED BY <3>1
  <2> QED BY <2>3, <2>4
<1> QED BY <1>1, <1>2 DEF TripsLast

\* What the transaction that keeps a pair reads.
LEMMA StartUpsertFits ==
  ASSUME TInv, NEW w \in Slots, NEW d \in DeliveryIds, NEW p \in PickupIds, NEW m, NEW t,
         NEW then, then.kind \notin RecallKinds, StartUpsert(w, d, p, m, t, then),
         pickup[p].status = "CREATED", isLinkedPair(d, p),
         UNCHANGED <<delivery, pickup, supply, seen>>
  PROVE  Fits(w)
<1> DEFINE byD == RowByDeliver(d)
           byP == RowByPickup(p)
           row == IF byD # 0 THEN byD ELSE byP
           drop == IF byD # 0 /\ byP # 0 /\ byD # byP THEN byP ELSE 0
<1>1. trip' = OtherPairsExpired(d, p)
  BY DEF StartUpsert
<1>2. TripsLast
  BY <1>1, StatusOnly DEF OtherPairsExpired, isLive
<1>3. CASE Continue(w, then)
  <2>1. job'[w] = then
    BY <1>3, GoesOn
  <2> QED BY <1>2, <2>1, NothingRecalled, TripsKept
<1>4. CASE Continue(w, [kind |-> "pair", d |-> d, p |-> p, m |-> m, t |-> t,
                        row |-> row, drop |-> drop, then |-> then])
  <2>1. job'[w] = [kind |-> "pair", d |-> d, p |-> p, m |-> m, t |-> t,
                   row |-> row, drop |-> drop, then |-> then]
    BY <1>4, GoesOn
  <2>2. row # 0 => row \in TripIds /\ isLive(row) /\ trip[row].deliver = d
    <3> DEFINE S == {r \in TripIds : isLive(r) /\ trip[r].deliver = d}
               T == {r \in TripIds : isLive(r) /\ trip[r].pickup = p}
    <3>1. S \in SUBSET (1 .. MaxTrip) /\ T \in SUBSET (1 .. MaxTrip) /\ MaxTrip \in Nat
      BY BoundsAssumption DEF TripIds
    <3>2. byD = Oldest(S) /\ byP = Oldest(T)
      BY DEF RowByDeliver, RowByPickup
    <3> HIDE DEF S, T, byD, byP
    <3>3. (byD # 0 => byD \in S) /\ (byP # 0 => byP \in T)
      BY <3>1, <3>2, OldestIsIn
    <3>4. \A r \in T : trip[r].deliver = d
      BY DEF T, TInv, RowsFit, TripsGood, isLinkedPair, OpenStatus
    <3> QED BY <3>3, <3>4 DEF S, T
  <2> HIDE DEF row, drop
  <2>3. row # 0 => trip'[row].status # "ABSENT"
    BY <1>2, <2>2 DEF TripsLast, isLive
  <2>4. row \in seen.trip => delivery[d].prepared
    <3>1. 0 \notin seen.trip
      BY BoundsAssumption DEF TInv, SInv, IInv, RestOK, TripIds
    <3> QED BY <2>2, <3>1 DEF TInv, RowsFit, TripsGood
  <2>5. Recalls(job[w])'
    BY <2>1, <2>3, <2>4 DEF Recalls, isLinkedPair
  <2> QED BY <1>2, <2>5, TripsKept
<1> QED BY <1>3, <1>4 DEF StartUpsert

LEMMA SyncMachineFits ==
  ASSUME TInv, NEW w \in Slots, NEW m \in Machines, NEW then, then.kind \notin RecallKinds,
         SyncMachine(w, m, then), UNCHANGED <<delivery, pickup, supply, seen>>
  PROVE  Fits(w)
<1>1. ASSUME NEW d \in DeliveryIds, NEW p \in PickupIds, isSyncPair(m, d, p),
             StartUpsert(w, d, p, m, delivery[d].type, then)
      PROVE  Fits(w)
  <2>1. p \in OpenLinkedPickups(m)
    <3>1. OpenLinkedPickups(m) \in SUBSET (1 .. MaxPickup) /\ MaxPickup \in Nat
      BY BoundsAssumption DEF PickupIds, OpenLinkedPickups, OpenPickups
    <3>2. p = Oldest(OpenLinkedPickups(m)) /\ p # 0
      BY <1>1, BoundsAssumption, SMTT(30) DEF isSyncPair, PickupIds
    <3> QED BY <3>1, <3>2, OldestIsIn
  <2>2. pickup[p].status = "CREATED" /\ isLinkedPair(d, p)
    BY <1>1, <2>1 DEF isSyncPair, isLinkedPair, OpenLinkedPickups
  <2> QED BY <1>1, <2>2, StartUpsertFits
<1>2. CASE Continue(w, then) /\ UNCHANGED trip
  <2>1. job'[w].kind \notin RecallKinds
    BY <1>2, GoesOn
  <2> QED BY <1>2, <2>1, OnlyReads
<1> QED BY <1>1, <1>2 DEF SyncMachine

LEMMA BindFits == ASSUME TInv, NEW w \in Slots, Bind(w) PROVE Fits(w)
<1> DEFINE j == job[w]
<1>1. j \in BindJob
  BY Typed, JobShape DEF Bind
<1>2. j.d \in DeliveryIds /\ j.then.kind \notin RecallKinds
  BY <1>1 DEF BindJob, SyncJob, Idle, RecallKinds
<1>3. ASSUME NEW p \in PickupIds, isBoundPickup(j.d, p), StartUpsert(w, j.d, p, j.m, j.t, j.then)
      PROVE  Fits(w)
  <2> DEFINE s == SupplyOf(j.d)
             S == {k \in PickupIds : pickup[k].link = s}
  <2>1. s \in SupplyIds /\ supply[s].delivery = j.d
    BY <1>3, SupplyOfIs DEF isBoundPickup
  <2>2. p \in S
    <3>1. S \in SUBSET (1 .. MaxPickup) /\ MaxPickup \in Nat
      BY BoundsAssumption DEF PickupIds
    <3>2. p = Oldest(S) /\ p # 0
      BY <1>3, BoundsAssumption DEF isBoundPickup, LinkedPickup, PickupIds
    <3> HIDE DEF S
    <3> QED BY <3>1, <3>2, OldestIsIn
  <2>3. pickup[p].status = "CREATED" /\ isLinkedPair(j.d, p)
    BY <1>3, <2>1, <2>2, BoundsAssumption DEF isBoundPickup, isLinkedPair, SupplyIds
  <2> QED BY <1>2, <1>3, <2>3, StartUpsertFits DEF Bind
<1>4. CASE Continue(w, j.then) /\ UNCHANGED trip
  <2>1. job'[w].kind \notin RecallKinds
    BY <1>2, <1>4, GoesOn
  <2> QED BY <1>4, <2>1, OnlyReads DEF Bind
<1> QED BY <1>3, <1>4 DEF Bind

\* A synchronisation, the steps of a listing, and closing a trip.
LEMMA ListingFits ==
  ASSUME TInv, NEW w \in Slots,
         \/ Sync(w) \/ SyncNextMachine(w) \/ CloseTrip(w)
         \/ \E o \in Operators, main \in BOOLEAN : BeginList(w, o, main)
  PROVE  Fits(w)
<1> DEFINE j == job[w]
<1>1. CASE Sync(w)
  <2>1. j \in SyncJob
    BY <1>1, Typed, JobShape DEF Sync
  <2>2. j.m \in Machines /\ Idle.kind \notin RecallKinds
    BY <2>1 DEF SyncJob, Idle, RecallKinds
  <2> QED BY <1>1, <2>2, SyncMachineFits DEF Sync
<1>2. CASE SyncNextMachine(w)
  <2>1. j \in ListJob
    BY <1>2, Typed, JobShape DEF SyncNextMachine
  <2>2. PICK m \in j.left : SyncMachine(w, m, [j EXCEPT !.left = @ \ {m}])
    BY <1>2 DEF SyncNextMachine
  <2>3. m \in Machines /\ [j EXCEPT !.left = @ \ {m}].kind \notin RecallKinds
    BY <2>1, <2>2 DEF ListJob, RecallKinds
  <2> QED BY <1>2, <2>2, <2>3, SyncMachineFits DEF SyncNextMachine
<1>3. ASSUME NEW o \in Operators, NEW main \in BOOLEAN, BeginList(w, o, main) PROVE Fits(w)
  <2>1. job'[w].kind = "list"
    BY <1>3, GoesOn DEF BeginList
  <2>2. TripsLast
    BY <1>3, StatusOnly DEF BeginList, isLive
  <2>3. Recalls(job[w])'
    BY <2>1, NothingRecalled DEF RecallKinds
  <2> QED BY <1>3, <2>2, <2>3, TripsKept DEF BeginList
<1>4. CASE CloseTrip(w)
  <2> DEFINE row(r) == [trip[r] EXCEPT !.status = IF trip[r].status = "ACCEPTED" THEN "COMPLETED"
                                                  ELSE trip[r].status]
  <2>1. job'[w].kind = "idle"
    BY <1>4, GoesOn DEF CloseTrip, Idle
  <2>2. \A r \in TripIds : trip[r] \in TripRow
    BY Typed DEF GoodTrip
  <2>3. trip' = [trip EXCEPT ![j.r] = row(j.r)] /\ j.r \in TripIds
    <3>1. j \in AfterwardsJob
      BY <1>4, Typed, JobShape DEF CloseTrip
    <3>2. j.r \in TripIds
      BY <1>4, <3>1 DEF AfterwardsJob, CloseTrip
    <3> QED BY <1>4, <3>2 DEF CloseTrip
  <2>4. \A r \in TripIds : \/ trip'[r] = trip[r]
                           \/ isLive(r) /\ trip'[r] = [trip[r] EXCEPT !.status = "COMPLETED"]
    <3> SUFFICES ASSUME NEW r \in TripIds
                 PROVE  \/ trip'[r] = trip[r]
                        \/ isLive(r) /\ trip'[r] = [trip[r] EXCEPT !.status = "COMPLETED"]
      OBVIOUS
    <3>1. DOMAIN trip = TripIds
      BY DEF TInv, SInv, IInv, RowsGood
    <3>2. CASE r # j.r
      BY <2>3, <3>1, <3>2
    <3>3. CASE r = j.r /\ trip[r].status = "ACCEPTED"
      BY <2>3, <3>1, <3>3 DEF isLive
    <3>4. CASE r = j.r /\ trip[r].status # "ACCEPTED"
      <4>1. trip'[r] = [trip[r] EXCEPT !.status = trip[r].status]
        BY <2>3, <3>1, <3>4
      <4> QED BY <2>2, <4>1 DEF TripRow
    <3> QED BY <3>2, <3>3, <3>4
  <2> HIDE DEF row
  <2>5. TripsLast
    BY <2>4, StatusOnly
  <2>6. Recalls(job[w])'
    BY <2>1, NothingRecalled DEF RecallKinds
  <2> QED BY <1>4, <2>5, <2>6, TripsKept DEF CloseTrip
<1> QED BY <1>1, <1>2, <1>3, <1>4

\* What a listing shows is prepared.
LEMMA FinishListFits == ASSUME TInv, NEW w \in Slots, FinishList(w) PROVE Fits(w)
<1> DEFINE j == job[w]
<1>1. \A r \in TripIds : \/ trip'[r] = trip[r]
                         \/ isLive(r) /\ trip'[r] = [trip[r] EXCEPT !.status = "COMPLETED"]
  BY DEF FinishList, ReconciledTrips, isLive
<1>2. TripsLast
  BY <1>1, StatusOnly
<1>3. \A r \in seen'.trip : r \in seen.trip \/ r \in VisibleTrips(j.types)
  BY DEF FinishList, TInv, SInv, IInv, RestOK
<1>4. TripsGood'
  <2>1. ASSUME NEW r \in TripIds, isLive(r)'
        PROVE  /\ delivery'[trip'[r].deliver].status # "ABSENT"
               /\ pickup'[trip'[r].pickup].status # "ABSENT"
               /\ pickup'[trip'[r].pickup].status \in OpenStatus =>
                    isLinkedPair(trip[r].deliver, trip[r].pickup)'
    <3>1. isLive(r) /\ trip'[r].deliver = trip[r].deliver /\ trip'[r].pickup = trip[r].pickup
      BY <1>2, <2>1 DEF TripsLast, KeepsPairs
    <3> QED BY <3>1 DEF TInv, RowsFit, TripsGood, isLinkedPair, FinishList
  <2>2. ASSUME NEW r \in seen'.trip
        PROVE  trip'[r].status # "ABSENT" /\ (isLive(r)' => delivery'[trip'[r].deliver].prepared)
    <3>1. /\ r \in TripIds /\ trip[r].status # "ABSENT"
          /\ isLive(r) => delivery[trip[r].deliver].prepared
      <4>1. CASE r \in seen.trip
        BY <4>1 DEF TInv, SInv, IInv, RestOK, RowsFit, TripsGood
      <4>2. CASE r \in VisibleTrips(j.types)
        BY <4>2 DEF VisibleTrips, ValidPairs, isOpenTripTaskPairValid
      <4> QED BY <1>3, <4>1, <4>2
    <3> QED BY <1>2, <3>1 DEF TripsLast, KeepsPairs, FinishList
  <2> QED BY <2>1, <2>2 DEF TripsGood
<1>5. job'[w].kind = "idle"
  BY GoesOn DEF FinishList, Idle
<1>6. Recalls(job[w])'
  BY <1>5, NothingRecalled DEF RecallKinds
<1>7. UNCHANGED <<delivery, pickup, supply>>
  BY DEF FinishList
<1> QED BY <1>4, <1>6, <1>7 DEF TInv, Fits, RowsFit, SupplyGood, LinksGood, HandsGood,
                                DriveOnlyPrepared, OpenDeliveriesOf, OpenPickupsOf, isLinkedPair

\* One row becomes the row of a linked pair.
LEMMA PairPut ==
  ASSUME TInv, NEW w \in Slots, NEW row \in TripIds, NEW d \in DeliveryIds, NEW p \in PickupIds,
         trip'[row].deliver = d, trip'[row].pickup = p, trip'[row].status # "ABSENT",
         pickup[p].status # "ABSENT", isLinkedPair(d, p),
         row \in seen.trip => delivery[d].prepared,
         \A r \in TripIds \ {row} :
           /\ isLive(r)' => /\ isLive(r) /\ trip'[r].deliver = trip[r].deliver
                            /\ trip'[r].pickup = trip[r].pickup
           /\ trip[r].status # "ABSENT" => trip'[r].status # "ABSENT",
         UNCHANGED <<delivery, pickup, supply, seen>>, job'[w].kind \notin RecallKinds
  PROVE  Fits(w)
<1>1. TripsGood'
  <2>1. ASSUME NEW r \in TripIds, isLive(r)'
        PROVE  /\ delivery'[trip'[r].deliver].status # "ABSENT"
               /\ pickup'[trip'[r].pickup].status # "ABSENT"
               /\ pickup'[trip'[r].pickup].status \in OpenStatus =>
                    isLinkedPair(trip[r].deliver, trip[r].pickup)'
    <3>1. CASE r = row
      <4>1. delivery[d].status # "ABSENT"
        <5>1. pickup[p].link \in SupplyIds
          BY Typed DEF isLinkedPair, GoodPickup, PickupRow
        <5> QED BY <5>1, BoundsAssumption DEF isLinkedPair, DeliveryIds, TInv, RowsFit, SupplyGood
      <4> QED BY <3>1, <4>1 DEF isLinkedPair
    <3>2. CASE r # row
      BY <2>1, <3>2 DEF TInv, RowsFit, TripsGood, isLinkedPair
    <3> QED BY <3>1, <3>2
  <2>2. ASSUME NEW r \in seen'.trip
        PROVE  trip'[r].status # "ABSENT" /\ (isLive(r)' => delivery'[trip'[r].deliver].prepared)
    <3>1. r \in seen.trip /\ r \in TripIds
      BY DEF TInv, SInv, IInv, RestOK
    <3>2. CASE r = row
      BY <3>1, <3>2
    <3>3. CASE r # row
      BY <3>1, <3>3 DEF TInv, RowsFit, TripsGood
    <3> QED BY <3>2, <3>3
  <2> QED BY <2>1, <2>2 DEF TripsGood
<1>2. Recalls(job[w])'
  BY NothingRecalled
<1> QED BY <1>1, <1>2 DEF TInv, Fits, RowsFit, SupplyGood, LinksGood, HandsGood, DriveOnlyPrepared,
                          OpenDeliveriesOf, OpenPickupsOf, isLinkedPair

LEMMA PairFits ==
  ASSUME TInv, NEW w \in Slots, RepointPair(w) \/ CreatePair(w) \/ RollBackPair(w)
  PROVE  Fits(w)
<1> DEFINE j == job[w]
<1>1. /\ j \in PairJob /\ j.kind = "pair"
      /\ pickup[j.p].status = "CREATED" /\ isLinkedPair(j.d, j.p)
      /\ j.row \in seen.trip => delivery[j.d].prepared
  BY Typed, JobShape DEF RepointPair, CreatePair, RollBackPair, TInv, Recalls
<1>2. /\ j.d \in DeliveryIds /\ j.p \in PickupIds /\ j.row \in TripIds \cup {0}
      /\ j.drop \in TripIds \cup {0} /\ j.then.kind \notin RecallKinds
  BY <1>1 DEF PairJob, ListJob, SyncJob, Idle, RecallKinds
<1>3. DOMAIN trip = TripIds
  BY DEF TInv, SInv, IInv, RowsGood
<1>4. CASE RepointPair(w)
  <2> DEFINE row == PairRow(j, "OPEN", trip[j.row].by)
  <2>1. PICK left : Thinned(left) /\ (trip' = left \/ Repointed(j, left))
    BY <1>4, RepointedTrips
  <2>2. j.row \in TripIds
    BY <1>2, <1>4 DEF RepointPair
  <2>3. \A r \in TripIds : left[r] = trip[r] \/ left[r].status = "DELETED"
    BY <2>1 DEF Thinned, NoTrip
  <2>4. row.deliver = j.d /\ row.pickup = j.p /\ row.status # "ABSENT"
    BY DEF PairRow
  <2>5. job'[w].kind \notin RecallKinds
    BY <1>2, <1>4, GoesOn DEF RepointPair
  <2>6. CASE trip' = left
    <3>1. TripsLast
      BY <2>3, <2>6 DEF TripsLast, KeepsPairs, isLive
    <3>2. Recalls(job[w])'
      BY <2>5, NothingRecalled
    <3> QED BY <1>4, <3>1, <3>2, TripsKept DEF RepointPair
  <2>7. CASE Repointed(j, left)
    <3>1. trip' = [left EXCEPT ![j.row] = row] /\ DOMAIN left = TripIds
      BY <2>1, <2>7 DEF Repointed, Thinned
    <3> HIDE DEF row
    <3>2. trip'[j.row] = row /\ \A r \in TripIds \ {j.row} : trip'[r] = left[r]
      BY <2>2, <3>1
    <3>3. \A r \in TripIds \ {j.row} :
             /\ isLive(r)' => /\ isLive(r) /\ trip'[r].deliver = trip[r].deliver
                              /\ trip'[r].pickup = trip[r].pickup
             /\ trip[r].status # "ABSENT" => trip'[r].status # "ABSENT"
      BY <2>3, <3>2 DEF isLive
    <3> QED BY <1>1, <1>2, <1>4, <2>2, <2>4, <2>5, <3>2, <3>3, PairPut DEF RepointPair
  <2> QED BY <2>1, <2>6, <2>7
<1>5. CASE CreatePair(w)
  <2>1. PICK r \in TripIds :
          IsNextId(r, trip) /\ trip' = [trip EXCEPT ![r] = PairRow(j, "OPEN", NoOp)]
    BY <1>5 DEF CreatePair
  <2>2. trip'[r].deliver = j.d /\ trip'[r].pickup = j.p /\ trip'[r].status # "ABSENT"
    BY <1>3, <2>1 DEF PairRow
  <2>3. \A k \in TripIds \ {r} : trip'[k] = trip[k]
    BY <2>1
  <2>4. r \notin seen.trip
    BY <2>1 DEF IsNextId, TInv, RowsFit, TripsGood
  <2>5. job'[w].kind \notin RecallKinds
    BY <1>2, <1>5, GoesOn DEF CreatePair
  <2> QED BY <1>1, <1>2, <1>5, <2>2, <2>3, <2>4, <2>5, PairPut DEF CreatePair, isLive
<1>6. CASE RollBackPair(w)
  <2>1. job'[w].kind = "idle"
    BY <1>6, GoesOn DEF RollBackPair, Idle
  <2> QED BY <1>6, <2>1, OnlyReads DEF RollBackPair, RecallKinds
<1> QED BY <1>4, <1>5, <1>6

\* The trip of a pickup that joins a delivery on its way.
LEMMA JoinTripFits == ASSUME TInv, NEW w \in Slots, JoinTrip(w) PROVE Fits(w)
<1> DEFINE j == job[w]
           byD == RowByDeliver(j.d)
           byP == RowByPickup(j.p)
           row == IF byD # 0 THEN byD ELSE byP
           new == PairRow(j, "ACCEPTED", j.o)
<1>1. j \in JoinJob /\ j.kind = "joinPair"
  BY Typed, JobShape DEF JoinTrip
<1>2. /\ j.d \in DeliveryIds /\ j.p \in PickupIds
      /\ isLinkedPair(j.d, j.p) /\ pickup[j.p].status # "ABSENT" /\ delivery[j.d].prepared
  BY <1>1 DEF JoinJob, TInv, Recalls, RowsFit, DriveOnlyPrepared
<1>3. job'[w].kind \notin RecallKinds
  <2>1. job'[w].kind = "idle"
    BY GoesOn DEF JoinTrip, Idle
  <2> QED BY <2>1 DEF RecallKinds
<1>4. UNCHANGED <<delivery, pickup, supply, seen>>
  BY DEF JoinTrip
<1>5. new.deliver = j.d /\ new.pickup = j.p /\ new.status # "ABSENT"
  BY DEF PairRow
<1>6. ASSUME NEW r \in TripIds, trip' = [trip EXCEPT ![r] = new] PROVE Fits(w)
  <2> HIDE DEF new
  <2>1. trip'[r] = new /\ \A k \in TripIds \ {r} : trip'[k] = trip[k]
    BY <1>6 DEF TInv, SInv, IInv, RowsGood
  <2> QED BY <1>2, <1>3, <1>4, <1>5, <2>1, PairPut DEF isLive
<1>7. CASE trip' = OtherPairsExpired(j.d, j.p)
  <2>1. TripsLast
    BY <1>7, StatusOnly DEF OtherPairsExpired, isLive
  <2> QED BY <1>3, <1>4, <2>1, TripsKept, NothingRecalled
<1>8. CASE UNCHANGED trip
  BY <1>3, <1>4, <1>8, OnlyReads
<1>9. CASE row # 0 /\ trip' = [trip EXCEPT ![row] = new]
  <2>1. row \in TripIds
    BY <1>9, RowByType
  <2> HIDE DEF row, new
  <2> QED BY <1>6, <1>9, <2>1
<1> QED BY <1>6, <1>7, <1>8, <1>9 DEF JoinTrip
-----------------------------------------------------------------------------
(* Steps that write deliveries, pickups and requests: what each must leave *)
(* for the tables to fit together.                                         *)

DeliveriesLast ==
  \A d \in DeliveryIds :
    /\ delivery[d].status # "ABSENT" => delivery'[d].status # "ABSENT"
    /\ delivery[d].prepared /\ delivery[d].status # "ABSENT" => delivery'[d].prepared

\* The link of an open pickup stays, and no pickup is reopened.
PickupsLast ==
  \A p \in PickupIds :
    /\ pickup[p].status # "ABSENT" => pickup'[p].status # "ABSENT"
    /\ pickup'[p].status \in OpenStatus =>
         /\ pickup[p].status \in OpenStatus \cup {"ABSENT"}
         /\ pickup[p].link # 0 => pickup'[p].link = pickup[p].link

SuppliesLast ==
  \A s \in SupplyIds :
    /\ supply[s].status # "ABSENT" => supply'[s].status # "ABSENT"
    /\ supply[s].delivery # 0 => supply'[s].delivery = supply[s].delivery

\* Nobody gets a delivery, or a pickup, that was not hers.
NoDeliveryTaken ==
  \A d \in DeliveryIds : delivery'[d].status \in OpenStatus /\ delivery'[d].op # NoOp =>
    delivery[d].status \in OpenStatus /\ delivery[d].op = delivery'[d].op

NoPickupTaken ==
  \A p \in PickupIds : pickup'[p].status \in OpenStatus /\ pickup'[p].op # NoOp =>
    pickup[p].status \in OpenStatus /\ pickup[p].op = pickup'[p].op

\* An open linked pair stays one.
LEMMA LinkedLast ==
  ASSUME TInv, PickupsLast, SuppliesLast, NEW d \in DeliveryIds, NEW p \in PickupIds,
         isLinkedPair(d, p), pickup'[p].status \in OpenStatus
  PROVE  pickup'[p].link # 0 /\ supply'[pickup'[p].link].delivery = d
<1>1. pickup[p].link \in SupplyIds
  BY Typed DEF isLinkedPair, GoodPickup, PickupRow
<1>2. d # 0
  BY BoundsAssumption DEF DeliveryIds
<1> QED BY <1>1, <1>2 DEF isLinkedPair, PickupsLast, SuppliesLast

LEMMA TripsStay ==
  ASSUME TInv, DeliveriesLast, PickupsLast, SuppliesLast, TripsLast, UNCHANGED seen
  PROVE  TripsGood'
<1>1. ASSUME NEW r \in TripIds, isLive(r)'
      PROVE  /\ delivery'[trip'[r].deliver].status # "ABSENT"
             /\ pickup'[trip'[r].pickup].status # "ABSENT"
             /\ pickup'[trip'[r].pickup].status \in OpenStatus =>
                  isLinkedPair(trip[r].deliver, trip[r].pickup)'
  <2>1. isLive(r) /\ trip'[r].deliver = trip[r].deliver /\ trip'[r].pickup = trip[r].pickup
    BY <1>1 DEF TripsLast, KeepsPairs
  <2>2. PICK d, p : d = trip[r].deliver /\ p = trip[r].pickup
    OBVIOUS
  <2>3. d \in DeliveryIds /\ p \in PickupIds
    BY <2>1, <2>2, Typed DEF isLive, GoodTrip
  <2>4. /\ delivery[d].status # "ABSENT" /\ pickup[p].status # "ABSENT"
        /\ pickup[p].status \in OpenStatus => isLinkedPair(d, p)
    BY <2>1, <2>2 DEF TInv, RowsFit, TripsGood
  <2>5. delivery'[d].status # "ABSENT" /\ pickup'[p].status # "ABSENT"
    BY <2>3, <2>4 DEF DeliveriesLast, PickupsLast
  <2>6. ASSUME pickup'[p].status \in OpenStatus
        PROVE  pickup'[p].link # 0 /\ supply'[pickup'[p].link].delivery = d
    <3>1. isLinkedPair(d, p)
      BY <2>3, <2>4, <2>6 DEF PickupsLast
    <3> QED BY <2>3, <2>6, <3>1, LinkedLast
  <2> QED BY <2>1, <2>2, <2>5, <2>6 DEF isLinkedPair
<1>2. ASSUME NEW r \in seen'.trip
      PROVE  trip'[r].status # "ABSENT" /\ (isLive(r)' => delivery'[trip'[r].deliver].prepared)
  <2>1. /\ r \in TripIds /\ trip[r].status # "ABSENT"
        /\ isLive(r) => /\ delivery[trip[r].deliver].prepared
                        /\ delivery[trip[r].deliver].status # "ABSENT"
    BY DEF TInv, SInv, IInv, RestOK, RowsFit, TripsGood
  <2>2. isLive(r) => trip[r].deliver \in DeliveryIds
    BY <2>1, Typed DEF isLive, GoodTrip
  <2> QED BY <2>1, <2>2 DEF TripsLast, KeepsPairs, DeliveriesLast
<1> QED BY <1>1, <1>2 DEF TripsGood

LEMMA HandsStay ==
  ASSUME TInv, PickupsLast, SuppliesLast, NoDeliveryTaken, NoPickupTaken
  PROVE  HandsGood'
<1> SUFFICES ASSUME NEW o \in Operators
             PROVE  /\ \A d, e \in OpenDeliveriesOf(o)' : d = e
                    /\ \A p, k \in OpenPickupsOf(o)' : p = k
                    /\ \A d \in OpenDeliveriesOf(o)', p \in OpenPickupsOf(o)' :
                         pickup'[p].link # 0 /\ supply'[pickup'[p].link].delivery = d
  BY DEF HandsGood, isLinkedPair
<1>1. \A d \in OpenDeliveriesOf(o)' : d \in OpenDeliveriesOf(o)
  BY NullAssumption DEF NoDeliveryTaken, OpenDeliveriesOf
<1>2. \A p \in OpenPickupsOf(o)' : p \in OpenPickupsOf(o)
  BY NullAssumption DEF NoPickupTaken, OpenPickupsOf
<1>3. ASSUME NEW d \in OpenDeliveriesOf(o)', NEW p \in OpenPickupsOf(o)'
      PROVE  pickup'[p].link # 0 /\ supply'[pickup'[p].link].delivery = d
  <2>1. /\ d \in DeliveryIds /\ p \in PickupIds /\ pickup'[p].status \in OpenStatus
        /\ isLinkedPair(d, p)
    BY <1>1, <1>2, <1>3 DEF OpenDeliveriesOf, OpenPickupsOf, TInv, RowsFit, HandsGood
  <2> QED BY <2>1, LinkedLast
<1> QED BY <1>1, <1>2, <1>3 DEF TInv, RowsFit, HandsGood

\* Links that a step leaves alone or clears.
LEMMA LinksStay ==
  ASSUME TInv, \A p \in PickupIds : pickup'[p].link \in {0, pickup[p].link}, SuppliesLast
  PROVE  LinksGood'
<1>1. \A p \in PickupIds : pickup[p].link \in SupplyIds \cup {0}
  BY Typed DEF GoodPickup, PickupRow
<1>2. \A p \in PickupIds : pickup[p].link # 0 =>
        /\ supply[pickup[p].link].status # "ABSENT"
        /\ \A k \in PickupIds : pickup[k].link = pickup[p].link => k = p
  BY DEF TInv, RowsFit, LinksGood
<1> QED BY <1>1, <1>2 DEF LinksGood, SuppliesLast

\* All of it.
LEMMA StillFits ==
  ASSUME TInv, NEW w \in Slots, SupplyGood', LinksGood', DriveOnlyPrepared', Recalls(job[w])',
         DeliveriesLast, PickupsLast, SuppliesLast, TripsLast, UNCHANGED seen,
         NoDeliveryTaken, NoPickupTaken
  PROVE  Fits(w)
BY TripsStay, HandsStay DEF Fits, RowsFit

\* Tables that a step leaves alone.
LEMMA LeftAlone ==
  ASSUME TInv
  PROVE  /\ UNCHANGED delivery => DeliveriesLast /\ NoDeliveryTaken
         /\ UNCHANGED pickup => PickupsLast /\ NoPickupTaken
         /\ UNCHANGED supply => SuppliesLast
         /\ UNCHANGED trip => TripsLast
BY DEF DeliveriesLast, NoDeliveryTaken, PickupsLast, NoPickupTaken, SuppliesLast, TripsLast,
       KeepsPairs, isLive, OpenStatus

\* Deliveries are written that were there, and none is cancelled.
LEMMA DeliveriesWritten ==
  ASSUME TInv, UNCHANGED supply, DeliveriesLast,
         \A d \in DeliveryIds : delivery[d].status # "ABSENT" =>
           (delivery'[d].status = "CANCELED") = (delivery[d].status = "CANCELED")
  PROVE  SupplyGood'
<1>1. ASSUME NEW s \in SupplyIds, supply[s].delivery # 0
      PROVE  /\ delivery'[supply[s].delivery].status # "ABSENT"
             /\ (delivery'[supply[s].delivery].status = "CANCELED")
                  = (supply[s].status = "CANCELLED")
  <2>1. supply[s].delivery \in DeliveryIds
    BY <1>1, Typed DEF SupplyRow
  <2>2. /\ delivery[supply[s].delivery].status # "ABSENT"
        /\ (delivery[supply[s].delivery].status = "CANCELED") = (supply[s].status = "CANCELLED")
    BY <1>1 DEF TInv, RowsFit, SupplyGood
  <2> QED BY <2>1, <2>2 DEF DeliveriesLast
<1> QED BY <1>1 DEF SupplyGood, TInv, RowsFit

\* One delivery is written that was there; it is neither cancelled nor revived.
LEMMA OneRowWritten ==
  ASSUME TInv, NEW w \in Slots, NEW d \in DeliveryIds, NEW row,
         delivery' = [delivery EXCEPT ![d] = row], UNCHANGED <<pickup, supply, trip, seen>>,
         delivery[d].status # "ABSENT", row.status # "ABSENT",
         (row.status = "CANCELED") = (delivery[d].status = "CANCELED"),
         delivery[d].prepared => row.prepared, row.status = "ASSIGNED" => row.prepared
  PROVE  SupplyGood' /\ LinksGood' /\ TripsGood' /\ DriveOnlyPrepared'
<1>1. \A e \in DeliveryIds : delivery'[e] = IF e = d THEN row ELSE delivery[e]
  BY DEF TInv, SInv, IInv, RowsGood
<1>2. DeliveriesLast
  BY <1>1 DEF DeliveriesLast
<1>3. SupplyGood' /\ LinksGood'
  BY <1>1, <1>2, DeliveriesWritten, LeftAlone, LinksStay
<1>4. TripsGood'
  BY <1>2, LeftAlone, TripsStay
<1>5. DriveOnlyPrepared'
  BY <1>1 DEF TInv, RowsFit, DriveOnlyPrepared
<1> QED BY <1>3, <1>4, <1>5

\* ... and nobody gets it.
LEMMA OneRowKept ==
  ASSUME TInv, NEW w \in Slots, NEW d \in DeliveryIds, NEW row,
         delivery' = [delivery EXCEPT ![d] = row], UNCHANGED <<pickup, supply, trip, seen>>,
         delivery[d].status # "ABSENT", row.status # "ABSENT",
         (row.status = "CANCELED") = (delivery[d].status = "CANCELED"),
         delivery[d].prepared => row.prepared, row.status = "ASSIGNED" => row.prepared,
         row.op = delivery[d].op, row.status \in OpenStatus => delivery[d].status \in OpenStatus,
         job'[w].kind \notin RecallKinds
  PROVE  Fits(w)
<1>1. \A e \in DeliveryIds : delivery'[e] = IF e = d THEN row ELSE delivery[e]
  BY DEF TInv, SInv, IInv, RowsGood
<1>2. SupplyGood' /\ LinksGood' /\ TripsGood' /\ DriveOnlyPrepared'
  BY OneRowWritten
<1>3. NoDeliveryTaken
  BY <1>1 DEF NoDeliveryTaken
<1>4. HandsGood'
  BY <1>3, LeftAlone, HandsStay
<1>5. Recalls(job[w])'
  BY NothingRecalled
<1> QED BY <1>2, <1>4, <1>5 DEF Fits, RowsFit

LEMMA DeskWritesFit ==
  ASSUME TInv, NEW w \in Slots, FinishEdit(w) \/ \E d \in DeliveryIds : MarkPrepared(w, d)
  PROVE  Fits(w)
<1>1. DOMAIN delivery = DeliveryIds
  BY DEF TInv, SInv, IInv, RowsGood
<1>2. ASSUME NEW d \in DeliveryIds, MarkPrepared(w, d) PROVE Fits(w)
  <2> DEFINE row == [delivery[d] EXCEPT !.prepared = TRUE]
  <2>1. delivery' = [delivery EXCEPT ![d] = row]
    BY <1>1, <1>2, Typed DEF MarkPrepared, GoodDelivery, DeliveryRow
  <2>2. row.status = delivery[d].status /\ row.op = delivery[d].op /\ row.prepared
    BY Typed DEF GoodDelivery, DeliveryRow
  <2> HIDE DEF row
  <2>3. job'[w].kind \notin RecallKinds
    BY <1>2, GoesOn DEF MarkPrepared, RecallKinds
  <2>4. UNCHANGED <<pickup, supply, trip, seen>> /\ delivery[d].status # "ABSENT"
    BY <1>2 DEF MarkPrepared
  <2> QED BY <2>1, <2>2, <2>3, <2>4, OneRowKept
<1>3. CASE FinishEdit(w)
  <2> DEFINE j == job[w]
             old == delivery[j.d]
             row == [old EXCEPT !.machine = IF j.m = NoMachine THEN old.machine ELSE j.m,
                                !.type    = IF j.t = "NONE" THEN old.type ELSE j.t]
  <2>1. j.d \in DeliveryIds /\ old.status = "CREATED"
    <3>1. j \in EditJob /\ j.kind = "edit"
      BY <1>3, Typed, JobShape DEF FinishEdit
    <3> QED BY <3>1 DEF EditJob, TInv, SInv, Fresh
  <2>2. delivery' = [delivery EXCEPT ![j.d] = row]
    BY <1>1, <1>3, <2>1, Typed DEF FinishEdit, GoodDelivery, DeliveryRow
  <2>3. row.status = "CREATED" /\ row.op = old.op /\ (old.prepared => row.prepared)
    BY <2>1, Typed DEF GoodDelivery, DeliveryRow
  <2> HIDE DEF row
  <2>4. job'[w].kind \notin RecallKinds
    BY <1>3, GoesOn DEF FinishEdit, Idle, RecallKinds
  <2> QED BY <1>3, <2>1, <2>2, <2>3, <2>4, OneRowKept DEF FinishEdit
<1> QED BY <1>2, <1>3

LEMMA FinishCompleteDeliverFits ==
  ASSUME TInv, NEW w \in Slots, FinishCompleteDeliver(w)
  PROVE  Fits(w)
<1> DEFINE d == job[w].d
           row == [delivery[d] EXCEPT !.status = "COMPLETED"]
<1>1. d \in DeliveryIds /\ delivery[d].status = "ASSIGNED"
  <2>1. job[w].kind = "completeDeliver" /\ d \in DeliveryIds
    BY AcceptRemembers DEF FinishCompleteDeliver, TInv
  <2> QED BY <2>1 DEF TInv, Recalls
<1>2. delivery' = [delivery EXCEPT ![d] = row]
  BY <1>1, Typed DEF FinishCompleteDeliver, GoodDelivery, DeliveryRow, TInv, SInv, IInv, RowsGood
<1>3. row.status = "COMPLETED" /\ row.op = delivery[d].op /\ row.prepared = delivery[d].prepared
  BY <1>1, Typed DEF GoodDelivery, DeliveryRow
<1> HIDE DEF row
<1>4. job'[w].kind \notin RecallKinds
  BY GoesOn DEF FinishCompleteDeliver, Idle, RecallKinds
<1> QED BY <1>1, <1>2, <1>3, <1>4, OneRowKept DEF FinishCompleteDeliver, OpenStatus

\* Two members of a set with at most one.
LEMMA AtMostOne ==
  ASSUME NEW n \in Nat, NEW F \in SUBSET (1 .. n), Cardinality(F) <= 1, NEW a \in F, NEW b \in F
  PROVE  a = b
<1> SUFFICES ASSUME a # b PROVE FALSE
  OBVIOUS
<1>1. IsFiniteSet(F)
  <2>1. IsFiniteSet(1 .. n)
    BY FS_Interval
  <2> QED BY <2>1, FS_Subset
<1>2. IsFiniteSet({b}) /\ Cardinality({b}) = 1
  BY FS_Singleton
<1>3. Cardinality({a, b}) = 2
  <2>1. Cardinality({b} \cup {a}) = Cardinality({b}) + 1
    BY <1>2, FS_AddElement
  <2>2. {b} \cup {a} = {a, b}
    OBVIOUS
  <2> QED BY <1>2, <2>1, <2>2
<1>4. Cardinality({a, b}) <= Cardinality(F)
  BY <1>1, FS_Subset
<1>5. Cardinality(F) \in Nat
  BY <1>1, FS_CardinalityType
<1> QED BY <1>3, <1>4, <1>5

LEMMA CreateDeliveryFits ==
  ASSUME TInv, NEW w \in Slots, NEW m \in Machines, NEW t \in TaskTypes, NEW ready \in BOOLEAN,
         NEW named \in SupplyIds \cup {0}, CreateDelivery(w, m, t, ready, named)
  PROVE  Fits(w)
<1> DEFINE F == FulfilledBy(m, named)
<1>1. PICK d \in DeliveryIds :
        /\ IsNextId(d, delivery)
        /\ delivery' = [delivery EXCEPT
             ![d] = [status |-> "CREATED", machine |-> m, type |-> t,
                     prepared |-> ready, op |-> NoOp, with |-> "NONE"]]
        /\ supply' = [s \in SupplyIds |->
                        IF s \in F THEN [supply[s] EXCEPT !.status = "FULFILLED", !.delivery = d]
                        ELSE supply[s]]
        /\ Continue(w, [kind |-> "bind", d |-> d, m |-> m, t |-> t, then |-> Idle])
  BY DEF CreateDelivery
<1>2. UNCHANGED <<pickup, trip, seen>>
  BY DEF CreateDelivery
<1>3. /\ delivery[d].status = "ABSENT"
      /\ delivery'[d].status = "CREATED" /\ delivery'[d].op = NoOp
      /\ \A e \in DeliveryIds \ {d} : delivery'[e] = delivery[e]
  BY <1>1 DEF IsNextId, TInv, SInv, IInv, RowsGood
<1>4. \A s \in SupplyIds : supply[s].delivery # d
  BY <1>3, BoundsAssumption DEF DeliveryIds, TInv, RowsFit, SupplyGood
<1>5. \A s \in F : s \in SupplyIds /\ supply[s].status = "OPEN" /\ supply[s].delivery = 0
  BY DEF FulfilledBy, OpenSupplies, TInv, RowsFit, SupplyGood
<1>6. \A s, k \in F : s = k
  <2>1. F \in SUBSET (1 .. MaxSupply) /\ MaxSupply \in Nat
    BY BoundsAssumption DEF FulfilledBy, OpenSupplies, SupplyIds
  <2>2. Cardinality(F) <= 1
    BY DEF CreateDelivery
  <2> HIDE DEF F
  <2> QED BY <2>1, <2>2, AtMostOne
<1>7. \A s \in SupplyIds : /\ s \in F => supply'[s].status = "FULFILLED" /\ supply'[s].delivery = d
                           /\ s \notin F => supply'[s] = supply[s]
  <2> SUFFICES ASSUME NEW s \in SupplyIds
               PROVE  /\ s \in F => supply'[s].status = "FULFILLED" /\ supply'[s].delivery = d
                      /\ s \notin F => supply'[s] = supply[s]
    OBVIOUS
  <2>1. supply[s] \in SupplyRow
    BY Typed
  <2>2. supply'[s] = IF s \in F THEN [supply[s] EXCEPT !.status = "FULFILLED", !.delivery = d]
                     ELSE supply[s]
    BY <1>1
  <2> HIDE DEF F
  <2> QED BY <2>1, <2>2 DEF SupplyRow
<1> HIDE DEF F
<1>8. SuppliesLast
  BY <1>5, <1>7 DEF SuppliesLast
<1>9. DeliveriesLast /\ NoDeliveryTaken
  BY <1>3 DEF DeliveriesLast, NoDeliveryTaken
<1>10. SupplyGood'
  <2>1. ASSUME NEW s \in SupplyIds, supply'[s].status \in {"ABSENT", "OPEN"}
        PROVE  supply'[s].delivery = 0
    BY <1>7, <2>1 DEF TInv, RowsFit, SupplyGood
  <2>2. ASSUME NEW s \in SupplyIds, supply'[s].delivery # 0
        PROVE  /\ delivery'[supply'[s].delivery].status # "ABSENT"
               /\ (delivery'[supply'[s].delivery].status = "CANCELED")
                    = (supply'[s].status = "CANCELLED")
               /\ \A k \in SupplyIds : supply'[k].delivery = supply'[s].delivery => k = s
    <3>1. CASE s \in F
      BY <1>3, <1>4, <1>6, <1>7, <3>1
    <3>2. CASE s \notin F
      <4>1. supply'[s] = supply[s] /\ supply[s].delivery \in DeliveryIds \ {d}
        BY <1>4, <1>7, <2>2, <3>2, Typed DEF SupplyRow
      <4>2. \A k \in SupplyIds : supply'[k].delivery = supply[s].delivery => k = s
        BY <1>7, <4>1, BoundsAssumption DEF DeliveryIds, TInv, RowsFit, SupplyGood
      <4>3. /\ delivery[supply[s].delivery].status # "ABSENT"
            /\ (delivery[supply[s].delivery].status = "CANCELED")
                 = (supply[s].status = "CANCELLED")
        BY <2>2, <4>1 DEF TInv, RowsFit, SupplyGood
      <4> QED BY <1>3, <4>1, <4>2, <4>3
    <3> QED BY <3>1, <3>2
  <2> QED BY <2>1, <2>2 DEF SupplyGood
<1>11. LinksGood'
  BY <1>2, <1>8, LinksStay
<1>12. TripsGood' /\ HandsGood'
  BY <1>2, <1>8, <1>9, LeftAlone, TripsStay, HandsStay
<1>13. DriveOnlyPrepared'
  BY <1>3 DEF TInv, RowsFit, DriveOnlyPrepared
<1>14. Recalls(job[w])'
  <2> DEFINE next == [kind |-> "bind", d |-> d, m |-> m, t |-> t, then |-> Idle]
  <2>1. Continue(w, next) /\ next.kind = "bind"
    BY <1>1
  <2> HIDE DEF next
  <2>2. job'[w].kind = "bind"
    BY <2>1, GoesOn
  <2> QED BY <2>2, NothingRecalled DEF RecallKinds
<1> QED BY <1>10, <1>11, <1>12, <1>13, <1>14 DEF Fits, RowsFit
-----------------------------------------------------------------------------
(* Requests for a pallet are created, by a machine or for a delivery that  *)
(* has none.                                                               *)

\* A new row of the table of requests: it is OPEN and names no delivery, or it names a
\* delivery that no other request has and that is not cancelled.
LEMMA SupplyCreated ==
  ASSUME TInv, NEW s \in SupplyIds, supply[s].status = "ABSENT", NEW row,
         supply' = [supply EXCEPT ![s] = row], UNCHANGED delivery,
         \/ row.status = "OPEN" /\ row.delivery = 0
         \/ /\ row.status = "FULFILLED" /\ row.delivery \in DeliveryIds
            /\ delivery[row.delivery].status \notin {"ABSENT", "CANCELED"}
            /\ \A k \in SupplyIds : supply[k].delivery # row.delivery
  PROVE  SupplyGood' /\ SuppliesLast
<1>1. supply'[s] = row /\ \A k \in SupplyIds \ {s} : supply'[k] = supply[k]
  BY DEF TInv, SInv, IInv, RowsGood
<1>2. supply[s].delivery = 0
  BY DEF TInv, RowsFit, SupplyGood
<1>3. SuppliesLast
  BY <1>1, <1>2 DEF SuppliesLast
<1>4. ASSUME NEW k \in SupplyIds, supply'[k].status \in {"ABSENT", "OPEN"}
      PROVE  supply'[k].delivery = 0
  BY <1>1, <1>4 DEF TInv, RowsFit, SupplyGood
<1>5. ASSUME NEW k \in SupplyIds, supply'[k].delivery # 0
      PROVE  /\ delivery[supply'[k].delivery].status # "ABSENT"
             /\ (delivery[supply'[k].delivery].status = "CANCELED")
                  = (supply'[k].status = "CANCELLED")
             /\ \A i \in SupplyIds : supply'[i].delivery = supply'[k].delivery => i = k
  <2>1. CASE k = s
    BY <1>1, <1>5, <2>1
  <2>2. CASE k # s
    <3>1. supply'[k] = supply[k] /\ supply[k].delivery # 0
      BY <1>1, <1>5, <2>2
    <3>2. \A i \in SupplyIds : supply'[i].delivery = supply[k].delivery => i = k
      BY <1>1, <3>1 DEF TInv, RowsFit, SupplyGood
    <3> QED BY <3>1, <3>2 DEF TInv, RowsFit, SupplyGood
  <2> QED BY <2>1, <2>2
<1> QED BY <1>3, <1>4, <1>5 DEF SupplyGood

\* A delivery without a request.
LEMMA SupplyOfNone ==
  ASSUME NEW d, SupplyOf(d) = 0
  PROVE  \A k \in SupplyIds : supply[k].delivery # d
<1> DEFINE S == {s \in SupplyIds : supply[s].delivery = d}
<1>1. S \in SUBSET (1 .. MaxSupply) /\ MaxSupply \in Nat
  BY BoundsAssumption DEF SupplyIds
<1>2. Oldest(S) = 0
  BY DEF SupplyOf
<1> HIDE DEF S
<1>3. S = {}
  <2> SUFFICES ASSUME S # {} PROVE FALSE
    OBVIOUS
  <2>1. Oldest(S) \in S
    BY <1>1, OldestIsIn
  <2> QED BY <1>1, <1>2, <2>1
<1> QED BY <1>3 DEF S

LEMMA CreateOrphanSupplyFits ==
  ASSUME TInv, NEW w \in Slots, CreateOrphanSupply(w)
  PROVE  Fits(w)
<1> DEFINE j == job[w]
<1>1. UNCHANGED <<delivery, pickup, trip, seen>>
  BY DEF CreateOrphanSupply
<1>2. CASE Continue(w, Idle) /\ UNCHANGED supply
  <2>1. job'[w].kind = "idle"
    BY <1>2, GoesOn DEF Idle
  <2> QED BY <1>1, <1>2, <2>1, OnlyReads DEF RecallKinds
<1>3. ASSUME NEW s \in SupplyIds, SupplyOf(j.d) = 0, IsNextId(s, supply),
             supply' = [supply EXCEPT ![s] = NewSupply(j.dm, "FULFILLED", j.d)],
             Continue(w, [kind |-> "linkTo", p |-> j.p, m |-> j.m, s |-> s, d |-> j.d])
      PROVE  Fits(w)
  <2> DEFINE row == NewSupply(j.dm, "FULFILLED", j.d)
  <2>1. j.d \in DeliveryIds /\ delivery[j.d].status \in OpenStatus
    <3>1. j \in OrphanJob /\ j.kind = "orphan"
      BY Typed, JobShape DEF CreateOrphanSupply
    <3> QED BY <3>1 DEF OrphanJob, TInv, Recalls
  <2>2. supply[s].status = "ABSENT"
    BY <1>3 DEF IsNextId
  <2>3. row.status = "FULFILLED" /\ row.delivery = j.d
    BY DEF NewSupply
  <2>4. supply' = [supply EXCEPT ![s] = row]
    BY <1>3
  <2> HIDE DEF row
  <2>5. \A k \in SupplyIds : supply[k].delivery # j.d
    BY <1>3, SupplyOfNone
  <2>6. SupplyGood' /\ SuppliesLast
    BY <1>1, <2>1, <2>2, <2>3, <2>4, <2>5, SupplyCreated DEF OpenStatus
  <2>7. supply'[s] = row
    BY <2>4 DEF TInv, SInv, IInv, RowsGood
  <2>8. job'[w] = [kind |-> "linkTo", p |-> j.p, m |-> j.m, s |-> s, d |-> j.d]
    BY <1>3, GoesOn
  <2>9. Recalls(job[w])'
    BY <2>3, <2>7, <2>8 DEF Recalls
  <2>10. LinksGood'
    BY <1>1, <2>6, LinksStay
  <2>11. DriveOnlyPrepared'
    BY <1>1 DEF TInv, RowsFit, DriveOnlyPrepared
  <2> QED BY <1>1, <2>6, <2>9, <2>10, <2>11, LeftAlone, StillFits
<1> QED BY <1>2, <1>3 DEF CreateOrphanSupply

LEMMA CreateSupplyFits == ASSUME TInv, NEW w \in Slots, CreateSupply(w) PROVE Fits(w)
<1> DEFINE m == job[w].m
           free == OpenUnlinkedPickups(m)
<1>1. PICK s \in SupplyIds :
        /\ IsNextId(s, supply)
        /\ supply' = [supply EXCEPT ![s] = NewSupply(m, "OPEN", 0)]
        /\ Continue(w, IF free = {} THEN Idle
                       ELSE [kind |-> "linkFrom", s |-> s, p |-> Oldest(free)])
  BY DEF CreateSupply
<1>2. UNCHANGED <<delivery, pickup, trip, seen>>
  BY DEF CreateSupply
<1>3. SupplyGood' /\ SuppliesLast
  <2> DEFINE row == NewSupply(m, "OPEN", 0)
  <2>1. row.status = "OPEN" /\ row.delivery = 0
    BY DEF NewSupply
  <2>2. supply' = [supply EXCEPT ![s] = row] /\ supply[s].status = "ABSENT"
    BY <1>1 DEF IsNextId
  <2> HIDE DEF row
  <2> QED BY <1>2, <2>1, <2>2, SupplyCreated
<1>4. supply'[s].status # "ABSENT"
  BY <1>1 DEF NewSupply, TInv, SInv, IInv, RowsGood
<1>5. Recalls(job[w])'
  <2> HIDE DEF free
  <2>1. CASE free = {}
    <3>1. Continue(w, Idle)
      BY <1>1, <2>1
    <3>2. job'[w].kind = "idle"
      BY <3>1, GoesOn DEF Idle
    <3> QED BY <3>2, NothingRecalled DEF RecallKinds
  <2>2. CASE free # {}
    <3>1. Continue(w, [kind |-> "linkFrom", s |-> s, p |-> Oldest(free)])
      BY <1>1, <2>2
    <3>2. job'[w] = [kind |-> "linkFrom", s |-> s, p |-> Oldest(free)]
      BY <3>1, GoesOn
    <3> QED BY <1>4, <3>2 DEF Recalls
  <2> QED BY <2>1, <2>2
<1>6. LinksGood'
  BY <1>2, <1>3, LinksStay
<1>7. DriveOnlyPrepared'
  BY <1>2 DEF TInv, RowsFit, DriveOnlyPrepared
<1> QED BY <1>2, <1>3, <1>5, <1>6, <1>7, LeftAlone, StillFits
-----------------------------------------------------------------------------
(* Pickups are created and linked.                                         *)

LEMMA PickupCreated ==
  ASSUME TInv, NEW p \in PickupIds, pickup[p].status = "ABSENT", NEW m, NEW t,
         NEW s \in SupplyIds \cup {0}, pickup' = [pickup EXCEPT ![p] = NewPickup(m, t, s)],
         SuppliesLast, s # 0 => supply[s].status = "ABSENT" /\ supply'[s].status # "ABSENT"
  PROVE  LinksGood' /\ PickupsLast /\ NoPickupTaken
<1> DEFINE row == NewPickup(m, t, s)
<1>1. row.link = s /\ row.status = "CREATED" /\ row.op = NoOp
  BY DEF NewPickup
<1>2. pickup' = [pickup EXCEPT ![p] = row]
  OBVIOUS
<1> HIDE DEF row
<1>3. pickup'[p] = row /\ \A k \in PickupIds \ {p} : pickup'[k] = pickup[k]
  BY <1>2 DEF TInv, SInv, IInv, RowsGood
<1>4. pickup[p].link = 0
  BY DEF TInv, SInv
<1>5. PickupsLast /\ NoPickupTaken
  BY <1>1, <1>3, <1>4 DEF PickupsLast, NoPickupTaken, OpenStatus
<1>6. ASSUME NEW k \in PickupIds, pickup'[k].link # 0
      PROVE  /\ supply'[pickup'[k].link].status # "ABSENT"
             /\ \A i \in PickupIds : pickup'[i].link = pickup'[k].link => i = k
  <2>1. \A i \in PickupIds : pickup[i].link # 0 =>
          /\ pickup[i].link \in SupplyIds /\ supply[pickup[i].link].status # "ABSENT"
          /\ \A n \in PickupIds : pickup[n].link = pickup[i].link => n = i
    BY Typed DEF GoodPickup, PickupRow, TInv, RowsFit, LinksGood
  <2>2. CASE k = p
    <3>1. pickup'[k].link = s /\ s # 0
      BY <1>1, <1>3, <1>6, <2>2
    <3>2. \A i \in PickupIds \ {p} : pickup'[i].link # s
      BY <1>3, <2>1, <3>1
    <3> QED BY <2>2, <3>1, <3>2
  <2>3. CASE k # p
    <3>1. pickup'[k].link = pickup[k].link /\ pickup[k].link # 0
      BY <1>3, <1>6, <2>3
    <3>2. pickup'[p].link # pickup[k].link
      BY <1>1, <1>3, <2>1, <3>1
    <3> QED BY <1>3, <2>1, <2>3, <3>1, <3>2 DEF SuppliesLast
  <2> QED BY <2>2, <2>3
<1> QED BY <1>5, <1>6 DEF LinksGood

LEMMA RequestPickupFits ==
  ASSUME TInv, NEW w \in Slots, NEW m \in Machines, NEW t \in TaskTypes, RequestPickup(w, m, t)
  PROVE  Fits(w)
<1>1. PICK p \in PickupIds :
        /\ IsNextId(p, pickup)
        /\ pickup' = [pickup EXCEPT ![p] = NewPickup(m, t, 0)]
        /\ Continue(w, [kind |-> "link", p |-> p, m |-> m])
  BY DEF RequestPickup
<1>2. UNCHANGED <<delivery, supply, trip, seen>>
  BY DEF RequestPickup
<1>3. DeliveriesLast /\ NoDeliveryTaken /\ SuppliesLast /\ TripsLast
  BY <1>2, LeftAlone
<1>4. LinksGood' /\ PickupsLast /\ NoPickupTaken
  <2>1. pickup[p].status = "ABSENT" /\ 0 \in SupplyIds \cup {0}
    BY <1>1 DEF IsNextId
  <2>2. pickup' = [pickup EXCEPT ![p] = NewPickup(m, t, 0)]
    BY <1>1
  <2> QED BY <1>3, <2>1, <2>2, PickupCreated
<1>5. SupplyGood' /\ DriveOnlyPrepared'
  BY <1>2 DEF TInv, RowsFit, SupplyGood, DriveOnlyPrepared
<1>6. job'[w] = [kind |-> "link", p |-> p, m |-> m]
  BY <1>1, GoesOn
<1>7. Recalls(job[w])'
  BY <1>6, NothingRecalled DEF RecallKinds
<1> QED BY <1>2, <1>3, <1>4, <1>5, <1>7, StillFits

LEMMA CreateBothFits == ASSUME TInv, NEW w \in Slots, CreateBoth(w) PROVE Fits(w)
<1> DEFINE j == job[w]
<1>1. PICK s \in SupplyIds, p \in PickupIds :
        /\ IsNextId(s, supply) /\ IsNextId(p, pickup)
        /\ supply' = [supply EXCEPT ![s] = NewSupply(j.m, "OPEN", 0)]
        /\ pickup' = [pickup EXCEPT ![p] = NewPickup(j.m, j.t, s)]
  BY DEF CreateBoth
<1>2. UNCHANGED <<delivery, trip, seen>>
  BY DEF CreateBoth
<1>3. supply[s].status = "ABSENT" /\ pickup[p].status = "ABSENT" /\ supply'[s].status = "OPEN"
  BY <1>1 DEF IsNextId, NewSupply, TInv, SInv, IInv, RowsGood
<1>4. SupplyGood' /\ SuppliesLast
  <2> DEFINE row == NewSupply(j.m, "OPEN", 0)
  <2>1. row.status = "OPEN" /\ row.delivery = 0
    BY DEF NewSupply
  <2>2. supply' = [supply EXCEPT ![s] = row]
    BY <1>1
  <2> HIDE DEF row
  <2> QED BY <1>2, <1>3, <2>1, <2>2, SupplyCreated
<1>5. LinksGood' /\ PickupsLast /\ NoPickupTaken
  <2>1. pickup' = [pickup EXCEPT ![p] = NewPickup(j.m, j.t, s)]
    BY <1>1
  <2> QED BY <1>3, <1>4, <2>1, PickupCreated
<1>6. DriveOnlyPrepared'
  BY <1>2 DEF TInv, RowsFit, DriveOnlyPrepared
<1>7. Recalls(job[w])'
  <2>1. job'[w].kind = "idle"
    BY GoesOn DEF CreateBoth, Idle
  <2> QED BY <2>1, NothingRecalled DEF RecallKinds
<1> QED BY <1>2, <1>4, <1>5, <1>6, <1>7, LeftAlone, StillFits

\* Of one open pickup the link is written, if no other pickup has it; of finished
\* ones it may be cleared.
LEMMA LinkWritten ==
  ASSUME TInv, NEW p \in PickupIds, NEW s \in SupplyIds, supply[s].status # "ABSENT",
         UNCHANGED <<delivery, supply, trip, seen>>, pickup[p].link = 0,
         \A k \in PickupIds : pickup'[k].status = pickup[k].status /\ pickup'[k].op = pickup[k].op,
         \A k \in PickupIds \ {p} :
           /\ pickup'[k].link \in {0, pickup[k].link}
           /\ pickup[k].status \in OpenStatus => pickup'[k].link = pickup[k].link,
         \/ pickup'[p].link = 0
         \/ pickup'[p].link = s /\ \A k \in PickupIds \ {p} : pickup'[k].link # s
  PROVE  RowsFit'
<1>1. SupplyGood' /\ DriveOnlyPrepared'
  BY DEF TInv, RowsFit, SupplyGood, DriveOnlyPrepared
<1>2. LinksGood'
  <2>1. \A k \in PickupIds : pickup[k].link # 0 =>
          /\ supply[pickup[k].link].status # "ABSENT"
          /\ \A i \in PickupIds : pickup[i].link = pickup[k].link => i = k
    BY DEF TInv, RowsFit, LinksGood
  <2>2. ASSUME NEW k \in PickupIds, pickup'[k].link # 0
        PROVE  /\ supply'[pickup'[k].link].status # "ABSENT"
               /\ \A i \in PickupIds : pickup'[i].link = pickup'[k].link => i = k
    <3>1. CASE k = p
      BY <2>2, <3>1
    <3>2. CASE k # p
      <4>1. pickup'[k].link = pickup[k].link /\ pickup[k].link # 0
        BY <2>2, <3>2
      <4>2. \A i \in PickupIds \ {p} : pickup'[i].link = pickup'[k].link => i = k
        BY <2>1, <2>2, <4>1
      <4>3. pickup'[p].link # pickup'[k].link
        BY <2>2, <3>2
      <4> QED BY <2>1, <4>1, <4>2, <4>3
    <3> QED BY <3>1, <3>2
  <2> QED BY <2>2 DEF LinksGood
<1>3. PickupsLast
  BY DEF PickupsLast
<1>4. NoPickupTaken
  BY DEF NoPickupTaken
<1>5. TripsGood' /\ HandsGood'
  BY <1>3, <1>4, LeftAlone, TripsStay, HandsStay
<1> QED BY <1>1, <1>2, <1>5 DEF RowsFit

LEMMA LinkPickupFits == ASSUME TInv, NEW w \in Slots, LinkPickup(w) PROVE Fits(w)
<1> DEFINE j == job[w]
           cleared == LinksCleared(j.s)
           taken == \E p \in PickupIds \ {j.p} : cleared[p].link = j.s
<1>1. /\ j.p \in PickupIds /\ j.s \in SupplyIds /\ j.s # 0
      /\ pickup[j.p].status \in OpenStatus /\ pickup[j.p].link = 0
      /\ supply[j.s].status # "ABSENT" /\ supply[j.s].delivery = j.d
  <2>1. j.kind = "linkTo"
    BY DEF LinkPickup
  <2>2. j.p \in PickupIds /\ j.s \in SupplyIds
    BY <2>1, MachineRemembers DEF TInv
  <2> QED BY <2>1, <2>2, BoundsAssumption DEF SupplyIds, TInv, SInv, Fresh, Recalls
<1>2. \A p \in PickupIds :
        /\ cleared[p] \in PickupRow /\ cleared[p].status = pickup[p].status
        /\ cleared[p].op = pickup[p].op /\ cleared[p].link \in {0, pickup[p].link}
        /\ pickup[p].status \in OpenStatus => cleared[p].link = pickup[p].link
  <2> SUFFICES ASSUME NEW p \in PickupIds
               PROVE  /\ cleared[p] \in PickupRow /\ cleared[p].status = pickup[p].status
                      /\ cleared[p].op = pickup[p].op /\ cleared[p].link \in {0, pickup[p].link}
                      /\ pickup[p].status \in OpenStatus => cleared[p].link = pickup[p].link
    OBVIOUS
  <2>1. pickup[p] \in PickupRow
    BY Typed DEF GoodPickup
  <2> QED BY <2>1 DEF LinksCleared, PickupRow, OpenStatus
<1>3. DOMAIN cleared = PickupIds
  BY DEF LinksCleared
<1>4. pickup' = IF taken THEN cleared ELSE [cleared EXCEPT ![j.p].link = j.s]
  BY DEF LinkPickup
<1>5. UNCHANGED <<delivery, supply, trip, seen>>
  BY DEF LinkPickup
<1> HIDE DEF cleared
<1>6. \A k \in PickupIds : /\ pickup'[k].status = cleared[k].status /\ pickup'[k].op = cleared[k].op
                           /\ k # j.p => pickup'[k].link = cleared[k].link
                           /\ k = j.p => pickup'[k].link = IF taken THEN cleared[k].link ELSE j.s
  BY <1>1, <1>2, <1>3, <1>4 DEF PickupRow
<1>7. \/ pickup'[j.p].link = 0
      \/ pickup'[j.p].link = j.s /\ \A k \in PickupIds \ {j.p} : pickup'[k].link # j.s
  BY <1>1, <1>2, <1>6
<1>8. RowsFit'
  BY <1>1, <1>2, <1>5, <1>6, <1>7, LinkWritten
<1>9. Recalls(job[w])'
  <2>1. job'[w] = IF taken THEN Idle ELSE AfterLink(j)
    BY GoesOn DEF LinkPickup, cleared
  <2>2. CASE job'[w].kind \notin RecallKinds
    BY <2>2, NothingRecalled
  <2>3. CASE job'[w].kind \in RecallKinds
    <3>1. /\ ~ taken /\ j.d # 0 /\ delivery[j.d].status = "ASSIGNED"
          /\ job'[w] = [kind |-> "join", p |-> j.p, m |-> j.m, d |-> j.d, t |-> delivery[j.d].type,
                        o |-> delivery[j.d].op, with |-> delivery[j.d].with]
      BY <2>1, <2>3 DEF AfterLink, Idle, RecallKinds
    <3>2. pickup'[j.p].link = j.s /\ pickup'[j.p].status # "ABSENT"
      BY <1>1, <1>2, <1>6, <3>1 DEF OpenStatus
    <3> HIDE DEF j
    <3>3. /\ job'[w].kind = "join" /\ job'[w].p = j.p /\ job'[w].d = j.d
          /\ job'[w].o = delivery[j.d].op
      BY <3>1
    <3>4. pickup'[j.p].link # 0 /\ supply'[pickup'[j.p].link].delivery = j.d
      BY <1>1, <1>5, <3>2
    <3>5. isLinkedPair(job[w].d, job[w].p)' /\ pickup'[job'[w].p].status # "ABSENT"
      BY <3>2, <3>3, <3>4 DEF isLinkedPair
    <3>6. delivery'[job'[w].d].status = "ASSIGNED" /\ delivery'[job'[w].d].op = job'[w].o
      BY <1>5, <3>1, <3>3
    <3> QED BY <3>3, <3>5, <3>6 DEF Recalls
  <2> QED BY <2>2, <2>3
<1> QED BY <1>8, <1>9 DEF Fits

LEMMA LinkSupplyFits == ASSUME TInv, NEW w \in Slots, LinkSupply(w) PROVE Fits(w)
<1> DEFINE j == job[w]
<1>1. /\ j.p \in PickupIds /\ j.s \in SupplyIds
      /\ pickup[j.p].link = 0 /\ supply[j.s].status # "ABSENT"
  <2>1. j.kind = "linkFrom" /\ j \in LinkFromJob
    BY Typed, JobShape DEF LinkSupply
  <2> QED BY <2>1 DEF LinkFromJob, TInv, SInv, Fresh, Recalls
<1>2. \A k \in PickupIds : pickup[k] \in PickupRow
  BY Typed DEF GoodPickup
<1>3. DOMAIN pickup = PickupIds
  BY DEF TInv, SInv, IInv, RowsGood
<1>4. \A k \in PickupIds : /\ pickup'[k].status = pickup[k].status /\ pickup'[k].op = pickup[k].op
                           /\ k # j.p => pickup'[k].link = pickup[k].link
  BY <1>2, <1>3 DEF LinkSupply, PickupRow
<1>5. \/ pickup'[j.p].link = 0
      \/ pickup'[j.p].link = j.s /\ \A k \in PickupIds \ {j.p} : pickup'[k].link # j.s
  <2>1. CASE pickup' = pickup
    BY <1>1, <2>1
  <2>2. CASE /\ pickup' = [pickup EXCEPT ![j.p].link = j.s]
             /\ \A k \in PickupIds \ {j.p} : pickup[k].link # j.s
    BY <1>1, <1>2, <1>3, <2>2 DEF PickupRow
  <2> QED BY <2>1, <2>2 DEF LinkSupply
<1>6. RowsFit'
  <2>1. UNCHANGED <<delivery, supply, trip, seen>>
    BY DEF LinkSupply
  <2>2. \A k \in PickupIds \ {j.p} :
          /\ pickup'[k].link \in {0, pickup[k].link}
          /\ pickup[k].status \in OpenStatus => pickup'[k].link = pickup[k].link
    BY <1>4
  <2> HIDE DEF j
  <2> QED BY <1>1, <1>4, <1>5, <2>1, <2>2, LinkWritten
<1>7. Recalls(job[w])'
  <2>1. job'[w].kind = "idle"
    BY GoesOn DEF LinkSupply, Idle
  <2> QED BY <2>1, NothingRecalled DEF RecallKinds
<1> QED BY <1>6, <1>7 DEF Fits
-----------------------------------------------------------------------------
(* A transporter gets something into her hands.                            *)

\* The pickup of a delivery is the only one linked to it.
LEMMA OnlyPickup ==
  ASSUME TInv, NEW d, d # 0, NEW p \in PickupIds, NEW k \in PickupIds,
         isLinkedPair(d, p), isLinkedPair(d, k)
  PROVE  p = k
<1>1. pickup[p].link \in SupplyIds /\ pickup[k].link \in SupplyIds
  BY Typed DEF isLinkedPair, GoodPickup, PickupRow
<1>2. pickup[p].link = pickup[k].link
  BY <1>1 DEF isLinkedPair, TInv, RowsFit, SupplyGood
<1> QED BY <1>2 DEF isLinkedPair, TInv, RowsFit, LinksGood

\* Transporter o ends up with d and p at most; nobody else gets anything.
LEMMA HandsTaken ==
  ASSUME TInv, PickupsLast, SuppliesLast, NEW o \in Operators, NEW d, NEW p,
         \A e \in DeliveryIds : delivery'[e].status \in OpenStatus /\ delivery'[e].op # NoOp =>
           \/ delivery[e].status \in OpenStatus /\ delivery[e].op = delivery'[e].op
           \/ e = d /\ delivery'[e].op = o,
         \A k \in PickupIds : pickup'[k].status \in OpenStatus /\ pickup'[k].op # NoOp =>
           \/ pickup[k].status \in OpenStatus /\ pickup[k].op = pickup'[k].op
           \/ k = p /\ pickup'[k].op = o,
         \A e \in OpenDeliveriesOf(o) : e = d, \A k \in OpenPickupsOf(o) : k = p,
         d \in OpenDeliveriesOf(o)' /\ p \in OpenPickupsOf(o)' => isLinkedPair(d, p)
  PROVE  HandsGood'
<1> SUFFICES ASSUME NEW x \in Operators
             PROVE  /\ \A e, f \in OpenDeliveriesOf(x)' : e = f
                    /\ \A k, i \in OpenPickupsOf(x)' : k = i
                    /\ \A e \in OpenDeliveriesOf(x)', k \in OpenPickupsOf(x)' :
                         pickup'[k].link # 0 /\ supply'[pickup'[k].link].delivery = e
  BY DEF HandsGood, isLinkedPair
<1>1. \A e \in OpenDeliveriesOf(x)' : e \in OpenDeliveriesOf(x) \/ (e = d /\ x = o)
  BY NullAssumption DEF OpenDeliveriesOf
<1>2. \A k \in OpenPickupsOf(x)' : k \in OpenPickupsOf(x) \/ (k = p /\ x = o)
  BY NullAssumption DEF OpenPickupsOf
<1>3. ASSUME NEW e \in OpenDeliveriesOf(x)', NEW k \in OpenPickupsOf(x)'
      PROVE  pickup'[k].link # 0 /\ supply'[pickup'[k].link].delivery = e
  <2>1. e \in DeliveryIds /\ k \in PickupIds /\ pickup'[k].status \in OpenStatus
    BY <1>3 DEF OpenDeliveriesOf, OpenPickupsOf
  <2>2. isLinkedPair(e, k)
    <3>1. CASE x = o
      BY <1>1, <1>2, <1>3, <3>1
    <3>2. CASE x # o
      BY <1>1, <1>2, <1>3, <3>2 DEF TInv, RowsFit, HandsGood
    <3> QED BY <3>1, <3>2
  <2> QED BY <2>1, <2>2, LinkedLast
<1>4. \A e, f \in OpenDeliveriesOf(x)' : e = f
  BY <1>1 DEF TInv, RowsFit, HandsGood
<1>5. \A k, i \in OpenPickupsOf(x)' : k = i
  BY <1>2 DEF TInv, RowsFit, HandsGood
<1> QED BY <1>3, <1>4, <1>5

LEMMA JoinDeliveryFits == ASSUME TInv, NEW w \in Slots, JoinDelivery(w) PROVE Fits(w)
<1> DEFINE j == job[w]
           row == [pickup[j.p] EXCEPT !.status = "ASSIGNED", !.op = j.o, !.with = j.with]
<1>1. /\ j \in JoinJob /\ j.p \in PickupIds /\ j.d \in DeliveryIds /\ j.o \in Operators
      /\ pickup[j.p].status \in OpenStatus /\ isLinkedPair(j.d, j.p)
      /\ delivery[j.d].status = "ASSIGNED" /\ delivery[j.d].op = j.o
  <2>1. j.kind = "join" /\ j \in JoinJob
    BY Typed, JobShape DEF JoinDelivery
  <2> QED BY <2>1 DEF JoinJob, TInv, SInv, Fresh, Recalls
<1>2. pickup' = [pickup EXCEPT ![j.p] = row]
  BY <1>1, Typed DEF JoinDelivery, TInv, SInv, IInv, RowsGood, GoodPickup, PickupRow
<1>3. row.status = "ASSIGNED" /\ row.op = j.o /\ row.link = pickup[j.p].link
  BY <1>1, Typed DEF GoodPickup, PickupRow
<1> HIDE DEF row
<1>4. \A k \in PickupIds : pickup'[k] = IF k = j.p THEN row ELSE pickup[k]
  BY <1>2 DEF TInv, SInv, IInv, RowsGood
<1>5. UNCHANGED <<delivery, supply, trip, seen>>
  BY DEF JoinDelivery
<1>6. SupplyGood' /\ DriveOnlyPrepared'
  BY <1>5 DEF TInv, RowsFit, SupplyGood, DriveOnlyPrepared
<1>7. PickupsLast
  BY <1>1, <1>3, <1>4 DEF PickupsLast, OpenStatus
<1>8. LinksGood' /\ TripsGood'
  BY <1>3, <1>4, <1>5, <1>7, LeftAlone, LinksStay, TripsStay
<1>9. HandsGood'
  <2>1. j.d \in OpenDeliveriesOf(j.o) /\ j.d # 0
    BY <1>1, BoundsAssumption DEF OpenDeliveriesOf, OpenStatus, DeliveryIds
  <2>2. \A e \in OpenDeliveriesOf(j.o) : e = j.d
    BY <1>1, <2>1 DEF TInv, RowsFit, HandsGood
  <2>3. \A k \in OpenPickupsOf(j.o) : k = j.p
    <3>1. \A k \in OpenPickupsOf(j.o) : k \in PickupIds /\ isLinkedPair(j.d, k)
      BY <1>1, <2>1 DEF TInv, RowsFit, HandsGood, OpenPickupsOf
    <3> QED BY <1>1, <2>1, <3>1, OnlyPickup
  <2>4. \A k \in PickupIds : pickup'[k].status \in OpenStatus /\ pickup'[k].op # NoOp =>
          \/ pickup[k].status \in OpenStatus /\ pickup[k].op = pickup'[k].op
          \/ k = j.p /\ pickup'[k].op = j.o
    BY <1>3, <1>4
  <2>5. SuppliesLast
    BY <1>5, LeftAlone
  <2> HIDE DEF j
  <2> QED BY <1>1, <1>5, <1>7, <2>2, <2>3, <2>4, <2>5, HandsTaken
<1>10. Recalls(job[w])'
  <2>1. job'[w] = [j EXCEPT !.kind = "joinPair"]
    BY GoesOn DEF JoinDelivery
  <2>2. /\ job'[w].kind = "joinPair" /\ job'[w].p = j.p /\ job'[w].d = j.d /\ job'[w].o = j.o
    BY <1>1, <2>1 DEF JoinJob
  <2>3. /\ pickup'[j.p].link # 0 /\ supply'[pickup'[j.p].link].delivery = j.d
        /\ pickup'[j.p].status # "ABSENT"
    BY <1>1, <1>3, <1>4, <1>5 DEF isLinkedPair
  <2> QED BY <1>1, <1>5, <2>2, <2>3 DEF Recalls, isLinkedPair
<1> QED BY <1>6, <1>8, <1>9, <1>10 DEF Fits, RowsFit

\* The write of an accept: the hands are free, and they get d, or p, or both when the
\* pair is linked.
LEMMA TakenFits ==
  ASSUME TInv, NEW w \in Slots, NEW o \in Operators, HandsFree(o), NEW d, NEW p,
         \A e \in DeliveryIds :
           \/ delivery'[e] = delivery[e]
           \/ /\ e = d /\ delivery[e].status = "CREATED" /\ delivery'[e].status = "ASSIGNED"
              /\ delivery'[e].op = o /\ delivery[e].prepared /\ delivery'[e].prepared,
         \A k \in PickupIds :
           \/ pickup'[k] = pickup[k]
           \/ /\ k = p /\ pickup[k].status = "CREATED" /\ pickup'[k].status = "ASSIGNED"
              /\ pickup'[k].op = o /\ pickup'[k].link = pickup[k].link,
         d \in DeliveryIds /\ p \in PickupIds /\ pickup[p].status \in OpenStatus => isLinkedPair(d, p),
         TripsLast, UNCHANGED <<supply, seen>>, job'[w].kind = "idle"
  PROVE  Fits(w)
<1>1. DeliveriesLast /\ PickupsLast /\ SuppliesLast
  BY DEF DeliveriesLast, PickupsLast, SuppliesLast, OpenStatus
<1>2. SupplyGood'
  BY <1>1, DeliveriesWritten
<1>3. LinksGood'
  BY <1>1, LinksStay
<1>4. TripsGood'
  BY <1>1, TripsStay
<1>5. DriveOnlyPrepared'
  BY DEF TInv, RowsFit, DriveOnlyPrepared
<1>6. HandsGood'
  <2>1. \A e \in DeliveryIds : delivery'[e].status \in OpenStatus /\ delivery'[e].op # NoOp =>
          \/ delivery[e].status \in OpenStatus /\ delivery[e].op = delivery'[e].op
          \/ e = d /\ delivery'[e].op = o
    OBVIOUS
  <2>2. \A k \in PickupIds : pickup'[k].status \in OpenStatus /\ pickup'[k].op # NoOp =>
          \/ pickup[k].status \in OpenStatus /\ pickup[k].op = pickup'[k].op
          \/ k = p /\ pickup'[k].op = o
    OBVIOUS
  <2>3. d \in OpenDeliveriesOf(o)' /\ p \in OpenPickupsOf(o)' => isLinkedPair(d, p)
    BY DEF OpenDeliveriesOf, OpenPickupsOf, OpenStatus
  <2>4. (\A e \in OpenDeliveriesOf(o) : e = d) /\ (\A k \in OpenPickupsOf(o) : k = p)
    BY DEF HandsFree
  <2> QED BY <1>1, <2>1, <2>2, <2>3, <2>4, HandsTaken
<1>7. Recalls(job[w])'
  BY NothingRecalled DEF RecallKinds
<1> QED BY <1>2, <1>3, <1>4, <1>5, <1>6, <1>7 DEF Fits, RowsFit

LEMMA FinishAcceptTaskFits ==
  ASSUME TInv, NEW w \in Slots, FinishAcceptDeliver(w) \/ FinishAcceptPickup(w)
  PROVE  Fits(w)
<1> DEFINE j == job[w]
<1>1. job'[w].kind = "idle"
  BY GoesOn DEF FinishAcceptDeliver, FinishAcceptPickup, Idle
<1>2. 0 \notin DeliveryIds /\ 0 \notin PickupIds
  BY BoundsAssumption DEF DeliveryIds, PickupIds
<1>3. CASE FinishAcceptDeliver(w)
  <2>1. /\ j.d \in DeliveryIds /\ j.o \in Operators /\ delivery[j.d].status = "CREATED"
        /\ delivery[j.d].prepared /\ HandsFree(j.o)
    <3>1. j.kind = "acceptDeliver" /\ j \in AcceptJob
      BY <1>3, Typed, JobShape DEF FinishAcceptDeliver
    <3> QED BY <3>1 DEF AcceptJob, TInv, SInv, Fresh, Recalls
  <2> DEFINE row == Assigned(delivery[j.d], j.o, j.with)
  <2>2. delivery' = [delivery EXCEPT ![j.d] = row]
    BY <1>3, <2>1 DEF FinishAcceptDeliver, TInv, SInv, IInv, RowsGood
  <2>3. row.status = "ASSIGNED" /\ row.op = j.o /\ row.prepared
    BY <2>1, Typed DEF Assigned, GoodDelivery, DeliveryRow
  <2> HIDE DEF row
  <2>4. \A e \in DeliveryIds : delivery'[e] = IF e = j.d THEN row ELSE delivery[e]
    BY <2>2 DEF TInv, SInv, IInv, RowsGood
  <2>5. UNCHANGED <<pickup, supply, trip, seen>>
    BY <1>3 DEF FinishAcceptDeliver
  <2>6. TripsLast
    BY <2>5, LeftAlone
  <2> HIDE DEF j
  <2> QED BY <1>1, <1>2, <2>1, <2>3, <2>4, <2>5, <2>6, TakenFits
<1>4. CASE FinishAcceptPickup(w)
  <2>1. /\ j.p \in PickupIds /\ j.o \in Operators /\ pickup[j.p].status = "CREATED"
        /\ HandsFree(j.o)
    <3>1. j.kind = "acceptPickup" /\ j \in AcceptJob
      BY <1>4, Typed, JobShape DEF FinishAcceptPickup
    <3> QED BY <3>1 DEF AcceptJob, TInv, SInv, Fresh, Recalls
  <2> DEFINE row == Assigned(pickup[j.p], j.o, j.with)
  <2>2. pickup' = [pickup EXCEPT ![j.p] = row]
    BY <1>4, <2>1 DEF FinishAcceptPickup, TInv, SInv, IInv, RowsGood
  <2>3. row.status = "ASSIGNED" /\ row.op = j.o /\ row.link = pickup[j.p].link
    BY <2>1, Typed DEF Assigned, GoodPickup, PickupRow
  <2> HIDE DEF row
  <2>4. \A k \in PickupIds : pickup'[k] = IF k = j.p THEN row ELSE pickup[k]
    BY <2>2 DEF TInv, SInv, IInv, RowsGood
  <2>5. UNCHANGED <<delivery, supply, trip, seen>>
    BY <1>4 DEF FinishAcceptPickup
  <2>6. TripsLast
    BY <2>5, LeftAlone
  <2> HIDE DEF j
  <2> QED BY <1>1, <1>2, <2>1, <2>3, <2>4, <2>5, <2>6, TakenFits
<1> QED BY <1>3, <1>4

LEMMA FinishAcceptTripFits == ASSUME TInv, NEW w \in Slots, FinishAcceptTrip(w) PROVE Fits(w)
<1> DEFINE j == job[w]
<1>1. /\ j.r \in TripIds /\ j.o \in Operators /\ j.d \in DeliveryIds /\ j.p \in PickupIds
      /\ HandsFree(j.o) /\ delivery[j.d].prepared
      /\ isLive(j.r) /\ trip[j.r].deliver = j.d /\ trip[j.r].pickup = j.p
  <2>1. j.kind = "acceptTrip" /\ j \in AcceptJob
    BY Typed, JobShape DEF FinishAcceptTrip
  <2> QED BY <2>1 DEF AcceptJob, TInv, Recalls
<1>2. job'[w].kind = "idle"
  BY GoesOn DEF FinishAcceptTrip, Idle
<1>3. UNCHANGED <<supply, seen>>
  BY DEF FinishAcceptTrip
<1>4. CASE UNCHANGED <<delivery, pickup, trip>>
  BY <1>2, <1>3, <1>4, OnlyReads DEF RecallKinds
<1>5. CASE /\ trip' = [trip EXCEPT ![j.r].status = "ACCEPTED", ![j.r].by = j.o]
           /\ delivery' = [delivery EXCEPT ![j.d] =
                             IF @.status = "CREATED" THEN Assigned(@, j.o, j.with) ELSE @]
           /\ pickup' = [pickup EXCEPT ![j.p] =
                           IF @.status = "CREATED" THEN Assigned(@, j.o, j.with) ELSE @]
  <2>1. \A e \in DeliveryIds :
          \/ delivery'[e] = delivery[e]
          \/ /\ e = j.d /\ delivery[e].status = "CREATED" /\ delivery'[e].status = "ASSIGNED"
             /\ delivery'[e].op = j.o /\ delivery[e].prepared /\ delivery'[e].prepared
    <3> DEFINE row == Assigned(delivery[j.d], j.o, j.with)
    <3>1. row.status = "ASSIGNED" /\ row.op = j.o /\ row.prepared
      BY <1>1, Typed DEF Assigned, GoodDelivery, DeliveryRow
    <3>2. delivery' = [delivery EXCEPT ![j.d] =
                         IF delivery[j.d].status = "CREATED" THEN row ELSE delivery[j.d]]
      BY <1>5
    <3> HIDE DEF row
    <3> QED BY <1>1, <3>1, <3>2 DEF TInv, SInv, IInv, RowsGood
  <2>2. \A k \in PickupIds :
          \/ pickup'[k] = pickup[k]
          \/ /\ k = j.p /\ pickup[k].status = "CREATED" /\ pickup'[k].status = "ASSIGNED"
             /\ pickup'[k].op = j.o /\ pickup'[k].link = pickup[k].link
    <3> DEFINE row == Assigned(pickup[j.p], j.o, j.with)
    <3>1. row.status = "ASSIGNED" /\ row.op = j.o /\ row.link = pickup[j.p].link
      BY <1>1, Typed DEF Assigned, GoodPickup, PickupRow
    <3>2. pickup' = [pickup EXCEPT ![j.p] =
                       IF pickup[j.p].status = "CREATED" THEN row ELSE pickup[j.p]]
      BY <1>5
    <3> HIDE DEF row
    <3> QED BY <1>1, <3>1, <3>2 DEF TInv, SInv, IInv, RowsGood
  <2>3. TripsLast
    <3>1. trip[j.r] \in TripRow /\ trip \in [TripIds -> TripRow]
      BY <1>1, Typed DEF GoodTrip, TInv, SInv, IInv, RowsGood
    <3>2. \A r \in TripIds : /\ r # j.r => trip'[r] = trip[r]
                             /\ r = j.r => /\ trip'[r].status = "ACCEPTED"
                                           /\ trip'[r].deliver = trip[r].deliver
                                           /\ trip'[r].pickup = trip[r].pickup
      BY <1>1, <1>5, <3>1 DEF TripRow
    <3> QED BY <1>1, <3>2 DEF TripsLast, KeepsPairs, isLive
  <2>4. pickup[j.p].status \in OpenStatus => isLinkedPair(j.d, j.p)
    BY <1>1 DEF TInv, RowsFit, TripsGood
  <2>5. j.o \in Operators /\ HandsFree(j.o)
    BY <1>1
  <2> HIDE DEF j
  <2> QED BY <1>2, <1>3, <2>1, <2>2, <2>3, <2>4, <2>5, TakenFits
<1> QED BY <1>4, <1>5 DEF FinishAcceptTrip

LEMMA FinishCompletePickupFits ==
  ASSUME TInv, NEW w \in Slots, FinishCompletePickup(w)
  PROVE  Fits(w)
<1> DEFINE j == job[w]
           r == Oldest({i \in TripIds : trip[i].status = "ACCEPTED" /\ trip[i].pickup = j.p})
<1>1. j.p \in PickupIds
  BY AcceptRemembers DEF FinishCompletePickup, TInv
<1>2. /\ pickup'[j.p].status = "COMPLETED" /\ pickup'[j.p].link = pickup[j.p].link
      /\ \A k \in PickupIds \ {j.p} : pickup'[k] = pickup[k]
  <2>1. pickup \in [PickupIds -> PickupRow]
    BY Typed DEF GoodPickup, TInv, SInv, IInv, RowsGood
  <2>2. pickup' = [pickup EXCEPT ![j.p].status = "COMPLETED", ![j.p].op = j.o,
                                 ![j.p].with = IF j.first THEN j.with ELSE @]
    BY DEF FinishCompletePickup
  <2>3. pickup[j.p] \in PickupRow
    BY <1>1, <2>1
  <2> HIDE DEF j
  <2> QED BY <1>1, <2>1, <2>2, <2>3 DEF PickupRow
<1>3. UNCHANGED <<delivery, supply, trip, seen>>
  BY DEF FinishCompletePickup
<1>4. PickupsLast /\ NoPickupTaken
  BY <1>2 DEF PickupsLast, NoPickupTaken, OpenStatus
<1>5. SupplyGood' /\ DriveOnlyPrepared'
  BY <1>3 DEF TInv, RowsFit, SupplyGood, DriveOnlyPrepared
<1>6. LinksGood'
  BY <1>2, <1>3, LeftAlone, LinksStay
<1>7. Recalls(job[w])'
  <2>1. Continue(w, IF r = 0 THEN Idle ELSE [kind |-> "closeTrip", r |-> r])
    BY DEF FinishCompletePickup
  <2> HIDE DEF r
  <2>2. job'[w] = IF r = 0 THEN Idle ELSE [kind |-> "closeTrip", r |-> r]
    BY <2>1, GoesOn
  <2>3. job'[w].kind \notin RecallKinds
    BY <2>2 DEF Idle, RecallKinds
  <2> QED BY <2>3, NothingRecalled
<1> QED BY <1>3, <1>4, <1>5, <1>6, <1>7, LeftAlone, StillFits

\* Cancelling: the delivery that goes is the one of the request that goes.
LEMMA FinishCancelFits == ASSUME TInv, NEW w \in Slots, FinishCancel(w) PROVE Fits(w)
<1> DEFINE j == job[w]
<1>1. /\ j.p \in PickupIds /\ j.s \in SupplyIds \cup {0} /\ j.d \in DeliveryIds \cup {0}
      /\ j.d # 0 => /\ j.s # 0 /\ supply[j.s].delivery = j.d
                    /\ delivery[j.d].status = "CREATED"
      /\ j.d = 0 /\ j.s # 0 => supply[j.s].status = "OPEN"
  <2>1. j.kind = "cancelTx" /\ j \in CancelTxJob
    BY Typed, JobShape DEF FinishCancel
  <2> QED BY <2>1 DEF CancelTxJob, TInv, SInv, Fresh, Recalls
<1>2. 0 \notin DeliveryIds /\ 0 \notin SupplyIds
  BY BoundsAssumption DEF DeliveryIds, SupplyIds
<1>3. \A e \in DeliveryIds :
        /\ e # j.d => delivery'[e] = delivery[e]
        /\ e = j.d => /\ delivery'[e].status = "CANCELED"
                      /\ delivery'[e].prepared = delivery[e].prepared
  <2>1. delivery \in [DeliveryIds -> DeliveryRow]
    BY Typed DEF GoodDelivery, TInv, SInv, IInv, RowsGood
  <2>2. CASE j.d = 0
    BY <1>2, <2>2 DEF FinishCancel
  <2>3. CASE j.d \in DeliveryIds
    <3>1. delivery' = [delivery EXCEPT ![j.d].status = "CANCELED"]
      BY <1>2, <2>3 DEF FinishCancel
    <3> QED BY <2>1, <2>3, <3>1 DEF DeliveryRow
  <2> QED BY <1>1, <2>2, <2>3
<1>4. \A s \in SupplyIds :
        /\ s # j.s => supply'[s] = supply[s]
        /\ s = j.s => supply'[s].status = "CANCELLED" /\ supply'[s].delivery = supply[s].delivery
  <2>1. supply \in [SupplyIds -> SupplyRow]
    BY DEF TInv, SInv, IInv, RowsGood
  <2>2. CASE j.s = 0
    BY <1>2, <2>2 DEF FinishCancel
  <2>3. CASE j.s \in SupplyIds
    <3>1. supply' = [supply EXCEPT ![j.s].status = "CANCELLED"]
      BY <1>2, <2>3 DEF FinishCancel
    <3> QED BY <2>1, <2>3, <3>1 DEF SupplyRow
  <2> QED BY <1>1, <2>2, <2>3
<1>5. /\ pickup'[j.p].status = "CANCELED" /\ pickup'[j.p].link = 0
      /\ \A k \in PickupIds \ {j.p} : pickup'[k] = pickup[k]
  <2>1. pickup \in [PickupIds -> PickupRow]
    BY Typed DEF GoodPickup, TInv, SInv, IInv, RowsGood
  <2>2. pickup' = [pickup EXCEPT ![j.p].status = "CANCELED", ![j.p].link = 0]
    BY DEF FinishCancel
  <2>3. pickup[j.p] \in PickupRow
    BY <1>1, <2>1
  <2>4. j.p \in PickupIds
    BY <1>1
  <2> HIDE DEF j
  <2> QED BY <2>1, <2>2, <2>3, <2>4 DEF PickupRow
<1>6. TripsLast
  BY StatusOnly DEF FinishCancel, isLive
<1>7. UNCHANGED seen
  BY DEF FinishCancel
<1>8. Recalls(job[w])'
  <2>1. job'[w].kind = "idle"
    BY GoesOn DEF FinishCancel, Idle
  <2> QED BY <2>1, NothingRecalled DEF RecallKinds
<1> HIDE DEF j
<1>9. SupplyGood'
  <2>1. ASSUME NEW s \in SupplyIds, supply'[s].status \in {"ABSENT", "OPEN"}
        PROVE  supply'[s].delivery = 0
    BY <1>4, <2>1 DEF TInv, RowsFit, SupplyGood
  <2>2. ASSUME NEW s \in SupplyIds, supply'[s].delivery # 0
        PROVE  /\ delivery'[supply'[s].delivery].status # "ABSENT"
               /\ (delivery'[supply'[s].delivery].status = "CANCELED")
                    = (supply'[s].status = "CANCELLED")
               /\ \A k \in SupplyIds : supply'[k].delivery = supply'[s].delivery => k = s
    <3>1. \A k \in SupplyIds : supply'[k].delivery = supply[k].delivery
      BY <1>4
    <3>2. supply[s].delivery \in DeliveryIds
      BY <2>2, <3>1, Typed DEF SupplyRow
    <3>3. /\ delivery[supply[s].delivery].status # "ABSENT"
          /\ (delivery[supply[s].delivery].status = "CANCELED") = (supply[s].status = "CANCELLED")
          /\ \A k \in SupplyIds : supply[k].delivery = supply[s].delivery => k = s
      BY <2>2, <3>1 DEF TInv, RowsFit, SupplyGood
    <3>4. CASE s = j.s
      <4>1. supply[s].delivery = j.d
        BY <1>1, <1>2, <2>2, <3>1, <3>4 DEF TInv, RowsFit, SupplyGood
      <4> QED BY <1>3, <1>4, <3>1, <3>2, <3>3, <3>4, <4>1
    <3>5. CASE s # j.s
      <4>1. supply[s].delivery # j.d
        BY <1>1, <1>2, <3>2, <3>3, <3>5
      <4> QED BY <1>3, <1>4, <3>1, <3>2, <3>3, <3>5, <4>1
    <3> QED BY <3>4, <3>5
  <2> QED BY <2>1, <2>2 DEF SupplyGood
<1>10. DeliveriesLast /\ NoDeliveryTaken
  BY <1>3 DEF DeliveriesLast, NoDeliveryTaken, OpenStatus
<1>11. PickupsLast /\ NoPickupTaken
  BY <1>5 DEF PickupsLast, NoPickupTaken, OpenStatus
<1>12. SuppliesLast
  BY <1>4 DEF SuppliesLast
<1>13. LinksGood'
  BY <1>5, <1>12, LinksStay
<1>14. DriveOnlyPrepared'
  BY <1>3 DEF TInv, RowsFit, DriveOnlyPrepared
<1> QED BY <1>6, <1>7, <1>8, <1>9, <1>10, <1>11, <1>12, <1>13, <1>14, StillFits
-----------------------------------------------------------------------------
(* The inductive step, and what it gives.                                  *)

LEMMA NextFits == ASSUME TInv, NEW w \in Slots, Next, OneSlot PROVE Fits(w)
<1>1. PICK v \in Slots :
        \/ SupplyRequest(v) \/ MachineRequest(v) \/ TransportRequest(v)
        \/ SupplyStep(v) \/ MachineStep(v) \/ TransportStep(v) \/ TripStep(v)
        \/ Fail(v)
  BY DEF Next
<1>2. v = w
  BY DEF OneSlot
<1>3. CASE SupplyRequest(w) \/ SupplyStep(w) \/ Fail(w)
  BY <1>3, CreateDeliveryFits, DeskReadsFit, DeskWritesFit DEF SupplyRequest, SupplyStep
<1>4. CASE MachineRequest(w)
  BY <1>4, RequestPickupFits, DeskReadsFit, CancelReadsFit DEF MachineRequest
<1>5. CASE MachineStep(w)
  BY <1>5, ResolveSupplyFits, CreateOrphanSupplyFits, LinkPickupFits, JoinDeliveryFits,
     JoinTripFits, CreateSupplyFits, LinkSupplyFits, CreateBothFits, CancelReadsFit,
     FinishCancelFits DEF MachineStep
<1>6. CASE TransportRequest(w)
  BY <1>6, TransportReadsFit, ListingFits, AcceptsFit, CompletesFit DEF TransportRequest
<1>7. CASE TransportStep(w)
  BY <1>7, FinishAcceptTaskFits, FinishAcceptTripFits, FinishCompleteDeliverFits, DeskReadsFit,
     FinishCompletePickupFits, ListingFits DEF TransportStep
<1>8. CASE TripStep(w)
  BY <1>8, PairFits, BindFits, ListingFits, FinishListFits DEF TripStep
<1> QED BY <1>1, <1>2, <1>3, <1>4, <1>5, <1>6, <1>7, <1>8

LEMMA NextTInv == ASSUME TInv, [Next]_vars, OneSlot PROVE TInv'
<1>1. SInv' /\ OnePairPerTask'
  BY NextSInv, NextUnique DEF TInv, SInv
<1>2. CASE UNCHANGED vars
  <2>1. UNCHANGED <<delivery, pickup, supply, trip, seen>> /\ job' = job
    BY <1>2 DEF vars
  <2>2. RowsFit'
    BY <2>1 DEF TInv, RowsFit, SupplyGood, LinksGood, TripsGood, HandsGood, DriveOnlyPrepared,
                OpenDeliveriesOf, OpenPickupsOf, isLinkedPair, isLive
  <2>3. ASSUME NEW w \in Slots PROVE Recalls(job[w])'
    <3>1. Recalls(job[w])
      BY DEF TInv
    <3> QED BY <2>1, <3>1 DEF Recalls, HandsFree, OpenDeliveriesOf, OpenPickupsOf, isLinkedPair,
                              isLive
  <2> QED BY <1>1, <2>2, <2>3 DEF TInv
<1>3. CASE Next
  <2>1. \A w \in Slots : Fits(w)
    BY <1>3, NextFits
  <2>2. Slots # {}
    BY <1>3 DEF Next
  <2> QED BY <1>1, <2>1, <2>2 DEF TInv, Fits
<1> QED BY <1>2, <1>3

LEMMA InitTInv == Init => TInv
<1> SUFFICES ASSUME Init PROVE TInv
  OBVIOUS
<1>1. SInv
  BY InitSInv
<1>2. SupplyGood /\ LinksGood
  BY DEF Init, NoSupply, NoPickup, SupplyGood, LinksGood
<1>3. TripsGood /\ OnePairPerTask
  BY DEF Init, NoTrip, TripsGood, isLive, OnePairPerTask
<1>4. HandsGood /\ DriveOnlyPrepared
  BY DEF Init, NoDelivery, NoPickup, HandsGood, OpenDeliveriesOf, OpenPickupsOf, OpenStatus,
         DriveOnlyPrepared
<1>5. \A w \in Slots : Recalls(job[w])
  BY DEF Init, Idle, Recalls
<1> QED BY <1>1, <1>2, <1>3, <1>4, <1>5 DEF TInv, RowsFit

LEMMA AlwaysTInv == ASSUME OneSlot PROVE Spec => []TInv
<1>1. TInv /\ [Next]_vars => TInv'
  BY NextTInv
<1> QED BY <1>1, InitTInv, PTL DEF Spec

\* A set of ids whose members are all the same has one at most.
LEMMA AllTheSame ==
  ASSUME NEW S, \A a, b \in S : a = b
  PROVE  Cardinality(S) <= 1
<1>1. CASE S = {}
  BY <1>1, FS_EmptySet
<1>2. CASE S # {}
  <2>1. PICK a : a \in S
    BY <1>2
  <2>2. S = {a}
    BY <2>1
  <2> QED BY <2>2, FS_Singleton
<1> QED BY <1>1, <1>2

\* A transporter never has two deliveries or two pickups in hand, and a delivery with a
\* pickup only when they are linked: hands are seen to be free in one step and filled in
\* a later one, and a pickup that is linked to a delivery on its way joins it unasked.
THEOREM OneTripInSeries == ASSUME OneSlot PROVE Spec => []OneTripAtATime
<1>1. TInv => OneTripAtATime
  BY AllTheSame DEF TInv, RowsFit, HandsGood, OneTripAtATime
<1> QED BY <1>1, AlwaysTInv, PTL

\* What is driven was prepared, although accepting a trip does not look: a trip that was
\* ever shown keeps a prepared delivery, whatever pair its row is given later.
THEOREM PreparedInSeries == ASSUME OneSlot PROVE Spec => []DriveOnlyPrepared
<1>1. TInv => DriveOnlyPrepared
  BY DEF TInv, RowsFit
<1> QED BY <1>1, AlwaysTInv, PTL

\* An OPEN suggestion is the pair that the foreign keys name, by whichever of the listing,
\* the desk or the machine's operator it was written.
THEOREM SuggestionsFollowInSeries == ASSUME OneSlot PROVE Spec => []SuggestionFollowsLink
<1>1. TInv => SuggestionFollowsLink
  BY DEF TInv, RowsFit, TripsGood, isLive, SuggestionFollowsLink
<1> QED BY <1>1, AlwaysTInv, PTL

\* A delivery is cancelled exactly when the request it answers is.
THEOREM CancelledTogetherInSeries == ASSUME OneSlot PROVE Spec => []CancelledTogether
<1>1. TInv => CancelledTogether
  <2> SUFFICES ASSUME TInv, NEW d \in DeliveryIds, SupplyOf(d) # 0
               PROVE  (delivery[d].status = "CANCELED") = (supply[SupplyOf(d)].status = "CANCELLED")
    BY DEF CancelledTogether
  <2>1. SupplyOf(d) \in SupplyIds /\ supply[SupplyOf(d)].delivery = d /\ d # 0
    BY SupplyOfIs, BoundsAssumption DEF DeliveryIds
  <2> QED BY <2>1 DEF TInv, RowsFit, SupplyGood
<1> QED BY <1>1, AlwaysTInv, PTL
-----------------------------------------------------------------------------
(* The deliveries behave as DeliveryLifecycle says.                        *)

\* What a step may do with delivery d.
Moves(d) ==
  LET old == delivery[d]
      new == delivery'[d]
  IN  \/ old.status = "ABSENT" /\ new.status = "CREATED" /\ new.op = old.op
      \/ /\ old.status = "CREATED" /\ new.status = "CREATED" /\ new.op = old.op
         /\ old.prepared => new.prepared
      \/ /\ old.status = "CREATED" /\ new.status = "ASSIGNED" /\ old.prepared
         /\ new.op \in Operators /\ HandsFree(new.op)
      \/ old.status = "ASSIGNED" /\ new.status = "COMPLETED" /\ new.op = old.op
      \/ /\ old.status = "CREATED" /\ new.status = "CANCELED" /\ new.op = old.op
         /\ ~ old.prepared
      \/ old.status # "CREATED" /\ new.status = old.status /\ new.op = old.op

OneMoves ==
  \E d \in DeliveryIds : Moves(d) /\ \A e \in DeliveryIds \ {d} : delivery'[e] = delivery[e]

LifecycleStep ==
  [Lifecycle!Next]_<<[d \in DeliveryIds |-> stageOf(delivery[d])],
                     [d \in DeliveryIds |-> delivery[d].op]>>

LEMMA StageIs ==
  ASSUME NEW row, row.status \in TaskStatus
  PROVE  /\ row.status = "ABSENT" => stageOf(row) = "none"
         /\ row.status = "CREATED" => stageOf(row) = IF row.prepared THEN "ready" ELSE "preparing"
         /\ row.status = "COMPLETED" => stageOf(row) = "delivered"
         /\ row.status = "CANCELED" => stageOf(row) = "dropped"
         /\ (row.status = "ASSIGNED") = (stageOf(row) = "onTheWay")
BY DEF stageOf, TaskStatus

LEMMA MovesFollow ==
  ASSUME TInv, TInv', OneMoves
  PROVE  LifecycleStep
<1> DEFINE S == [e \in DeliveryIds |-> stageOf(delivery[e])]
           D == [e \in DeliveryIds |-> delivery[e].op]
<1>1. PICK d \in DeliveryIds :
        Moves(d) /\ \A e \in DeliveryIds \ {d} : delivery'[e] = delivery[e]
  BY DEF OneMoves
<1>2. /\ S' = [e \in DeliveryIds |-> stageOf(delivery'[e])]
      /\ D' = [e \in DeliveryIds |-> delivery'[e].op]
  BY DEF stageOf
<1>3. \A e \in DeliveryIds \ {d} : S'[e] = S[e] /\ D'[e] = D[e]
  BY <1>1, <1>2
<1>4. delivery[d].status \in TaskStatus /\ delivery'[d].status \in TaskStatus
  BY Typed DEF TInv, SInv, IInv, RowsGood, GoodDelivery, DeliveryRow
<1> DEFINE s == stageOf(delivery'[d])
           o == delivery'[d].op
<1>5. \/ S[d] = "none" /\ s \in {"preparing", "ready"} /\ o = D[d]
      \/ S[d] = "preparing" /\ s = "ready" /\ o = D[d]
      \/ S[d] = "preparing" /\ s = "dropped" /\ o = D[d]
      \/ S[d] = "onTheWay" /\ s = "delivered" /\ o = D[d]
      \/ S[d] = "ready" /\ s = "onTheWay" /\ o \in Operators /\ HandsFree(o)
      \/ s = S[d] /\ o = D[d]
  <2>1. S[d] = stageOf(delivery[d]) /\ D[d] = delivery[d].op
    OBVIOUS
  <2>2. CASE delivery[d].status # "CREATED" /\ delivery'[d].status = delivery[d].status
             /\ delivery'[d].op = delivery[d].op
    BY <1>4, <2>1, <2>2, StageIs DEF TaskStatus
  <2> HIDE DEF S, D
  <2> QED BY <1>1, <1>4, <2>1, <2>2, StageIs DEF Moves
<1>6. ASSUME HandsFree(o), NEW e \in DeliveryIds, D[e] = o PROVE S[e] # "onTheWay"
  <2>1. delivery[e].status # "ASSIGNED"
    BY <1>6 DEF HandsFree, OpenDeliveriesOf, OpenStatus
  <2>2. delivery[e].status \in TaskStatus
    BY Typed DEF GoodDelivery, DeliveryRow
  <2> QED BY <2>1, <2>2, StageIs
<1>7. S' = [S EXCEPT ![d] = s] /\ D' = [D EXCEPT ![d] = o]
  BY <1>2, <1>3
<1>8. o = D[d] => D' = D
  BY <1>2, <1>3
<1>9. s = S[d] /\ o = D[d] => S' = S
  BY <1>2, <1>3
<1>10. S'[d] = s /\ DOMAIN S = DeliveryIds
  BY <1>2
<1>11. LifecycleStep = [Lifecycle!Next]_<<S, D>>
  BY DEF LifecycleStep
<1>12. CASE s = S[d] /\ o = D[d]
  BY <1>8, <1>9, <1>11, <1>12
<1>13. CASE ~ (s = S[d] /\ o = D[d])
  <2>1. S'[d] # S[d]
    BY <1>5, <1>10, <1>13
  <2>2. \/ Lifecycle!Place(d) \/ Lifecycle!Prepare(d) \/ Lifecycle!Drop(d) \/ Lifecycle!Deliver(d)
        \/ \E x \in Operators : Lifecycle!Take(d, x)
    <3>1. CASE S[d] = "ready" /\ s = "onTheWay" /\ o \in Operators /\ HandsFree(o)
      <4>1. PICK x \in Operators : x = o
        BY <3>1
      <4>2. \A e \in DeliveryIds : D[e] = x => S[e] # "onTheWay"
        BY <1>6, <3>1, <4>1
      <4>3. Lifecycle!Take(d, x)
        BY <1>7, <3>1, <4>1, <4>2 DEF Lifecycle!Take, Lifecycle!Move
      <4> QED BY <4>3
    <3>2. CASE S[d] = "none" /\ s \in {"preparing", "ready"} /\ o = D[d]
      <4>1. Lifecycle!Place(d)
        BY <1>7, <1>8, <3>2 DEF Lifecycle!Place, Lifecycle!Move
      <4> QED BY <4>1
    <3>3. CASE S[d] = "preparing" /\ s = "ready" /\ o = D[d]
      <4>1. Lifecycle!Prepare(d)
        BY <1>7, <1>8, <3>3 DEF Lifecycle!Prepare, Lifecycle!Move
      <4> QED BY <4>1
    <3>4. CASE S[d] = "preparing" /\ s = "dropped" /\ o = D[d]
      <4>1. Lifecycle!Drop(d)
        BY <1>7, <1>8, <3>4 DEF Lifecycle!Drop, Lifecycle!Move
      <4> QED BY <4>1
    <3>5. CASE S[d] = "onTheWay" /\ s = "delivered" /\ o = D[d]
      <4>1. Lifecycle!Deliver(d)
        BY <1>7, <1>8, <3>5 DEF Lifecycle!Deliver, Lifecycle!Move
      <4> QED BY <4>1
    <3> QED BY <1>5, <1>13, <3>1, <3>2, <3>3, <3>4, <3>5
  <2>3. Lifecycle!Next
    BY <2>1, <2>2 DEF Lifecycle!Next
  <2> QED BY <1>11, <2>3
<1> QED BY <1>12, <1>13

\* One row is written.
LEMMA OneRowMoves ==
  ASSUME TInv, NEW d \in DeliveryIds, NEW row, delivery' = [delivery EXCEPT ![d] = row],
         delivery'[d] = row => Moves(d)
  PROVE  OneMoves
<1>1. delivery'[d] = row /\ \A e \in DeliveryIds \ {d} : delivery'[e] = delivery[e]
  BY DEF TInv, SInv, IInv, RowsGood
<1> QED BY <1>1 DEF OneMoves

LEMMA DeskMoves ==
  ASSUME TInv, NEW w \in Slots, SupplyRequest(w) \/ SupplyStep(w), delivery' # delivery
  PROVE  OneMoves
<1>1. ASSUME NEW m \in Machines, NEW t \in TaskTypes, NEW ready \in BOOLEAN,
             NEW s \in SupplyIds \cup {0}, CreateDelivery(w, m, t, ready, s)
      PROVE  OneMoves
  <2> DEFINE row == [status |-> "CREATED", machine |-> m, type |-> t, prepared |-> ready,
                     op |-> NoOp, with |-> "NONE"]
  <2>1. PICK d \in DeliveryIds : IsNextId(d, delivery) /\ delivery' = [delivery EXCEPT ![d] = row]
    BY <1>1 DEF CreateDelivery
  <2>2. delivery[d].status = "ABSENT" /\ delivery[d].op = NoOp
    BY <2>1, Typed DEF IsNextId, GoodDelivery, isWaiting
  <2>3. row.status = "CREATED" /\ row.op = NoOp
    OBVIOUS
  <2> HIDE DEF row
  <2> QED BY <2>1, <2>2, <2>3, OneRowMoves DEF Moves
<1>2. ASSUME NEW d \in DeliveryIds, MarkPrepared(w, d) PROVE OneMoves
  <2> DEFINE row == [delivery[d] EXCEPT !.prepared = TRUE]
  <2>1. delivery' = [delivery EXCEPT ![d] = row]
    BY <1>2 DEF MarkPrepared, TInv, SInv, IInv, RowsGood
  <2>2. row.status = delivery[d].status /\ row.op = delivery[d].op /\ row.prepared
    BY Typed DEF GoodDelivery, DeliveryRow
  <2> HIDE DEF row
  <2> QED BY <2>1, <2>2, OneRowMoves DEF Moves
<1>3. CASE FinishEdit(w)
  <2> DEFINE j == job[w]
             row == [delivery[j.d] EXCEPT
                       !.machine = IF j.m = NoMachine THEN delivery[j.d].machine ELSE j.m,
                       !.type    = IF j.t = "NONE" THEN delivery[j.d].type ELSE j.t]
  <2>1. j.d \in DeliveryIds /\ delivery[j.d].status = "CREATED"
    <3>1. j \in EditJob /\ j.kind = "edit"
      BY <1>3, Typed, JobShape DEF FinishEdit
    <3> QED BY <3>1 DEF EditJob, TInv, SInv, Fresh
  <2>2. delivery' = [delivery EXCEPT ![j.d] = row]
    BY <1>3, <2>1, Typed DEF FinishEdit, GoodDelivery, DeliveryRow, TInv, SInv, IInv, RowsGood
  <2>3. /\ row.status = "CREATED" /\ row.op = delivery[j.d].op
        /\ delivery[j.d].prepared => row.prepared
    BY <2>1, Typed DEF GoodDelivery, DeliveryRow
  <2> HIDE DEF row
  <2> QED BY <2>1, <2>2, <2>3, OneRowMoves DEF Moves
<1>4. CASE /\ ~ FinishEdit(w)
           /\ ~ \E d \in DeliveryIds : MarkPrepared(w, d)
           /\ ~ \E m \in Machines, t \in TaskTypes, ready \in BOOLEAN, s \in SupplyIds \cup {0} :
                  CreateDelivery(w, m, t, ready, s)
  BY <1>4 DEF SupplyRequest, SupplyStep, BeginEdit, SetProductionStatus
<1> QED BY <1>1, <1>2, <1>3, <1>4

LEMMA MachineMoves ==
  ASSUME TInv, NEW w \in Slots, MachineRequest(w) \/ MachineStep(w), delivery' # delivery
  PROVE  OneMoves
<1>1. CASE FinishCancel(w)
  <2> DEFINE d == job[w].d
             row == [delivery[d] EXCEPT !.status = "CANCELED"]
  <2>1. /\ d \in DeliveryIds /\ delivery[d].status = "CREATED" /\ ~ delivery[d].prepared
        /\ delivery' = [delivery EXCEPT ![d].status = "CANCELED"]
    <3>1. job[w].kind = "cancelTx" /\ job[w] \in CancelTxJob /\ d # 0
      BY <1>1, Typed, JobShape DEF FinishCancel
    <3> QED BY <1>1, <3>1 DEF CancelTxJob, FinishCancel, TInv, SInv, Fresh
  <2>2. delivery' = [delivery EXCEPT ![d] = row]
    BY <2>1 DEF TInv, SInv, IInv, RowsGood
  <2>3. row.status = "CANCELED" /\ row.op = delivery[d].op
    BY <2>1, Typed DEF GoodDelivery, DeliveryRow
  <2> HIDE DEF row
  <2>4. delivery'[d] = row => Moves(d)
    BY <2>1, <2>3 DEF Moves
  <2>5. d \in DeliveryIds
    BY <2>1
  <2> HIDE DEF d
  <2> QED BY <2>2, <2>4, <2>5, OneRowMoves
<1>2. CASE ~ FinishCancel(w)
  BY <1>2 DEF MachineRequest, MachineStep, RequestPickup, BeginRequestBoth, RepairLinks,
              BeginRequestSupply, BeginCancel, ResolveSupply, CreateOrphanSupply, LinkPickup,
              JoinDelivery, JoinTrip, CreateSupply, LinkSupply, CreateBoth, ReadCancel
<1> QED BY <1>1, <1>2

LEMMA TransportMoves ==
  ASSUME TInv, NEW w \in Slots, TransportRequest(w) \/ TransportStep(w), delivery' # delivery
  PROVE  OneMoves
<1> DEFINE j == job[w]
           taken == Assigned(delivery[j.d], j.o, j.with)
<1>1. ASSUME j.d \in DeliveryIds, j.o \in Operators, HandsFree(j.o),
             delivery[j.d].status = "CREATED", delivery[j.d].prepared,
             delivery' = [delivery EXCEPT ![j.d] = taken]
      PROVE  OneMoves
  <2>1. taken.status = "ASSIGNED" /\ taken.op = j.o
    BY <1>1, Typed DEF Assigned, GoodDelivery, DeliveryRow
  <2> HIDE DEF j, taken
  <2> QED BY <1>1, <2>1, OneRowMoves DEF Moves
<1>2. CASE FinishAcceptDeliver(w)
  <2>1. /\ j.d \in DeliveryIds /\ j.o \in Operators /\ HandsFree(j.o)
        /\ delivery[j.d].status = "CREATED" /\ delivery[j.d].prepared
    <3>1. j.kind = "acceptDeliver" /\ j \in AcceptJob
      BY <1>2, Typed, JobShape DEF FinishAcceptDeliver
    <3> QED BY <3>1 DEF AcceptJob, TInv, SInv, Fresh, Recalls
  <2>2. delivery' = [delivery EXCEPT ![j.d] = taken]
    BY <1>2, <2>1 DEF FinishAcceptDeliver, TInv, SInv, IInv, RowsGood
  <2> QED BY <1>1, <2>1, <2>2
<1>3. CASE FinishAcceptTrip(w)
  <2>1. /\ j.d \in DeliveryIds /\ j.o \in Operators /\ HandsFree(j.o) /\ delivery[j.d].prepared
    <3>1. j.kind = "acceptTrip" /\ j \in AcceptJob
      BY <1>3, Typed, JobShape DEF FinishAcceptTrip
    <3> QED BY <3>1 DEF AcceptJob, TInv, Recalls
  <2>2. delivery' = [delivery EXCEPT ![j.d] =
                       IF delivery[j.d].status = "CREATED" THEN taken ELSE delivery[j.d]]
    BY <1>3, <2>1 DEF FinishAcceptTrip, TInv, SInv, IInv, RowsGood
  <2>3. delivery[j.d].status = "CREATED"
    <3> HIDE DEF taken
    <3> QED BY <2>1, <2>2 DEF TInv, SInv, IInv, RowsGood
  <2> QED BY <1>1, <2>1, <2>2, <2>3
<1>4. CASE FinishCompleteDeliver(w)
  <2> DEFINE d == job[w].d
             row == [delivery[d] EXCEPT !.status = "COMPLETED"]
  <2>1. d \in DeliveryIds /\ delivery[d].status = "ASSIGNED"
    <3>1. job[w].kind = "completeDeliver" /\ d \in DeliveryIds
      BY <1>4, AcceptRemembers DEF FinishCompleteDeliver, TInv
    <3> QED BY <3>1 DEF TInv, Recalls
  <2>2. delivery' = [delivery EXCEPT ![d] = row]
    BY <1>4, <2>1 DEF FinishCompleteDeliver, TInv, SInv, IInv, RowsGood
  <2>3. row.status = "COMPLETED" /\ row.op = delivery[d].op
    BY <2>1, Typed DEF GoodDelivery, DeliveryRow
  <2> HIDE DEF row
  <2> QED BY <2>1, <2>2, <2>3, OneRowMoves DEF Moves
<1>5. CASE ~ (FinishAcceptDeliver(w) \/ FinishAcceptTrip(w) \/ FinishCompleteDeliver(w))
  BY <1>5 DEF TransportRequest, TransportStep, SetMode, BeginClearMode, BeginList,
              BeginAcceptDeliver, BeginAcceptPickup, BeginAcceptTrip, BeginCompleteDeliver,
              BeginCompletePickup, FinishAcceptPickup, ResumeMachine, FinishCompletePickup,
              CloseTrip, FinishClearMode
<1> QED BY <1>2, <1>3, <1>4, <1>5

\* Whoever writes the tables, and wherever a request stops, a delivery goes through the
\* stages of DeliveryLifecycle: prepared before it is taken, by one driver with no other
\* delivery, who delivers it, and dropped only while nobody prepared or took it.
THEOREM LifecycleInSeries == ASSUME OneSlot PROVE Spec => DeliveryFollowsLifecycle
<1>1. Init => Lifecycle!Init
  BY DEF Init, NoDelivery, stageOf, Lifecycle!Init
<1>2. ASSUME TInv, [Next]_vars PROVE LifecycleStep
  <2>1. CASE delivery' = delivery
    BY <2>1 DEF LifecycleStep, stageOf
  <2>2. CASE delivery' # delivery
    <3>1. PICK w \in Slots :
            \/ SupplyRequest(w) \/ MachineRequest(w) \/ TransportRequest(w)
            \/ SupplyStep(w) \/ MachineStep(w) \/ TransportStep(w)
            \/ TripStep(w) \/ Fail(w)
      BY <1>2, <2>2 DEF Next, vars
    <3>2. ~ TripStep(w) /\ ~ Fail(w)
      BY <2>2 DEF TripStep, RepointPair, CreatePair, RollBackPair, Bind, Sync, SyncNextMachine,
                  FinishList, Fail
    <3>3. OneMoves
      <4>1. CASE SupplyRequest(w) \/ SupplyStep(w)
        BY <1>2, <2>2, <4>1, DeskMoves
      <4>2. CASE MachineRequest(w) \/ MachineStep(w)
        BY <1>2, <2>2, <4>2, MachineMoves
      <4>3. CASE TransportRequest(w) \/ TransportStep(w)
        BY <1>2, <2>2, <4>3, TransportMoves
      <4> QED BY <3>1, <3>2, <4>1, <4>2, <4>3
    <3>4. TInv'
      BY <1>2, NextTInv
    <3> QED BY <1>2, <3>3, <3>4, MovesFollow
  <2> QED BY <2>1, <2>2
<1> QED BY <1>1, <1>2, AlwaysTInv, PTL DEF Spec, DeliveryFollowsLifecycle, Lifecycle!Spec, LifecycleStep
-----------------------------------------------------------------------------
(* One machine: the desk cannot send a pallet to another machine than the  *)
(* one that asked for it.                                                  *)

OneMachine == \A m, n \in Machines : m = n

\* What job j knows of the machine.
Knows(j) ==
  /\ j.kind = "acceptDeliver" => production[delivery[j.d].machine] = "ABASTECER"
  /\ j.kind = "acceptTrip" /\ delivery[j.d].status = "CREATED" =>
       production[delivery[j.d].machine] = "ABASTECER"
  /\ j.kind \in {"newSupply", "newPair"} => OpenDeliveries(j.m) = {}

KnowingKinds == {"acceptDeliver", "acceptTrip", "newSupply", "newPair"}

MInv ==
  /\ TInv /\ NoRequestWithPallet
  /\ \A w \in Slots : Knows(job[w])

\* No pallet and no request is opened.
NothingOpens ==
  \A m \in Machines : /\ OpenDeliveries(m)' \subseteq OpenDeliveries(m)
                      /\ OpenSupplies(m)' \subseteq OpenSupplies(m)

LEMMA KeepsRequests ==
  ASSUME NoRequestWithPallet, NothingOpens
  PROVE  NoRequestWithPallet'
<1> SUFFICES ASSUME NEW m \in Machines
             PROVE  OpenSupplies(m)' = {} \/ OpenDeliveries(m)' = {}
  BY DEF NoRequestWithPallet
<1>1. OpenSupplies(m) = {} \/ OpenDeliveries(m) = {}
  BY DEF NoRequestWithPallet
<1>2. /\ OpenDeliveries(m)' \subseteq OpenDeliveries(m)
      /\ OpenSupplies(m)' \subseteq OpenSupplies(m)
  BY DEF NothingOpens
<1> QED BY <1>1, <1>2

LEMMA UnknownKind ==
  ASSUME NEW w \in Slots, job'[w].kind \notin KnowingKinds
  PROVE  Knows(job[w])'
BY DEF Knows, KnowingKinds

\* The rows that open nothing.
LEMMA RowsClose ==
  ASSUME \A d \in DeliveryIds : delivery'[d].status \in OpenStatus =>
           delivery[d].status \in OpenStatus /\ delivery'[d].machine = delivery[d].machine,
         \A s \in SupplyIds : supply'[s].status = "OPEN" =>
           supply[s].status = "OPEN" /\ supply'[s].machine = supply[s].machine
  PROVE  NothingOpens
BY DEF NothingOpens, OpenDeliveries, OpenSupplies

\* A prepared delivery that waits keeps its machine out of the transporters' lists until
\* the desk releases it.
LEMMA Released ==
  ASSUME TInv, OneMachine, NEW d \in DeliveryIds, NEW m \in Machines,
         delivery[d].status = "CREATED", delivery[d].prepared,
         ~ isMachineDeliveryBlockedFromTransportQueue(m)
  PROVE  production[delivery[d].machine] = "ABASTECER"
<1>1. delivery[d].machine = m /\ delivery[d].op = NoOp
  BY Typed DEF GoodDelivery, isWaiting, OneMachine
<1>2. d \in PreparedPool(m)
  BY <1>1 DEF PreparedPool, OpenDeliveries, OpenStatus
<1>3. production[m] \in {"TRABALHANDO", "ABASTECER"}
  BY DEF TInv, SInv, IInv, RestOK
<1> QED BY <1>1, <1>2, <1>3 DEF isMachineDeliveryBlockedFromTransportQueue

TripKinds == {"idle", "list", "sync", "pair"}

\* What a finding, an upsert or a synchronisation goes on with.
LEMMA TripStepKinds ==
  ASSUME TInv, NEW w \in Slots, TripStep(w)
  PROVE  job'[w].kind \in TripKinds
<1> DEFINE j == job[w]
<1>1. ASSUME NEW d, NEW p, NEW m, NEW t, NEW then, then.kind \in TripKinds,
             StartUpsert(w, d, p, m, t, then)
      PROVE  job'[w].kind \in TripKinds
  <2>1. \/ Continue(w, then)
        \/ \E r, x : Continue(w, [kind |-> "pair", d |-> d, p |-> p, m |-> m, t |-> t,
                                  row |-> r, drop |-> x, then |-> then])
    BY <1>1 DEF StartUpsert
  <2>2. CASE Continue(w, then)
    BY <1>1, <2>2, GoesOn
  <2>3. ASSUME NEW r, NEW x,
               Continue(w, [kind |-> "pair", d |-> d, p |-> p, m |-> m, t |-> t,
                            row |-> r, drop |-> x, then |-> then])
        PROVE  job'[w].kind \in TripKinds
    <3>1. job'[w] = [kind |-> "pair", d |-> d, p |-> p, m |-> m, t |-> t,
                     row |-> r, drop |-> x, then |-> then]
      BY <2>3, GoesOn
    <3> QED BY <3>1 DEF TripKinds
  <2> QED BY <2>1, <2>2, <2>3
<1>2. ASSUME NEW m, NEW then, then.kind \in TripKinds, SyncMachine(w, m, then)
      PROVE  job'[w].kind \in TripKinds
  BY <1>1, <1>2, GoesOn DEF SyncMachine
<1>3. CASE RepointPair(w) \/ CreatePair(w) \/ RollBackPair(w)
  <2>1. job'[w] = Idle \/ job'[w] = j.then
    BY <1>3, GoesOn DEF RepointPair, CreatePair, RollBackPair
  <2>2. j \in PairJob
    BY <1>3, Typed, JobShape DEF RepointPair, CreatePair, RollBackPair
  <2> QED BY <2>1, <2>2 DEF PairJob, ListJob, SyncJob, Idle, TripKinds
<1>4. CASE Bind(w)
  <2>1. j \in BindJob
    BY <1>4, Typed, JobShape DEF Bind
  <2>2. j.then.kind \in TripKinds
    BY <2>1 DEF BindJob, SyncJob, Idle, TripKinds
  <2> QED BY <1>1, <1>4, <2>2, GoesOn DEF Bind
<1>5. CASE Sync(w)
  <2>1. Idle.kind \in TripKinds
    BY DEF Idle, TripKinds
  <2> QED BY <1>2, <1>5, <2>1 DEF Sync
<1>6. CASE SyncNextMachine(w)
  <2>1. j \in ListJob
    BY <1>6, Typed, JobShape DEF SyncNextMachine
  <2>2. PICK m \in j.left : SyncMachine(w, m, [j EXCEPT !.left = @ \ {m}])
    BY <1>6 DEF SyncNextMachine
  <2>3. [j EXCEPT !.left = @ \ {m}].kind \in TripKinds
    BY <2>1 DEF ListJob, TripKinds
  <2> QED BY <1>2, <2>2, <2>3
<1>7. CASE FinishList(w)
  BY <1>7, GoesOn DEF FinishList, Idle, TripKinds
<1> QED BY <1>3, <1>4, <1>5, <1>6, <1>7 DEF TripStep

\* A step that opens nothing and learns nothing.
LEMMA ClosingStep ==
  ASSUME MInv, NEW w \in Slots, job'[w].kind \notin KnowingKinds,
         \A d \in DeliveryIds : delivery'[d].status \in OpenStatus =>
           delivery[d].status \in OpenStatus /\ delivery'[d].machine = delivery[d].machine,
         \A s \in SupplyIds : supply'[s].status = "OPEN" =>
           supply[s].status = "OPEN" /\ supply'[s].machine = supply[s].machine
  PROVE  NoRequestWithPallet' /\ Knows(job[w])'
BY RowsClose, KeepsRequests, UnknownKind DEF MInv

LEMMA TripStepHolds ==
  ASSUME MInv, NEW w \in Slots, TripStep(w) \/ Fail(w)
  PROVE  NoRequestWithPallet' /\ Knows(job[w])'
<1>1. UNCHANGED <<delivery, supply>>
  BY DEF TripStep, RepointPair, CreatePair, RollBackPair, Bind, Sync, SyncNextMachine,
         FinishList, Fail
<1>2. CASE TripStep(w)
  BY <1>1, <1>2, TripStepKinds, ClosingStep DEF MInv, TripKinds, KnowingKinds
<1>3. CASE Fail(w)
  <2>1. job'[w].kind = "idle"
    BY <1>3, GoesOn DEF Fail, Idle, MInv
  <2> QED BY <1>1, <2>1, ClosingStep DEF KnowingKinds
<1> QED BY <1>2, <1>3

LEMMA DeskHolds ==
  ASSUME MInv, OneMachine, NEW w \in Slots, SupplyRequest(w) \/ SupplyStep(w)
  PROVE  NoRequestWithPallet' /\ Knows(job[w])'
<1> USE DEF MInv
<1>1. ASSUME NEW m \in Machines, NEW t \in TaskTypes, NEW ready \in BOOLEAN,
             NEW named \in SupplyIds \cup {0}, CreateDelivery(w, m, t, ready, named)
      PROVE  NoRequestWithPallet' /\ Knows(job[w])'
  <2>1. \A s \in SupplyIds : supply'[s].status = "OPEN" =>
          supply'[s] = supply[s] /\ s \notin OpenSupplies(m)
    <3> SUFFICES ASSUME NEW s \in SupplyIds, supply'[s].status = "OPEN"
                 PROVE  supply'[s] = supply[s] /\ s \notin OpenSupplies(m)
      OBVIOUS
    <3>1. PICK d \in DeliveryIds :
            supply'[s] = IF s \in FulfilledBy(m, named)
                         THEN [supply[s] EXCEPT !.status = "FULFILLED", !.delivery = d]
                         ELSE supply[s]
      BY <1>1 DEF CreateDelivery
    <3>2. [supply[s] EXCEPT !.status = "FULFILLED", !.delivery = d].status = "FULFILLED"
      BY Typed DEF SupplyRow
    <3>3. s \notin FulfilledBy(m, named)
      BY <3>1, <3>2
    <3> QED BY <3>1, <3>3 DEF FulfilledBy
  <2>2. \A n \in Machines : OpenSupplies(n)' = {}
    BY <2>1 DEF OpenSupplies, OneMachine
  <2>3. job'[w].kind \notin KnowingKinds
    <3>1. \E d : Continue(w, [kind |-> "bind", d |-> d, m |-> m, t |-> t, then |-> Idle])
      BY <1>1 DEF CreateDelivery
    <3> QED BY <3>1, GoesOn DEF KnowingKinds
  <2> QED BY <2>2, <2>3, UnknownKind DEF NoRequestWithPallet
<1>2. ASSUME NEW d \in DeliveryIds, MarkPrepared(w, d) PROVE NoRequestWithPallet' /\ Knows(job[w])'
  <2>1. job'[w].kind \notin KnowingKinds
    BY <1>2, GoesOn DEF MarkPrepared, KnowingKinds
  <2>2. \A e \in DeliveryIds : delivery'[e].status = delivery[e].status
                               /\ delivery'[e].machine = delivery[e].machine
    <3>1. delivery \in [DeliveryIds -> DeliveryRow]
      BY Typed DEF GoodDelivery, TInv, SInv, IInv, RowsGood
    <3> QED BY <1>2, <3>1 DEF MarkPrepared, DeliveryRow
  <2>3. UNCHANGED supply
    BY <1>2 DEF MarkPrepared
  <2> QED BY <2>1, <2>2, <2>3, ClosingStep
<1>3. CASE FinishEdit(w)
  <2>1. job'[w].kind \notin KnowingKinds
    BY <1>3, GoesOn DEF FinishEdit, Idle, KnowingKinds
  <2>2. \A e \in DeliveryIds : delivery'[e].status = delivery[e].status
                               /\ delivery'[e].machine = delivery[e].machine
    <3>1. delivery \in [DeliveryIds -> DeliveryRow]
      BY Typed DEF GoodDelivery, TInv, SInv, IInv, RowsGood
    <3>2. job[w] \in EditJob /\ job[w].kind = "edit"
      BY <1>3, Typed, JobShape DEF FinishEdit
    <3>3. job[w].d \in DeliveryIds /\ job[w].m \in Machines \cup {NoMachine}
      BY <3>2 DEF EditJob
    <3>4. delivery[job[w].d].machine \in Machines
      BY <3>2, <3>3, Typed DEF GoodDelivery, SInv, TInv, Fresh
    <3>5. job[w].m # NoMachine => job[w].m = delivery[job[w].d].machine
      BY <3>3, <3>4 DEF OneMachine
    <3> QED BY <1>3, <3>1, <3>3, <3>5 DEF FinishEdit, DeliveryRow
  <2>3. UNCHANGED supply
    BY <1>3 DEF FinishEdit
  <2> QED BY <2>1, <2>2, <2>3, ClosingStep
<1>4. ASSUME NEW d, NEW m, NEW t, BeginEdit(w, d, m, t)
      PROVE  NoRequestWithPallet' /\ Knows(job[w])'
  <2>1. job'[w].kind \notin KnowingKinds
    BY <1>4, GoesOn DEF BeginEdit, KnowingKinds
  <2> QED BY <1>4, <2>1, ClosingStep DEF BeginEdit
<1>5. ASSUME NEW m, NEW status, SetProductionStatus(w, m, status)
      PROVE  NoRequestWithPallet' /\ Knows(job[w])'
  <2>1. job'[w].kind \notin KnowingKinds
    BY <1>5 DEF SetProductionStatus, isFree, Idle, KnowingKinds
  <2> QED BY <1>5, <2>1, ClosingStep DEF SetProductionStatus
<1> QED BY <1>1, <1>2, <1>3, <1>4, <1>5 DEF SupplyRequest, SupplyStep

LEMMA MachineRequestHolds ==
  ASSUME MInv, NEW w \in Slots, MachineRequest(w)
  PROVE  NoRequestWithPallet' /\ Knows(job[w])'
<1> USE DEF MInv
<1>1. UNCHANGED <<delivery, supply>>
  BY DEF MachineRequest, RequestPickup, BeginRequestBoth, RepairLinks, BeginRequestSupply,
         BeginCancel
<1>2. NoRequestWithPallet'
  BY <1>1 DEF NoRequestWithPallet, OpenSupplies, OpenDeliveries
<1>3. ASSUME NEW m, BeginRequestSupply(w, m) PROVE Knows(job[w])'
  <2>1. job'[w] = [kind |-> "newSupply", m |-> m] /\ OpenDeliveries(m) = {}
    BY <1>3, GoesOn DEF BeginRequestSupply
  <2> QED BY <1>1, <2>1 DEF Knows, OpenDeliveries
<1>4. ASSUME NEW m, NEW t, BeginRequestBoth(w, m, t) PROVE Knows(job[w])'
  <2>1. job'[w] = [kind |-> "newPair", m |-> m, t |-> t] /\ OpenDeliveries(m) = {}
    BY <1>4, GoesOn DEF BeginRequestBoth
  <2> QED BY <1>1, <2>1 DEF Knows, OpenDeliveries
<1>5. ASSUME NEW m, NEW t, RequestPickup(w, m, t) PROVE Knows(job[w])'
  <2>1. \E p : Continue(w, [kind |-> "link", p |-> p, m |-> m])
    BY <1>5 DEF RequestPickup
  <2>2. job'[w].kind = "link"
    BY <2>1, GoesOn
  <2> QED BY <2>2, UnknownKind DEF KnowingKinds
<1>6. ASSUME NEW m, RepairLinks(w, m) PROVE Knows(job[w])'
  <2>1. job'[w].kind = "link"
    BY <1>6, GoesOn DEF RepairLinks
  <2> QED BY <2>1, UnknownKind DEF KnowingKinds
<1>7. ASSUME NEW p, BeginCancel(w, p) PROVE Knows(job[w])'
  <2>1. job'[w].kind = "cancel"
    BY <1>7, GoesOn DEF BeginCancel
  <2> QED BY <2>1, UnknownKind DEF KnowingKinds
<1> QED BY <1>2, <1>3, <1>4, <1>5, <1>6, <1>7 DEF MachineRequest

\* No step of a machine operator's request leaves it knowing the machine.
LEMMA MachineStepKinds ==
  ASSUME TInv, NEW w \in Slots, MachineStep(w)
  PROVE  job'[w].kind \notin KnowingKinds
<1> DEFINE j == job[w]
<1>1. CASE ResolveSupply(w)
  <2>1. \/ Continue(w, Idle)
        \/ \E s : LinkTo(w, j.p, j.m, s)
        \/ \E d : Continue(w, [kind |-> "orphan", p |-> j.p, m |-> j.m, d |-> d,
                               dm |-> delivery[d].machine])
    BY <1>1 DEF ResolveSupply
  <2>2. CASE Continue(w, Idle)
    BY <2>2, GoesOn DEF Idle, KnowingKinds
  <2>3. ASSUME NEW s, LinkTo(w, j.p, j.m, s) PROVE job'[w].kind \notin KnowingKinds
    BY <2>3, GoesOn DEF LinkTo, KnowingKinds
  <2>4. ASSUME NEW d, Continue(w, [kind |-> "orphan", p |-> j.p, m |-> j.m, d |-> d,
                                   dm |-> delivery[d].machine])
        PROVE  job'[w].kind \notin KnowingKinds
    BY <2>4, GoesOn DEF KnowingKinds
  <2> QED BY <2>1, <2>2, <2>3, <2>4
<1>2. CASE CreateOrphanSupply(w)
  <2>1. \/ Continue(w, Idle)
        \/ \E s : Continue(w, [kind |-> "linkTo", p |-> j.p, m |-> j.m, s |-> s, d |-> j.d])
    BY <1>2 DEF CreateOrphanSupply
  <2>2. CASE Continue(w, Idle)
    BY <2>2, GoesOn DEF Idle, KnowingKinds
  <2>3. ASSUME NEW s, Continue(w, [kind |-> "linkTo", p |-> j.p, m |-> j.m, s |-> s, d |-> j.d])
        PROVE  job'[w].kind \notin KnowingKinds
    BY <2>3, GoesOn DEF KnowingKinds
  <2> QED BY <2>1, <2>2, <2>3
<1>3. CASE LinkPickup(w)
  <2>1. job'[w] = Idle \/ job'[w] = AfterLink(j)
    BY <1>3, GoesOn DEF LinkPickup
  <2> QED BY <2>1 DEF AfterLink, Idle, KnowingKinds
<1>4. CASE JoinDelivery(w)
  <2>1. job'[w] = [j EXCEPT !.kind = "joinPair"] /\ j \in JoinJob
    BY <1>4, GoesOn, Typed, JobShape DEF JoinDelivery
  <2> QED BY <2>1 DEF JoinJob, KnowingKinds
<1>5. CASE CreateSupply(w)
  <2>1. \/ Continue(w, Idle) \/ \E s, p : Continue(w, [kind |-> "linkFrom", s |-> s, p |-> p])
    BY <1>5 DEF CreateSupply
  <2>2. CASE Continue(w, Idle)
    BY <2>2, GoesOn DEF Idle, KnowingKinds
  <2>3. ASSUME NEW s, NEW p, Continue(w, [kind |-> "linkFrom", s |-> s, p |-> p])
        PROVE  job'[w].kind \notin KnowingKinds
    BY <2>3, GoesOn DEF KnowingKinds
  <2> QED BY <2>1, <2>2, <2>3
<1>6. CASE ReadCancel(w)
  <2>1. \E s, d : Continue(w, [kind |-> "cancelTx", p |-> j.p, s |-> s, d |-> d])
    BY <1>6 DEF ReadCancel
  <2>2. job'[w].kind = "cancelTx"
    BY <2>1, GoesOn
  <2> QED BY <2>2 DEF KnowingKinds
<1>7. CASE JoinTrip(w) \/ LinkSupply(w) \/ CreateBoth(w) \/ FinishCancel(w)
  <2>1. job'[w].kind = "idle"
    <3>1. CASE JoinTrip(w)
      BY <3>1, GoesOn DEF JoinTrip, Idle
    <3>2. CASE LinkSupply(w)
      BY <3>2, GoesOn DEF LinkSupply, Idle
    <3>3. CASE CreateBoth(w)
      BY <3>3, GoesOn DEF CreateBoth, Idle
    <3>4. CASE FinishCancel(w)
      BY <3>4, GoesOn DEF FinishCancel, Idle
    <3> QED BY <1>7, <3>1, <3>2, <3>3, <3>4
  <2> QED BY <2>1 DEF KnowingKinds
<1> QED BY <1>1, <1>2, <1>3, <1>4, <1>5, <1>6, <1>7 DEF MachineStep

LEMMA MachineStepHolds ==
  ASSUME MInv, OneMachine, NEW w \in Slots, MachineStep(w)
  PROVE  NoRequestWithPallet' /\ Knows(job[w])'
<1> USE DEF MInv
<1> DEFINE j == job[w]
<1>1. job'[w].kind \notin KnowingKinds
  BY MachineStepKinds
<1>2. CASE CreateSupply(w) \/ CreateBoth(w)
  <2>1. j.kind \in {"newSupply", "newPair"} /\ j.m \in Machines
    <3>1. j.kind \in {"newSupply", "newPair"} /\ j \in NewSupplyJob \cup NewPairJob
      BY <1>2, Typed, JobShape DEF CreateSupply, CreateBoth
    <3> QED BY <3>1 DEF NewSupplyJob, NewPairJob
  <2>2. OpenDeliveries(j.m) = {}
    BY <2>1 DEF Knows
  <2>3. \A m \in Machines : OpenDeliveries(m) = {}
    BY <2>1, <2>2 DEF OneMachine
  <2>4. UNCHANGED delivery
    BY <1>2 DEF CreateSupply, CreateBoth
  <2>5. NoRequestWithPallet'
    BY <2>3, <2>4 DEF NoRequestWithPallet, OpenDeliveries
  <2> QED BY <1>1, <2>5, UnknownKind
<1>3. CASE CreateOrphanSupply(w)
  <2>1. \A s \in SupplyIds : supply'[s].status = "OPEN" =>
          supply[s].status = "OPEN" /\ supply'[s].machine = supply[s].machine
    <3>1. CASE UNCHANGED supply
      BY <3>1
    <3>2. ASSUME NEW s \in SupplyIds,
                 supply' = [supply EXCEPT ![s] = NewSupply(j.dm, "FULFILLED", j.d)]
          PROVE  \A k \in SupplyIds : supply'[k].status = "OPEN" => supply'[k] = supply[k]
      BY <3>2 DEF NewSupply, TInv, SInv, IInv, RowsGood
    <3> QED BY <1>3, <3>1, <3>2 DEF CreateOrphanSupply
  <2>2. UNCHANGED delivery
    BY <1>3 DEF CreateOrphanSupply
  <2> QED BY <1>1, <2>1, <2>2, ClosingStep
<1>4. CASE FinishCancel(w)
  <2>1. j.d \in DeliveryIds \cup {0} /\ j.s \in SupplyIds \cup {0}
    <3>1. j.kind = "cancelTx" /\ j \in CancelTxJob
      BY <1>4, Typed, JobShape DEF FinishCancel
    <3> QED BY <3>1 DEF CancelTxJob
  <2>2. \A d \in DeliveryIds : delivery'[d] = delivery[d] \/ delivery'[d].status = "CANCELED"
    <3>1. delivery \in [DeliveryIds -> DeliveryRow]
      BY Typed DEF GoodDelivery, TInv, SInv, IInv, RowsGood
    <3> QED BY <1>4, <2>1, <3>1 DEF FinishCancel, DeliveryRow
  <2>3. \A s \in SupplyIds : supply'[s] = supply[s] \/ supply'[s].status = "CANCELLED"
    <3>1. supply \in [SupplyIds -> SupplyRow]
      BY DEF TInv, SInv, IInv, RowsGood
    <3> QED BY <1>4, <2>1, <3>1 DEF FinishCancel, SupplyRow
  <2> QED BY <1>1, <2>2, <2>3, ClosingStep DEF OpenStatus
<1>5. CASE ResolveSupply(w) \/ LinkPickup(w) \/ JoinDelivery(w) \/ JoinTrip(w)
             \/ LinkSupply(w) \/ ReadCancel(w)
  <2>1. UNCHANGED <<delivery, supply>>
    BY <1>5 DEF ResolveSupply, LinkPickup, JoinDelivery, JoinTrip, LinkSupply, ReadCancel
  <2> QED BY <1>1, <2>1, ClosingStep
<1> QED BY <1>2, <1>3, <1>4, <1>5 DEF MachineStep

LEMMA TransportHolds ==
  ASSUME MInv, OneMachine, NEW w \in Slots, TransportRequest(w) \/ TransportStep(w)
  PROVE  NoRequestWithPallet' /\ Knows(job[w])'
<1> USE DEF MInv
<1> DEFINE j == job[w]
<1>1. UNCHANGED supply
  BY DEF TransportRequest, TransportStep, SetMode, BeginClearMode, BeginList,
         BeginAcceptDeliver, BeginAcceptPickup, BeginAcceptTrip, BeginCompleteDeliver,
         BeginCompletePickup, FinishAcceptDeliver, FinishAcceptPickup, FinishAcceptTrip,
         FinishCompleteDeliver, ResumeMachine, FinishCompletePickup, CloseTrip, FinishClearMode
<1>2. NoRequestWithPallet'
  <2>1. \A d \in DeliveryIds : delivery'[d].status \in OpenStatus =>
          delivery[d].status \in OpenStatus /\ delivery'[d].machine = delivery[d].machine
    <3>1. delivery \in [DeliveryIds -> DeliveryRow]
      BY Typed DEF GoodDelivery, TInv, SInv, IInv, RowsGood
    <3>2. CASE UNCHANGED delivery
      BY <3>2
    <3>3. CASE FinishAcceptDeliver(w)
      <4>1. j.d \in DeliveryIds /\ delivery[j.d].status = "CREATED"
        BY <3>3, AcceptRemembers DEF FinishAcceptDeliver, TInv, SInv, Fresh
      <4> QED BY <3>1, <3>3, <4>1 DEF FinishAcceptDeliver, Assigned, DeliveryRow, OpenStatus
    <3>4. CASE FinishAcceptTrip(w)
      <4>1. j.d \in DeliveryIds
        BY <3>4, AcceptRemembers DEF FinishAcceptTrip, TInv
      <4>2. \/ UNCHANGED delivery
            \/ delivery' = [delivery EXCEPT ![j.d] =
                 IF @.status = "CREATED" THEN Assigned(@, j.o, j.with) ELSE @]
        BY <3>4 DEF FinishAcceptTrip
      <4>3. CASE UNCHANGED delivery
        BY <3>2, <4>3
      <4>4. CASE /\ delivery[j.d].status = "CREATED"
                 /\ delivery' = [delivery EXCEPT ![j.d] = Assigned(@, j.o, j.with)]
        BY <3>1, <4>1, <4>4 DEF Assigned, DeliveryRow, OpenStatus
      <4>5. CASE delivery[j.d].status # "CREATED" /\ delivery' = [delivery EXCEPT ![j.d] = @]
        BY <3>1, <4>1, <4>5
      <4> QED BY <4>2, <4>3, <4>4, <4>5
    <3>5. CASE FinishCompleteDeliver(w)
      <4>1. j.d \in DeliveryIds
        BY <3>5, AcceptRemembers DEF FinishCompleteDeliver, TInv
      <4> QED BY <3>1, <3>5, <4>1 DEF FinishCompleteDeliver, DeliveryRow, OpenStatus
    <3>6. CASE TransportRequest(w)
      <4>1. UNCHANGED delivery
        BY <3>6 DEF TransportRequest, SetMode, BeginClearMode, BeginList,
                    BeginAcceptDeliver, BeginAcceptPickup, BeginAcceptTrip,
                    BeginCompleteDeliver, BeginCompletePickup
      <4> QED BY <3>2, <4>1
    <3>7. CASE FinishAcceptPickup(w) \/ ResumeMachine(w) \/ FinishCompletePickup(w)
               \/ CloseTrip(w) \/ FinishClearMode(w)
      <4>1. UNCHANGED delivery
        BY <3>7 DEF FinishAcceptPickup, ResumeMachine, FinishCompletePickup, CloseTrip,
                    FinishClearMode
      <4> QED BY <3>2, <4>1
    <3> QED BY <3>3, <3>4, <3>5, <3>6, <3>7 DEF TransportStep
  <2> QED BY <1>1, <2>1, RowsClose, KeepsRequests
<1>3. CASE TransportStep(w)
  <2>1. \/ Continue(w, Idle)
        \/ \E m : Continue(w, [kind |-> "resume", m |-> m])
        \/ \E r : Continue(w, [kind |-> "closeTrip", r |-> r])
    BY <1>3 DEF TransportStep, FinishAcceptDeliver, FinishAcceptPickup, FinishAcceptTrip,
                FinishCompleteDeliver, ResumeMachine, FinishCompletePickup, CloseTrip,
                FinishClearMode
  <2>2. ASSUME Continue(w, Idle) PROVE job'[w].kind \notin KnowingKinds
    BY <2>2, GoesOn DEF Idle, KnowingKinds
  <2>3. ASSUME NEW m, Continue(w, [kind |-> "resume", m |-> m])
        PROVE  job'[w].kind \notin KnowingKinds
    BY <2>3, GoesOn DEF KnowingKinds
  <2>4. ASSUME NEW r, Continue(w, [kind |-> "closeTrip", r |-> r])
        PROVE  job'[w].kind \notin KnowingKinds
    BY <2>4, GoesOn DEF KnowingKinds
  <2>5. job'[w].kind \notin KnowingKinds
    BY <2>1, <2>2, <2>3, <2>4
  <2> QED BY <1>2, <2>5, UnknownKind
<1>4. ASSUME NEW o \in Operators, NEW d \in DeliveryIds, BeginAcceptDeliver(w, o, d)
      PROVE  Knows(job[w])'
  <2>1. job'[w] = [kind |-> "acceptDeliver", o |-> o, d |-> d, with |-> mode[o]]
    BY <1>4, GoesOn DEF BeginAcceptDeliver
  <2>2. /\ delivery[d].status = "CREATED" /\ delivery[d].prepared
        /\ ~ isMachineDeliveryBlockedFromTransportQueue(delivery[d].machine)
    BY <1>4 DEF BeginAcceptDeliver
  <2>3. delivery[d].machine \in Machines
    BY <2>2, Typed DEF GoodDelivery
  <2>4. production[delivery[d].machine] = "ABASTECER"
    BY <2>2, <2>3, Released
  <2>5. UNCHANGED <<delivery, production>>
    BY <1>4 DEF BeginAcceptDeliver
  <2> QED BY <2>1, <2>4, <2>5 DEF Knows
<1>5. ASSUME NEW o \in Operators, NEW r \in TripIds, BeginAcceptTrip(w, o, r)
      PROVE  Knows(job[w])'
  <2> DEFINE d == trip[r].deliver
  <2>1. job'[w] = [kind |-> "acceptTrip", o |-> o, r |-> r, d |-> d,
                   p |-> trip[r].pickup, with |-> mode[o]]
    BY <1>5, GoesOn DEF BeginAcceptTrip
  <2>2. isLive(r) /\ d \in DeliveryIds /\ delivery[d].prepared /\ trip[r].machine \in Machines
    BY <1>5, Typed DEF BeginAcceptTrip, isLive, GoodTrip, TInv, RowsFit, TripsGood
  <2>3. ~ isMachineDeliveryBlockedFromTransportQueue(trip[r].machine)
    BY <1>5 DEF BeginAcceptTrip
  <2>4. delivery[d].status = "CREATED" => production[delivery[d].machine] = "ABASTECER"
    <3> HIDE DEF d
    <3> QED BY <2>2, <2>3, Released
  <2>5. UNCHANGED <<delivery, production>>
    BY <1>5 DEF BeginAcceptTrip
  <2> HIDE DEF d
  <2> QED BY <2>1, <2>4, <2>5 DEF Knows
<1>6. ASSUME NEW o \in Operators,
             \/ \E m \in OperatingModes : SetMode(w, o, m)
             \/ BeginClearMode(w, o)
             \/ \E main \in BOOLEAN : BeginList(w, o, main)
             \/ \E d \in DeliveryIds : BeginCompleteDeliver(w, o, d)
             \/ \E p \in PickupIds : BeginAcceptPickup(w, o, p) \/ BeginCompletePickup(w, o, p)
      PROVE  Knows(job[w])'
  <2>1. ASSUME NEW m, SetMode(w, o, m) PROVE job'[w].kind \notin KnowingKinds
    BY <2>1 DEF SetMode, isFree, Idle, KnowingKinds
  <2>2. CASE BeginClearMode(w, o)
    BY <2>2, GoesOn, UnknownKind DEF BeginClearMode, KnowingKinds
  <2>3. ASSUME NEW main, BeginList(w, o, main) PROVE job'[w].kind \notin KnowingKinds
    BY <2>3, GoesOn DEF BeginList, KnowingKinds
  <2>4. ASSUME NEW d, BeginCompleteDeliver(w, o, d) PROVE job'[w].kind \notin KnowingKinds
    BY <2>4, GoesOn DEF BeginCompleteDeliver, KnowingKinds
  <2>5. ASSUME NEW p, BeginAcceptPickup(w, o, p) PROVE job'[w].kind \notin KnowingKinds
    BY <2>5, GoesOn DEF BeginAcceptPickup, KnowingKinds
  <2>6. ASSUME NEW p, BeginCompletePickup(w, o, p) PROVE job'[w].kind \notin KnowingKinds
    BY <2>6, GoesOn DEF BeginCompletePickup, KnowingKinds
  <2> QED BY <1>6, <2>1, <2>2, <2>3, <2>4, <2>5, <2>6, UnknownKind
<1> QED BY <1>2, <1>3, <1>4, <1>5, <1>6 DEF TransportRequest

LEMMA NextMInv ==
  ASSUME MInv, [Next]_vars, OneSlot, OneMachine
  PROVE  MInv'
<1>1. TInv'
  BY NextTInv DEF MInv
<1>2. CASE UNCHANGED vars
  <2>1. NoRequestWithPallet'
    BY <1>2 DEF vars, MInv, NoRequestWithPallet, OpenDeliveries, OpenSupplies
  <2>2. \A w \in Slots : Knows(job[w])'
    BY <1>2 DEF vars, MInv, Knows, OpenDeliveries
  <2> QED BY <1>1, <2>1, <2>2 DEF MInv
<1>3. CASE Next
  <2>1. PICK w \in Slots :
          \/ SupplyRequest(w) \/ MachineRequest(w) \/ TransportRequest(w)
          \/ SupplyStep(w) \/ MachineStep(w) \/ TransportStep(w)
          \/ TripStep(w) \/ Fail(w)
    BY <1>3 DEF Next
  <2>2. NoRequestWithPallet' /\ Knows(job[w])'
    BY <2>1, DeskHolds, MachineRequestHolds, MachineStepHolds, TransportHolds, TripStepHolds
  <2>3. \A v \in Slots : v = w
    BY DEF OneSlot
  <2> QED BY <1>1, <2>2, <2>3 DEF MInv
<1> QED BY <1>2, <1>3

LEMMA InitMInv == Init => MInv
<1> SUFFICES ASSUME Init PROVE MInv
  OBVIOUS
<1>1. NoRequestWithPallet
  BY DEF Init, NoSupply, NoRequestWithPallet, OpenSupplies
<1>2. \A w \in Slots : Knows(job[w])
  BY DEF Init, Idle, Knows
<1> QED BY <1>1, <1>2, InitTInv DEF MInv

LEMMA AlwaysMInv == ASSUME OneSlot, OneMachine PROVE Spec => []MInv
<1>1. MInv /\ [Next]_vars => MInv'
  BY NextMInv
<1> QED BY <1>1, InitMInv, PTL DEF Spec

\* While a pallet for the machine is open nobody waits for another one: the operator's
\* request is refused after a pallet was found, and the desk's pallet answers every
\* request that is OPEN.
THEOREM NoRequestWithPalletInSeries ==
  ASSUME OneSlot, OneMachine PROVE Spec => []NoRequestWithPallet
<1>1. MInv => NoRequestWithPallet
  BY DEF MInv
<1> QED BY <1>1, AlwaysMInv, PTL

\* Only the second step of an acceptance takes a waiting delivery, the one that the first
\* step read.
LEMMA TakenByAccepting ==
  ASSUME TInv, [Next]_vars, NEW d \in DeliveryIds,
         delivery[d].status = "CREATED", delivery'[d].status = "ASSIGNED"
  PROVE  \E w \in Slots : /\ job[w].kind \in {"acceptDeliver", "acceptTrip"}
                            /\ job[w].d = d /\ job[w].o = delivery'[d].op
<1>1. delivery \in [DeliveryIds -> DeliveryRow]
  BY Typed DEF GoodDelivery, TInv, SInv, IInv, RowsGood
<1>2. PICK w \in Slots :
        \/ SupplyRequest(w) \/ MachineRequest(w) \/ TransportRequest(w)
        \/ SupplyStep(w) \/ MachineStep(w) \/ TransportStep(w)
        \/ TripStep(w) \/ Fail(w)
  BY DEF Next, vars
<1>3. ~ TripStep(w) /\ ~ Fail(w)
  BY DEF TripStep, RepointPair, CreatePair, RollBackPair, Bind, Sync, SyncNextMachine,
         FinishList, Fail
<1>4. CASE SupplyRequest(w) \/ SupplyStep(w)
  <2>1. ASSUME NEW m \in Machines, NEW t \in TaskTypes, NEW ready \in BOOLEAN,
               NEW s \in SupplyIds \cup {0}, CreateDelivery(w, m, t, ready, s)
        PROVE  FALSE
    <3>1. PICK e \in DeliveryIds :
            delivery' = [delivery EXCEPT ![e] =
              [status |-> "CREATED", machine |-> m, type |-> t, prepared |-> ready,
               op |-> NoOp, with |-> "NONE"]]
      BY <2>1 DEF CreateDelivery
    <3> QED BY <1>1, <3>1
  <2>2. ASSUME NEW e \in DeliveryIds, MarkPrepared(w, e) PROVE FALSE
    BY <1>1, <2>2 DEF MarkPrepared, DeliveryRow
  <2>3. ~ FinishEdit(w)
    <3> SUFFICES ASSUME FinishEdit(w) PROVE FALSE
      OBVIOUS
    <3>1. job[w].d \in DeliveryIds
      <4>1. job[w] \in EditJob
        BY Typed, JobShape DEF FinishEdit
      <4> QED BY <4>1 DEF EditJob
    <3> QED BY <1>1, <3>1 DEF FinishEdit, DeliveryRow
  <2> QED BY <1>4, <2>1, <2>2, <2>3
          DEF SupplyRequest, SupplyStep, BeginEdit, SetProductionStatus
<1>5. CASE MachineRequest(w) \/ MachineStep(w)
  <2>1. ~ FinishCancel(w)
    BY <1>1 DEF FinishCancel, DeliveryRow
  <2> QED BY <1>5, <2>1
          DEF MachineRequest, MachineStep, RequestPickup, BeginRequestBoth, RepairLinks,
              BeginRequestSupply, BeginCancel, ResolveSupply, CreateOrphanSupply, LinkPickup,
              JoinDelivery, JoinTrip, CreateSupply, LinkSupply, CreateBoth, ReadCancel
<1>6. CASE TransportRequest(w) \/ TransportStep(w)
  <2>1. CASE FinishAcceptDeliver(w) \/ FinishAcceptTrip(w)
    <3>1. job[w].kind \in {"acceptDeliver", "acceptTrip"}
      BY <2>1 DEF FinishAcceptDeliver, FinishAcceptTrip
    <3>2. job[w].d = d
      <4>1. \A e \in DeliveryIds : e # job[w].d => delivery'[e] = delivery[e]
        BY <1>1, <2>1 DEF FinishAcceptDeliver, FinishAcceptTrip
      <4> QED BY <4>1
    <3>3. job[w].o = delivery'[d].op
      <4> DEFINE row == Assigned(delivery[d], job[w].o, job[w].with)
      <4>1. row.op = job[w].o
        BY <1>1 DEF Assigned, DeliveryRow
      <4>2. delivery'[d] = row
        <5> HIDE DEF row
        <5>1. CASE FinishAcceptDeliver(w)
          BY <1>1, <3>2, <5>1 DEF FinishAcceptDeliver, row
        <5>2. CASE FinishAcceptTrip(w)
          <6>1. delivery' # delivery
            OBVIOUS
          <6>2. delivery' = [delivery EXCEPT ![job[w].d] = IF delivery[job[w].d].status = "CREATED"
                               THEN Assigned(delivery[job[w].d], job[w].o, job[w].with)
                               ELSE delivery[job[w].d]]
            BY <5>2, <6>1 DEF FinishAcceptTrip
          <6> QED BY <1>1, <3>2, <6>2 DEF row
        <5> QED BY <2>1, <5>1, <5>2
      <4> QED BY <4>1, <4>2
    <3> QED BY <3>1, <3>2, <3>3
  <2>2. ~ FinishCompleteDeliver(w)
    BY <1>1 DEF FinishCompleteDeliver, DeliveryRow
  <2> QED BY <1>6, <2>1, <2>2
          DEF TransportRequest, TransportStep, SetMode, BeginClearMode, BeginList,
              BeginAcceptDeliver, BeginAcceptPickup, BeginAcceptTrip, BeginCompleteDeliver,
              BeginCompletePickup, FinishAcceptPickup, ResumeMachine, FinishCompletePickup,
              CloseTrip, FinishClearMode
<1> QED BY <1>2, <1>3, <1>4, <1>5, <1>6

\* A pallet leaves only after the desk released its machine, although the release is
\* checked in one step and the pallet taken in another.
THEOREM ReleasedInSeries ==
  ASSUME OneSlot, OneMachine PROVE Spec => ReleasedWhenTaken
<1> DEFINE Taken(d) == delivery[d].status = "CREATED" /\ delivery'[d].status = "ASSIGNED"
<1>1. ASSUME MInv, [Next]_vars, NEW d \in DeliveryIds, Taken(d)
      PROVE  production[delivery[d].machine] = "ABASTECER"
  BY <1>1, TakenByAccepting DEF MInv, Knows
<1>2. MInv /\ [Next]_vars =>
        [\A d \in DeliveryIds :
           delivery[d].status = "CREATED" /\ delivery'[d].status = "ASSIGNED" =>
             production[delivery[d].machine] = "ABASTECER"]_vars
  BY <1>1
<1> QED BY <1>2, AlwaysMInv, PTL DEF Spec, ReleasedWhenTaken
=============================================================================
