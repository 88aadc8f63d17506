------------------------------ MODULE ForkFlow ------------------------------
(***************************************************************************)
(* The back-end of the pallet transport: the supply desk, the operators at *)
(* the machines and the transporters send requests, at most Cardinality(   *)
(* Slots) of them in execution at a time, over the shared database.        *)
(***************************************************************************)
EXTENDS SupplyDesk, MachineDesk, Transport

JobSet == TripJob \cup SupplyJob \cup MachineJob \cup TransportJob \cup {Idle}

TypeOK ==
  /\ delivery \in [DeliveryIds -> DeliveryRow]
  /\ pickup \in [PickupIds -> PickupRow]
  /\ supply \in [SupplyIds -> SupplyRow]
  /\ trip \in [TripIds -> TripRow]
  /\ production \in [Machines -> {"TRABALHANDO", "ABASTECER"}]
  /\ mode \in [Operators -> ModeOrNull]
  /\ seen \in [deliver: SUBSET DeliveryIds, pickup: SUBSET PickupIds, trip: SUBSET TripIds]
  /\ job \in [Slots -> JobSet]

\* Empty tables, machines at work (the column's default), nobody driving.
Init ==
  /\ delivery = [d \in DeliveryIds |-> NoDelivery]
  /\ pickup = [p \in PickupIds |-> NoPickup]
  /\ supply = [s \in SupplyIds |-> NoSupply]
  /\ trip = [r \in TripIds |-> NoTrip]
  /\ production = [m \in Machines |-> "TRABALHANDO"]
  /\ mode = [o \in Operators |-> "NONE"]
  /\ seen = [deliver |-> {}, pickup |-> {}, trip |-> {}]
  /\ job = [w \in Slots |-> Idle]

\* A request ends between two of its writes: the awaited call throws, or the
\* process stops.
Fail(w) ==
  /\ ~ isFree(w)
  /\ Continue(w, Idle)
  /\ UNCHANGED <<delivery, pickup, supply, trip, production, mode, seen>>

Next ==
  \E w \in Slots :
    \/ SupplyRequest(w) \/ MachineRequest(w) \/ TransportRequest(w)
    \/ SupplyStep(w) \/ MachineStep(w) \/ TransportStep(w) \/ TripStep(w)
    \/ Fail(w)

Spec == Init /\ [][Next]_vars
-----------------------------------------------------------------------------
(* What every interleaving of requests, and a crash between any two of     *)
(* their writes, keeps.                                                    *)

isWaiting(row)   == row.op = NoOp /\ row.with = "NONE"
isSomebodys(row) == row.op \in Operators /\ row.with \in OperatingModes

DeliveryCoherent ==
  \A d \in DeliveryIds :
    /\ delivery[d].status = "CREATED" => isWaiting(delivery[d])
    /\ delivery[d].status \in {"ASSIGNED", "COMPLETED"} => isSomebodys(delivery[d])

PickupCoherent ==
  \A p \in PickupIds :
    /\ pickup[p].status = "CREATED" => isWaiting(pickup[p])
    /\ pickup[p].status \in {"ASSIGNED", "COMPLETED"} => isSomebodys(pickup[p])

TripCoherent ==
  \A r \in TripIds : trip[r].status \in {"ACCEPTED", "COMPLETED"} => trip[r].by \in Operators

\* A task or trip in hand, or done, names its transporter (a task also the
\* equipment), and a waiting task names nobody: the queues filter on the status and
\* on the operator, so that a task with one but not the other is in no list.
AssignmentCoherent == DeliveryCoherent /\ PickupCoherent /\ TripCoherent

\* A delivery, and a pickup, is in one trip suggestion at most, although suggestions
\* are made, repointed and deleted from what another transaction may have changed.
OnePairPerTask ==
  \A r, k \in TripIds : isLive(r) /\ isLive(k) /\ r # k =>
    trip[r].deliver # trip[k].deliver /\ trip[r].pickup # trip[k].pickup
-----------------------------------------------------------------------------
(* What holds when requests are served one after the other (one slot).     *)

stageOf(row) ==
  CASE row.status = "ABSENT"    -> "none"
    [] row.status = "CREATED"   -> IF row.prepared THEN "ready" ELSE "preparing"
    [] row.status = "ASSIGNED"  -> "onTheWay"
    [] row.status = "COMPLETED" -> "delivered"
    [] row.status = "CANCELED"  -> "dropped"

Lifecycle == INSTANCE DeliveryLifecycle WITH
  Deliveries <- DeliveryIds, Drivers <- Operators, Nobody <- NoOp,
  stage  <- [d \in DeliveryIds |-> stageOf(delivery[d])],
  driver <- [d \in DeliveryIds |-> delivery[d].op]

\* The deliveries behave as DeliveryLifecycle says: the services of three roles
\* write the same rows, and none skips a stage or takes a delivery from its driver.
DeliveryFollowsLifecycle == Lifecycle!Spec

KeepsDone ==
  /\ \A d \in DeliveryIds : delivery[d].status \in {"COMPLETED", "CANCELED"} =>
       delivery'[d].status = delivery[d].status
  /\ \A p \in PickupIds : pickup[p].status \in {"COMPLETED", "CANCELED"} =>
       pickup'[p].status = pickup[p].status

\* No request reopens or rewrites the outcome of a completed or cancelled task.
DoneStaysDone == [][KeepsDone]_vars

OpenDeliveriesOf(o) ==
  {d \in DeliveryIds : delivery[d].op = o /\ delivery[d].status \in OpenStatus}
OpenPickupsOf(o) ==
  {p \in PickupIds : pickup[p].op = o /\ pickup[p].status \in OpenStatus}

isLinkedPair(d, p) == pickup[p].link # 0 /\ supply[pickup[p].link].delivery = d

\* A transporter has at most one delivery and one pickup in hand, and both only when
\* the pickup is linked to that delivery ("conclua ou cancele antes de aceitar
\* outra"), whether they were accepted as a trip or the pickup joined on the way.
OneTripAtATime ==
  \A o \in Operators :
    /\ Cardinality(OpenDeliveriesOf(o)) <= 1 /\ Cardinality(OpenPickupsOf(o)) <= 1
    /\ \A d \in OpenDeliveriesOf(o), p \in OpenPickupsOf(o) : isLinkedPair(d, p)

\* A pallet leaves for its machine only after the desk released the machine, also
\* from a screen that is out of date.  (With several machines it may not: an edited
\* delivery leaves in the trip of the machine it was at, whose release is checked.)
ReleasedWhenTaken ==
  [][\A d \in DeliveryIds :
       delivery[d].status = "CREATED" /\ delivery'[d].status = "ASSIGNED" =>
         production[delivery[d].machine] = "ABASTECER"]_vars

CancelsWaiting ==
  /\ \A d \in DeliveryIds :
       delivery'[d].status = "CANCELED" /\ delivery[d].status # "CANCELED" =>
         delivery[d].status = "CREATED" /\ ~ delivery[d].prepared
  /\ \A p \in PickupIds :
       pickup'[p].status = "CANCELED" /\ pickup[p].status # "CANCELED" =>
         pickup[p].status = "CREATED"

\* Cancelling a pickup neither discards a pallet that is prepared or on its way nor
\* a pickup that a transporter accepted.
CancelOnlyWaiting == [][CancelsWaiting]_vars

\* An OPEN suggestion is the pair that the foreign keys name as long as its pickup is
\* open, never a delivery and a pickup that merely are at the same machine.
SuggestionFollowsLink ==
  \A r \in TripIds :
    trip[r].status = "OPEN" /\ pickup[trip[r].pickup].status \in OpenStatus =>
      isLinkedPair(trip[r].deliver, trip[r].pickup)

\* A delivery and the supply request it answers are cancelled together.
CancelledTogether ==
  \A d \in DeliveryIds :
    SupplyOf(d) # 0 =>
      (delivery[d].status = "CANCELED") = (supply[SupplyOf(d)].status = "CANCELLED")

\* A delivery on its way was prepared.  The combined trip is accepted without a look
\* at preparedAt: what the listing showed keeps an unprepared pallet off the road, as
\* long as no suggestion is given another delivery after it was seen.
DriveOnlyPrepared ==
  \A d \in DeliveryIds : delivery[d].status = "ASSIGNED" => delivery[d].prepared

KeepsLinks ==
  \A p \in PickupIds : pickup[p].link # 0 => pickup'[p].link \in {0, pickup[p].link}

\* The link of a pickup to a supply request is written once: it may be cleared but
\* not moved to another request.
LinkWrittenOnce == [][KeepsLinks]_vars

\* While a pallet for the machine is open nobody waits for another one: a request
\* that stayed OPEN would be fulfilled by a pallet nobody asked for.  (With several
\* machines an edited delivery may move to one that has a request.)
NoRequestWithPallet ==
  \A m \in Machines : OpenSupplies(m) = {} \/ OpenDeliveries(m) = {}

\* A delivery that needs a forklift is driven with one, although the desk may change the
\* type of a waiting delivery and the transporter the equipment.
DeliveryTypeFits ==
  \A d \in DeliveryIds : delivery[d].status = "ASSIGNED" =>
    requestTypeMatchesOperatingMode(delivery[d].type, delivery[d].with)
-----------------------------------------------------------------------------
(* What documents or comments say and the code does not keep.              *)

\* A machine has at most one OPEN supply request: with one OPEN, "retirada +
\* abastecimento" is to be refused.
OneOpenSupplyPerMachine ==
  \A m \in Machines : Cardinality(OpenSupplies(m)) <= 1

\* A pickup a transporter accepted is not handed to another one.
PickupKeepsItsOperator ==
  [][\A p \in PickupIds : pickup[p].status = "ASSIGNED" => pickup'[p].op = pickup[p].op]_vars
=============================================================================
