----------------------------- MODULE MachineScreen -----------------------------
(***************************************************************************)
(* The screen of a machine (front-end: operator-machine-flow.ts, operator- *)
(* machine-display.ts, OperatorMachineTasksList) as a function of the three*)
(* lists it is computed from: the cards it shows, the step each card is    *)
(* at, and the requests it offers.  The operator's own page computes it    *)
(* from all rows of the machine; the TV monitor from fewer (TvMonitor).    *)
(***************************************************************************)
EXTENDS ForkFlow

\* The lists of the operator's page: every status, nothing but this machine.
MachineLists(m) ==
  [deliveries |-> {d \in DeliveryIds : delivery[d].machine = m},
   pickups    |-> {p \in PickupIds : pickup[p].machine = m},
   supplies   |-> {s \in SupplyIds : supply[s].machine = m}]

\* The `find` of a list: the id when the list has it, else 0.
FoundIn(id, ids) == IF id \in ids THEN id ELSE 0

isOpenDelivery(d) == delivery[d].status \in OpenStatus
isOpenPickup(p)   == pickup[p].status \in OpenStatus
-----------------------------------------------------------------------------
(* What belongs together, in the lists L.                                  *)

findSupplyForPickup(p, L) == FoundIn(pickup[p].link, L.supplies)

findDeliveryForPickup(p, L) ==
  LET s == findSupplyForPickup(p, L)
  IN  IF s = 0 THEN 0 ELSE FoundIn(supply[s].delivery, L.deliveries)

findSupplyForDeliveryTask(d, L) == Oldest({s \in L.supplies : supply[s].delivery = d})

hasActiveLinkedPickup(s, L) == \E p \in L.pickups : pickup[p].link = s /\ isOpenPickup(p)

Newest(ids) ==
  IF ids = {} THEN 0 ELSE CHOOSE i \in ids : \A k \in ids : k <= i

\* A request that is still OPEN goes with the newest open delivery.
findDeliveryForSupplyRequest(s, L) ==
  CASE supply[s].delivery # 0     -> FoundIn(supply[s].delivery, L.deliveries)
    [] supply[s].delivery = 0 /\ supply[s].status = "OPEN" ->
         Newest({d \in L.deliveries : isOpenDelivery(d)})
    [] OTHER                      -> 0
-----------------------------------------------------------------------------
(* The cards (buildOperatorMachineTaskRows).                               *)

\* Faulty: a delivery whose request a pickup holds also gets a card of its own.
FaultyDeliveryRows(L) ==
  {d \in L.deliveries :
     /\ isOpenDelivery(d)
     /\ LET s == findSupplyForDeliveryTask(d, L)
        IN  s = 0 \/ supply[s].status # "FULFILLED" \/ hasActiveLinkedPickup(s, L)}

\* A delivery shown inside the card of its request, or of the pickup linked to
\* that, has no card of its own.
DeliveryRows(L) ==
  {d \in L.deliveries :
     /\ isOpenDelivery(d)
     /\ LET s == findSupplyForDeliveryTask(d, L)
        IN  s = 0 \/ ~ (hasActiveLinkedPickup(s, L) \/ supply[s].status \in {"OPEN", "FULFILLED"})}

PickupRows(L) == {p \in L.pickups : isOpenPickup(p)}

\* A fulfilled request keeps its card as long as its delivery is not in the list.
SupplyRows(L) ==
  {s \in L.supplies :
     /\ ~ hasActiveLinkedPickup(s, L)
     /\ \/ supply[s].status = "OPEN"
        \/ /\ supply[s].status = "FULFILLED"
           /\ LET d == findDeliveryForSupplyRequest(s, L)
              IN  IF d = 0 THEN supply[s].delivery # 0
                  ELSE delivery[d].status \notin {"COMPLETED", "CANCELED"}}

Cards(L) ==
  ({"DELIVERY"} \X DeliveryRows(L)) \cup ({"PICKUP"} \X PickupRows(L))
  \cup ({"SUPPLY"} \X SupplyRows(L))

\* The delivery, and the supply request, to be seen on a card (0: none).
deliveryOn(card, L) ==
  CASE card[1] = "DELIVERY" -> card[2]
    [] card[1] = "PICKUP"   -> findDeliveryForPickup(card[2], L)
    [] card[1] = "SUPPLY"   -> findDeliveryForSupplyRequest(card[2], L)

supplyOn(card, L) ==
  CASE card[1] = "DELIVERY" -> 0
    [] card[1] = "PICKUP"   -> findSupplyForPickup(card[2], L)
    [] card[1] = "SUPPLY"   -> card[2]
-----------------------------------------------------------------------------
(* The step a card is at.                                                  *)

\* Faulty: an accepted delivery falls through to "in preparation".
FaultyDeliverStep(d) ==
  CASE delivery[d].status = "COMPLETED"                      -> 6
    [] delivery[d].status = "CREATED" /\ delivery[d].prepared -> 3
    [] OTHER                                                  -> 2

\* 2 in preparation, 3 waiting for transport, 4 on the way, 6 delivered.
deliverStep(d) ==
  CASE delivery[d].status = "COMPLETED"                      -> 6
    [] delivery[d].status = "ASSIGNED"                       -> 4
    [] delivery[d].status = "CREATED" /\ delivery[d].prepared -> 3
    [] OTHER                                                  -> 2

\* 1 waits for the desk, 2 to 4 as above, 6 pallet at the machine, 7 pickup on its
\* way, 9 done.  The delivery is the one inside the supply request when the list of
\* deliveries lacks it.
replenishmentPickupActiveStep(p, L) ==
  LET s == findSupplyForPickup(p, L)
      d == IF s = 0 THEN 0 ELSE supply[s].delivery
  IN  CASE d = 0 -> IF s = 0 \/ supply[s].status = "OPEN" THEN 1 ELSE 2
        [] d # 0 /\ delivery[d].status # "COMPLETED" -> deliverStep(d)
        [] d # 0 /\ delivery[d].status = "COMPLETED" ->
             CASE pickup[p].status = "COMPLETED" -> 9
               [] pickup[p].status = "ASSIGNED"  -> 7
               [] OTHER                          -> 6

\* The step of a pickup without a link: 1 waits, 2 accepted, 4 done.
pickupFlowStep(p) ==
  CASE pickup[p].status = "CREATED"   -> 1
    [] pickup[p].status = "ASSIGNED"  -> 2
    [] pickup[p].status = "COMPLETED" -> 4
    [] OTHER                          -> 0

\* The card of a request looks for its delivery in the list only: fulfilled and
\* without it, no step is active (0).
supplyOnlyStep(s, L) ==
  LET d == findDeliveryForSupplyRequest(s, L)
  IN  IF d # 0 THEN deliverStep(d) ELSE IF supply[s].status = "OPEN" THEN 2 ELSE 0

stepOf(card, L) ==
  CASE card[1] = "DELIVERY" -> deliverStep(card[2])
    [] card[1] = "PICKUP" /\ pickup[card[2]].link # 0 -> replenishmentPickupActiveStep(card[2], L)
    [] card[1] = "PICKUP" /\ pickup[card[2]].link = 0 -> pickupFlowStep(card[2])
    [] card[1] = "SUPPLY"   -> supplyOnlyStep(card[2], L)

\* Accepted cards are on top (assignedAt is kept when the task is done).
isAcceptedDelivery(d) == d # 0 /\ delivery[d].op # NoOp

operatorMachineRowIsAccepted(card, L) ==
  CASE card[1] = "DELIVERY" -> isAcceptedDelivery(card[2])
    [] card[1] = "PICKUP"   -> pickup[card[2]].op # NoOp \/ isAcceptedDelivery(deliveryOn(card, L))
    [] card[1] = "SUPPLY"   -> FALSE

\* The rows whose creation the timer of the card counts from, the earliest of them.
operatorMachineRowTimerStart(card, L) ==
  {card} \cup IF card[1] # "PICKUP" THEN {}
              ELSE ({"SUPPLY"} \X ({supplyOn(card, L)} \ {0}))
                   \cup ({"DELIVERY"} \X ({deliveryOn(card, L)} \ {0}))
-----------------------------------------------------------------------------
(* What the screen offers.                                                 *)

hasOpenOperatorSupply(L) == \E s \in L.supplies : supply[s].status = "OPEN"

hasIncomingDelivery(L) == \E d \in L.deliveries : isOpenDelivery(d)

canRequestSupply(L) == ~ hasIncomingDelivery(L) /\ ~ hasOpenOperatorSupply(L)

canRequestPickupWithReplenishment(L) == ~ hasIncomingDelivery(L) /\ ~ hasOpenOperatorSupply(L)

\* Faulty: offers the cancellation of whatever is CREATED.
FaultyCanCancel(p, L) == pickup[p].status = "CREATED"

canCancelPickupRequest(p, L) ==
  /\ pickup[p].status = "CREATED"
  /\ LET d == findDeliveryForPickup(p, L)
     IN  ~ (d # 0 /\ delivery[d].status = "CREATED" /\ delivery[d].prepared)
-----------------------------------------------------------------------------
(* What the screen of a machine keeps, when requests are served one after  *)
(* the other and deliveries stay at their machine.                         *)

\* Every open delivery and every open supply request of the machine is on exactly one
\* card: three kinds of cards hide one another's rows by different rules, and a
\* row that each leaves to the other would be on none.
EachOnOneCard ==
  \A m \in Machines :
    LET L == MachineLists(m) IN
    /\ \A d \in OpenDeliveries(m) : Cardinality({c \in Cards(L) : deliveryOn(c, L) = d}) = 1
    /\ \A s \in OpenSupplies(m) : Cardinality({c \in Cards(L) : supplyOn(c, L) = s}) = 1

\* No card goes back a step as long as it is shown with the same link, whatever the
\* desk, the transporters and the repair of links do meanwhile.
CardNeverGoesBack ==
  [][\A m \in Machines :
       \A c \in Cards(MachineLists(m)) \cap Cards(MachineLists(m))' :
         (c[1] = "PICKUP" => pickup'[c[2]].link = pickup[c[2]].link) =>
           stepOf(c, MachineLists(m)) <= stepOf(c, MachineLists(m))']_vars

\* What the up-to-date screen offers, the server does not refuse: the front-end has
\* its own copy of the three guards, over lists instead of queries.
OfferedIsAccepted ==
  \A m \in Machines :
    LET L == MachineLists(m) IN
    /\ canRequestSupply(L) => OpenDeliveries(m) = {} /\ OpenSupplies(m) = {}
    /\ canRequestPickupWithReplenishment(L) =>
         OpenDeliveries(m) = {} /\ EligibleUnclaimed(m) = {}
    /\ \A p \in L.pickups :
         canCancelPickupRequest(p, L) => pickup[p].status = "CREATED" /\ ~ LinkedPalletWaits(p)
=============================================================================
