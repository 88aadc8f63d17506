------------------------------- MODULE TvMonitor -------------------------------
(***************************************************************************)
(* The TV monitor (operational-dashboard.service.ts, DashboardTvMonitor-   *)
(* View.tsx): three queries of its own, grouped by machine, and the cards  *)
(* of the machines' screens computed from what these queries return.       *)
(***************************************************************************)
EXTENDS MachineScreen

\* Open deliveries, and completed ones whose machine still has the pickup open that
\* is linked to their request or in a suggestion with them.
tvDelivery(d) ==
  \/ isOpenDelivery(d)
  \/ /\ delivery[d].status = "COMPLETED"
     /\ \/ SupplyOf(d) # 0 /\ \E p \in PickupIds : pickup[p].link = SupplyOf(d) /\ isOpenPickup(p)
        \/ \E r \in TripIds : /\ trip[r].status \notin {"ABSENT", "DELETED"}
                              /\ trip[r].deliver = d /\ isOpenPickup(trip[r].pickup)

\* Faulty: only requests whose pallet is still to come.
FaultyTvSupply(s) ==
  \/ supply[s].status = "OPEN"
  \/ supply[s].status = "FULFILLED" /\ supply[s].delivery # 0 /\ isOpenDelivery(supply[s].delivery)

\* OPEN requests; fulfilled ones with an open delivery, or with a completed one and
\* an open pickup.
tvSupply(s) ==
  \/ supply[s].status = "OPEN"
  \/ /\ supply[s].status = "FULFILLED" /\ supply[s].delivery # 0
     /\ \/ isOpenDelivery(supply[s].delivery)
        \/ /\ delivery[supply[s].delivery].status = "COMPLETED"
           /\ \E p \in PickupIds : pickup[p].link = s /\ isOpenPickup(p)

\* groupFlowsByMachine.  (The queries stop at 80, 60 and 80 rows: more than that is
\* left out.)
TvLists(m) ==
  [deliveries |-> {d \in DeliveryIds : delivery[d].machine = m /\ tvDelivery(d)},
   pickups    |-> {p \in PickupIds : pickup[p].machine = m /\ isOpenPickup(p)},
   supplies   |-> {s \in SupplyIds : supply[s].machine = m /\ tvSupply(s)}]

\* A card as it is seen: its step, whether it is on top, and what its timer counts from.
CardsSeen(L) ==
  {[card |-> c, step |-> stepOf(c, L), accepted |-> operatorMachineRowIsAccepted(c, L),
    timer |-> operatorMachineRowTimerStart(c, L)] : c \in Cards(L)}

\* "Mesmos payloads da operação na dobra - linha do tempo idêntica": the TV shows for
\* each machine the cards that its operator sees, at the same steps and with the same
\* timers, although it computes them from other queries, which leave out most rows.
TvShowsMachineCards ==
  \A m \in Machines : CardsSeen(TvLists(m)) = CardsSeen(MachineLists(m))
=============================================================================
