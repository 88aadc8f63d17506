------------------------------ MODULE Transport ------------------------------
(***************************************************************************)
(* operator-moviment-pallet.service.ts: a transporter (PALLET_TRANSPORTER) *)
(* chooses what to drive, lists the work, accepts a delivery, a pickup or  *)
(* a combined trip, and completes tasks.                                   *)
(***************************************************************************)
EXTENDS TripSuggestions

AcceptJob     == [kind: {"acceptDeliver"}, o: Operators, d: DeliveryIds, with: OperatingModes]
                 \cup [kind: {"acceptPickup"}, o: Operators, p: PickupIds, with: OperatingModes]
                 \cup [kind: {"acceptTrip"}, o: Operators, r: TripIds, d: DeliveryIds,
                       p: PickupIds, with: OperatingModes]
CompleteJob   == [kind: {"completeDeliver"}, d: DeliveryIds]
                 \cup [kind: {"completePickup"}, o: Operators, p: PickupIds,
                       with: OperatingModes, first: BOOLEAN]
AfterwardsJob == [kind: {"resume"}, m: Machines] \cup [kind: {"closeTrip"}, r: TripIds]
ClearModeJob  == [kind: {"clearMode"}, o: Operators]

TransportJob == AcceptJob \cup CompleteJob \cup AfterwardsJob \cup ClearModeJob

\* Faulty: writes the status of a trip into a task.
FaultyAssignedStatus(row, o, m) == [row EXCEPT !.status = "ACCEPTED", !.op = o, !.with = m]

\* Faulty: forgets operatedWith.
FaultyAssignedFields(row, o, m) == [row EXCEPT !.status = "ASSIGNED", !.op = o]

\* The fields an accept writes, on a delivery or on a pickup.
Assigned(row, o, m) == [row EXCEPT !.status = "ASSIGNED", !.op = o, !.with = m]
-----------------------------------------------------------------------------
(* What the transporter drives.                                            *)

\* setOperatorOperatingMode looks at no task.
SetMode(w, o, m) ==
  /\ isFree(w) /\ mode[o] # m
  /\ mode' = [mode EXCEPT ![o] = m]
  /\ UNCHANGED <<delivery, pickup, supply, trip, production, seen, job>>

\* Faulty: puts the equipment away with a task in hand.
FaultyBeginClearMode(w, o) ==
  /\ isFree(w)
  /\ Continue(w, [kind |-> "clearMode", o |-> o])
  /\ UNCHANGED <<delivery, pickup, supply, trip, production, mode, seen>>

\* clearOperatorOperatingMode: the check and the update.
BeginClearMode(w, o) ==
  /\ isFree(w) /\ ~ HasIncompleteTasks(o)
  /\ Continue(w, [kind |-> "clearMode", o |-> o])
  /\ UNCHANGED <<delivery, pickup, supply, trip, production, mode, seen>>

FinishClearMode(w) ==
  LET j == job[w] IN
  /\ j.kind = "clearMode"
  /\ mode' = [mode EXCEPT ![j.o] = "NONE"]
  /\ Continue(w, Idle)
  /\ UNCHANGED <<delivery, pickup, supply, trip, production, seen>>
-----------------------------------------------------------------------------
(* Accepting.  The checks of a request ...                                 *)

\* Faulty: does not look at the tasks in hand.
FaultyMayAcceptBusy(o, type) ==
  mode[o] # "NONE" /\ requestTypeMatchesOperatingMode(type, mode[o])

\* Faulty: does not compare the task with the equipment.
FaultyMayAcceptAnyType(o, type) ==
  mode[o] # "NONE" /\ ~ HasIncompleteTasks(o)

\* ... every accept makes: the mode is set and fits, and the transporter's hands
\* are free.
mayAccept(o, type) ==
  /\ mode[o] # "NONE"
  /\ requestTypeMatchesOperatingMode(type, mode[o])
  /\ ~ HasIncompleteTasks(o)

BeginAcceptDeliver(w, o, d) ==
  /\ isFree(w) /\ d \in seen.deliver
  /\ delivery[d].status = "CREATED" /\ delivery[d].prepared
  /\ ~ isMachineDeliveryBlockedFromTransportQueue(delivery[d].machine)
  /\ mayAccept(o, delivery[d].type)
  /\ Continue(w, [kind |-> "acceptDeliver", o |-> o, d |-> d, with |-> mode[o]])
  /\ UNCHANGED <<delivery, pickup, supply, trip, production, mode, seen>>

BeginAcceptPickup(w, o, p) ==
  /\ isFree(w) /\ p \in seen.pickup
  /\ pickup[p].status = "CREATED"
  /\ mayAccept(o, pickup[p].type)
  /\ Continue(w, [kind |-> "acceptPickup", o |-> o, p |-> p, with |-> mode[o]])
  /\ UNCHANGED <<delivery, pickup, supply, trip, production, mode, seen>>

\* Faulty: trusts the screen for the machine's release.
FaultyBeginAcceptTrip(w, o, r) ==
  /\ isFree(w) /\ r \in seen.trip
  /\ trip[r].status = "OPEN"
  /\ mayAccept(o, delivery[trip[r].deliver].type)
  /\ Continue(w, [kind |-> "acceptTrip", o |-> o, r |-> r, d |-> trip[r].deliver,
                  p |-> trip[r].pickup, with |-> mode[o]])
  /\ UNCHANGED <<delivery, pickup, supply, trip, production, mode, seen>>

BeginAcceptTrip(w, o, r) ==
  /\ isFree(w) /\ r \in seen.trip
  /\ trip[r].status = "OPEN"
  /\ ~ isMachineDeliveryBlockedFromTransportQueue(trip[r].machine)
  /\ mayAccept(o, delivery[trip[r].deliver].type)
  /\ Continue(w, [kind |-> "acceptTrip", o |-> o, r |-> r, d |-> trip[r].deliver,
                  p |-> trip[r].pickup, with |-> mode[o]])
  /\ UNCHANGED <<delivery, pickup, supply, trip, production, mode, seen>>

\* ... and its write: for one task an update by id, whatever the task has become;
FinishAcceptDeliver(w) ==
  LET j == job[w] IN
  /\ j.kind = "acceptDeliver"
  /\ delivery' = [delivery EXCEPT ![j.d] = Assigned(@, j.o, j.with)]
  /\ Continue(w, Idle)
  /\ UNCHANGED <<pickup, supply, trip, production, mode, seen>>

FinishAcceptPickup(w) ==
  LET j == job[w] IN
  /\ j.kind = "acceptPickup"
  /\ pickup' = [pickup EXCEPT ![j.p] = Assigned(@, j.o, j.with)]
  /\ Continue(w, Idle)
  /\ UNCHANGED <<delivery, supply, trip, production, mode, seen>>

\* Faulty: takes both tasks whatever their status.
FaultyFinishAcceptTrip(w) ==
  LET j == job[w] IN
  /\ j.kind = "acceptTrip"
  /\ trip' = [trip EXCEPT ![j.r].status = "ACCEPTED", ![j.r].by = j.o]
  /\ delivery' = [delivery EXCEPT ![j.d] = Assigned(@, j.o, j.with)]
  /\ pickup' = [pickup EXCEPT ![j.p] = Assigned(@, j.o, j.with)]
  /\ Continue(w, Idle)
  /\ UNCHANGED <<supply, production, mode, seen>>

\* for a trip a transaction that claims the OPEN row, or fails, and then takes
\* each task that is still CREATED, one, both or none.
FinishAcceptTrip(w) ==
  LET j == job[w] IN
  /\ j.kind = "acceptTrip"
  /\ \/ /\ trip[j.r].status = "OPEN"
        /\ trip' = [trip EXCEPT ![j.r].status = "ACCEPTED", ![j.r].by = j.o]
        /\ delivery' = [delivery EXCEPT ![j.d] =
                          IF @.status = "CREATED" THEN Assigned(@, j.o, j.with) ELSE @]
        /\ pickup' = [pickup EXCEPT ![j.p] =
                        IF @.status = "CREATED" THEN Assigned(@, j.o, j.with) ELSE @]
     \/ /\ trip[j.r].status # "OPEN"
        /\ UNCHANGED <<delivery, pickup, trip>>
  /\ Continue(w, Idle)
  /\ UNCHANGED <<supply, production, mode, seen>>
-----------------------------------------------------------------------------
(* Completing.                                                             *)

BeginCompleteDeliver(w, o, d) ==
  /\ isFree(w) /\ mode[o] # "NONE"
  /\ delivery[d].op = o /\ delivery[d].status \in OpenStatus
  /\ Continue(w, [kind |-> "completeDeliver", d |-> d])
  /\ UNCHANGED <<delivery, pickup, supply, trip, production, mode, seen>>

\* The update answers with the machine; one that is not TRABALHANDO goes back to
\* work with a second update.
FinishCompleteDeliver(w) ==
  LET d == job[w].d
      m == delivery[d].machine IN
  /\ job[w].kind = "completeDeliver"
  /\ delivery' = [delivery EXCEPT ![d].status = "COMPLETED"]
  /\ Continue(w, IF production[m] = "TRABALHANDO" THEN Idle
                 ELSE [kind |-> "resume", m |-> m])
  /\ UNCHANGED <<pickup, supply, trip, production, mode, seen>>

ResumeMachine(w) ==
  LET j == job[w] IN
  /\ j.kind = "resume"
  /\ production' = [production EXCEPT ![j.m] = "TRABALHANDO"]
  /\ Continue(w, Idle)
  /\ UNCHANGED <<delivery, pickup, supply, trip, mode, seen>>

\* A pickup that nobody accepted may be completed by whoever saw it: it is then
\* assigned and completed at once, of any type, whatever else is in hand.
BeginCompletePickup(w, o, p) ==
  /\ isFree(w) /\ mode[o] # "NONE"
  /\ \/ pickup[p].op = o
     \/ pickup[p].op = NoOp /\ p \in seen.pickup
  /\ pickup[p].status \in OpenStatus
  /\ Continue(w, [kind |-> "completePickup", o |-> o, p |-> p, with |-> mode[o],
                  first |-> pickup[p].op = NoOp])
  /\ UNCHANGED <<delivery, pickup, supply, trip, production, mode, seen>>

\* After the update the accepted trip of the pickup is looked up ...
FinishCompletePickup(w) ==
  LET j == job[w]
      r == Oldest({i \in TripIds : trip[i].status = "ACCEPTED" /\ trip[i].pickup = j.p})
  IN  /\ j.kind = "completePickup"
      /\ pickup' = [pickup EXCEPT ![j.p].status = "COMPLETED", ![j.p].op = j.o,
                                  ![j.p].with = IF j.first THEN j.with ELSE @]
      /\ Continue(w, IF r = 0 THEN Idle ELSE [kind |-> "closeTrip", r |-> r])
      /\ UNCHANGED <<delivery, supply, trip, production, mode, seen>>

\* ... and closed, even when its delivery is still on its way.
CloseTrip(w) ==
  LET r == job[w].r IN
  /\ job[w].kind = "closeTrip"
  /\ trip' = [trip EXCEPT ![r].status = IF @ = "ACCEPTED" THEN "COMPLETED" ELSE @]
  /\ Continue(w, Idle)
  /\ UNCHANGED <<delivery, pickup, supply, production, mode, seen>>
-----------------------------------------------------------------------------
TransportRequest(w) ==
  \E o \in Operators :
    \/ \E m \in OperatingModes : SetMode(w, o, m)
    \/ BeginClearMode(w, o)
    \/ \E main \in BOOLEAN : BeginList(w, o, main)
    \/ \E d \in DeliveryIds : BeginAcceptDeliver(w, o, d) \/ BeginCompleteDeliver(w, o, d)
    \/ \E p \in PickupIds : BeginAcceptPickup(w, o, p) \/ BeginCompletePickup(w, o, p)
    \/ \E r \in TripIds : BeginAcceptTrip(w, o, r)

TransportStep(w) ==
  \/ FinishAcceptDeliver(w) \/ FinishAcceptPickup(w) \/ FinishAcceptTrip(w)
  \/ FinishCompleteDeliver(w) \/ ResumeMachine(w)
  \/ FinishCompletePickup(w) \/ CloseTrip(w)
  \/ FinishClearMode(w)
=============================================================================
