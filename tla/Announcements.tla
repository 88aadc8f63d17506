----------------------------- MODULE Announcements -----------------------------
(***************************************************************************)
(* What the services tell the screens.  A request is the sequence of its   *)
(* steps as a screen can notice them: a write, with the queries whose      *)
(* answer it may change, and a burst of events.                            *)
(***************************************************************************)
EXTENDS Sequences, WsFilters

CONSTANTS
  TaskTypes,      \* TypeMovimentPallet
  ThisSector, ThisMachine, ItsOperator   \* where it all happens, and who is bound there

\* The queries of the screens that read the tasks (TanStack Query keys).
Queries == {"trip-suggestions", "replenishment-queue", "my-tasks",    \* transporter
            "machine-tasks",                                          \* machine operator
            "replenishment-requests"}                                 \* supply desk

QueuesOfTransport == {"trip-suggestions", "replenishment-queue"}

sectorEvent(type, t) ==
  [type |-> type, sector |-> ThisSector, moviment |-> t, status |-> NONE,
   dest |-> NONE, operator |-> NONE, machine |-> NONE, affected |-> NONE]

taskEvent(type, t, status, dest) ==
  [sectorEvent(type, t) EXCEPT !.status = status, !.dest = dest, !.machine = ThisMachine]
-----------------------------------------------------------------------------
(* The hub's broadcasts.                                                   *)

deliveryTaskCreated(t)    == sectorEvent("delivery_task_created", t)
queueUpdated(t)           == sectorEvent("delivery_queue_updated", t)
tripSuggestionsUpdated(t) == sectorEvent("trip_suggestions_updated", t)
supplyRequestCreated ==
  [sectorEvent("operator_supply_request_created", NONE) EXCEPT !.machine = ThisMachine]
productionStatusUpdated ==
  [sectorEvent("machine_production_status_updated", NONE)
     EXCEPT !.machine = ThisMachine, !.dest = ItsOperator, !.operator = ItsOperator]

NotifyDeliveryTaskChange(t, status, prepared) ==
  <<taskEvent("delivery_task_updated", t, status, ItsOperator)>> \o
  CASE status = "CREATED" /\ prepared ->
         <<deliveryTaskCreated(t), tripSuggestionsUpdated(t)>>
    [] status \in {"ASSIGNED", "COMPLETED"} -> <<tripSuggestionsUpdated(t)>>
    [] OTHER -> << >>

\* The destination is the machine's operator, or the transporter whose work changed.
NotifyPickupTaskChange(t, status, dest) ==
  <<taskEvent("pickup_task_updated", t, status, dest)>> \o
  IF status \in {"ASSIGNED", "COMPLETED"}
  THEN <<tripSuggestionsUpdated(t), queueUpdated(t)>>
  ELSE << >>
-----------------------------------------------------------------------------
(* The requests; writes in a row count as one.                             *)

write(queries, types) == [do |-> "write", queries |-> queries, types |-> types]
tell(events)          == [do |-> "tell", events |-> events]

\* tellsQueue: the pallet is ready, or a pickup was bound to the delivery.
createReplenishment(t, tellsQueue) ==
  LET shown == {"machine-tasks", "replenishment-requests"} IN
  <<write(IF tellsQueue THEN shown \cup QueuesOfTransport ELSE shown, {t}),
    tell(<<deliveryTaskCreated(t)>>
         \o IF tellsQueue THEN <<queueUpdated(t), tripSuggestionsUpdated(t)>> ELSE << >>)>>

\* The type may change from `from` to t.
updateDeliveryTask(from, t, prepared) ==
  <<write(QueuesOfTransport \cup {"machine-tasks", "replenishment-requests"}, {from, t}),
    tell(NotifyDeliveryTaskChange(t, "CREATED", prepared)
         \o <<queueUpdated(t), tripSuggestionsUpdated(t)>>)>>

\* Faulty: everything is told before the pickup is bound.
FaultyMarkPrepared(t) ==
  <<write({"machine-tasks", "replenishment-requests"} \cup QueuesOfTransport, {t}),
    tell(NotifyDeliveryTaskChange(t, "CREATED", TRUE)
         \o <<queueUpdated(t), tripSuggestionsUpdated(t)>>),
    write(QueuesOfTransport, {t})>>

\* The second write binds the pickup and makes the suggestion.
markDeliveryTaskPrepared(t) ==
  <<write({"machine-tasks", "replenishment-requests"} \cup QueuesOfTransport, {t}),
    tell(NotifyDeliveryTaskChange(t, "CREATED", TRUE)),
    write(QueuesOfTransport, {t}),
    tell(<<queueUpdated(t), tripSuggestionsUpdated(t)>>)>>

\* The desk releases the machine, or puts it back to work.
updateProductionStatus ==
  <<write(QueuesOfTransport \cup {"replenishment-requests"}, TaskTypes),
    tell(<<productionStatusUpdated>>)>>

\* What became of a pickup and a supply request that were linked: CREATED, ASSIGNED (the
\* pickup was accepted before), or JOINED (it joined a delivery on its way).
Outcomes == {"CREATED", "ASSIGNED", "JOINED"}

\* Every event carries the type of the pickup.  The transporter is named in it, but the
\* events of one who drives something else are filtered by type all the same.
applyLinkOutcome(t, outcome) ==
  CASE outcome = "CREATED" ->
         NotifyPickupTaskChange(t, "CREATED", ItsOperator) \o <<tripSuggestionsUpdated(t)>>
    [] outcome = "ASSIGNED" ->
         NotifyPickupTaskChange(t, "ASSIGNED", NONE) \o <<tripSuggestionsUpdated(t)>>
    [] outcome = "JOINED" ->
         NotifyPickupTaskChange(t, "ASSIGNED", NONE)
         \o <<tripSuggestionsUpdated(t), queueUpdated(t)>>

\* A new link to a waiting delivery makes a pair, which is listed by the type d of the
\* delivery; the pickup alone was listed by its own.
ListedUnder(t, outcome, d) == IF outcome = "CREATED" THEN {t, d} ELSE {t}

\* A pickup that joins is in its transporter's hands, whatever its type.
joinedWork(outcome) == IF outcome = "JOINED" THEN <<write({"my-tasks"}, TaskTypes)>> ELSE << >>

\* Without a link the outcome is NONE; d is the type of the delivery it is linked to.
requestPickupOnly(t, outcome, d) ==
  <<write({"machine-tasks"} \cup QueuesOfTransport, ListedUnder(t, outcome, d))>>
  \o joinedWork(outcome) \o
  <<tell(IF outcome = NONE THEN NotifyPickupTaskChange(t, "CREATED", ItsOperator)
         ELSE applyLinkOutcome(t, outcome))>>

\* The pickup t was there first; nothing is on its way for the new supply request.
requestSupplyOnly(t, outcome) ==
  <<write({"replenishment-requests", "machine-tasks"}, {}), tell(<<supplyRequestCreated>>)>> \o
  IF outcome = NONE THEN << >>
  ELSE <<write({"machine-tasks"} \cup IF outcome = "CREATED" THEN QueuesOfTransport ELSE {}, {t}),
         tell(applyLinkOutcome(t, outcome))>>

requestPickupWithReplenishment(t) ==
  <<write({"machine-tasks", "replenishment-requests"}, {t}),
    tell(NotifyPickupTaskChange(t, "CREATED", ItsOperator) \o <<supplyRequestCreated>>)>>

\* The listing links what was left without a link.
listMachineTasks(t, outcome, d) ==
  <<write({"machine-tasks"} \cup QueuesOfTransport, ListedUnder(t, outcome, d))>>
  \o joinedWork(outcome) \o
  <<tell(applyLinkOutcome(t, outcome))>>

\* What goes with a pickup that is cancelled: nothing, its supply request (OPEN), the
\* delivery that fulfilled it, or their pair only, since the pallet is ready by now.
Drops == {NONE, "REQUEST", "DELIVERY", "PALLET"}

\* The delivery has the type d; a pair that falls apart leaves it in the list of d alone.
cancelPickupRequest(t, drops, d) ==
  <<write(QueuesOfTransport \cup {"machine-tasks"} \cup
          IF drops \in {"REQUEST", "DELIVERY"} THEN {"replenishment-requests"} ELSE {},
          IF drops = "PALLET" THEN {t, d} ELSE {t}),
    tell(NotifyPickupTaskChange(t, "CANCELED", ItsOperator)
         \o (IF drops = "DELIVERY" THEN NotifyDeliveryTaskChange(d, "CANCELED", FALSE) ELSE << >>)
         \o <<queueUpdated(t), tripSuggestionsUpdated(t)>>)>>

\* The pickup of a trip may be of another type than its delivery.
acceptTripRouteSuggestion(t, pickupType) ==
  <<write(QueuesOfTransport \cup {"my-tasks", "machine-tasks", "replenishment-requests"}, {t}),
    tell(NotifyDeliveryTaskChange(t, "ASSIGNED", TRUE)
         \o NotifyPickupTaskChange(pickupType, "ASSIGNED", ItsOperator))>>

acceptOpenDeliverTask(t) ==
  <<write(QueuesOfTransport \cup {"my-tasks", "machine-tasks", "replenishment-requests"}, {t}),
    tell(NotifyDeliveryTaskChange(t, "ASSIGNED", TRUE))>>

\* A pickup taken by its id may leave a pair, and with it the delivery of type d.
acceptOpenPickupTask(t, d) ==
  <<write(QueuesOfTransport \cup {"my-tasks", "machine-tasks"}, {t, d}),
    tell(NotifyPickupTaskChange(t, "ASSIGNED", ItsOperator))>>

\* The machine, if it was released, goes back to work in a second write.
completeDeliverTask(t, released) ==
  <<write({"my-tasks", "machine-tasks", "replenishment-requests"}, {t}),
    tell(NotifyDeliveryTaskChange(t, "COMPLETED", TRUE))>>
  \o IF released THEN updateProductionStatus ELSE << >>

\* A pickup may be completed without having been accepted.
completePickupTask(t, d) ==
  <<write(QueuesOfTransport \cup {"my-tasks", "machine-tasks"}, {t, d}),
    tell(NotifyPickupTaskChange(t, "COMPLETED", ItsOperator))>>

\* The machines a transporter serves first: nobody is told.
replaceMovimentOperatorMachineLinks ==
  <<write(QueuesOfTransport, TaskTypes)>>

\* Each as it runs when no request before it was cut short.
Requests ==
  {updateProductionStatus, replaceMovimentOperatorMachineLinks}
  \cup {createReplenishment(t, b) : t \in TaskTypes, b \in BOOLEAN}
  \cup {updateDeliveryTask(f, t, b) : f \in TaskTypes, t \in TaskTypes, b \in BOOLEAN}
  \cup {requestPickupOnly(t, x, d) :
          t \in TaskTypes, x \in {NONE, "CREATED", "JOINED"}, d \in TaskTypes}
  \cup {requestSupplyOnly(t, x) : t \in TaskTypes, x \in {NONE, "CREATED", "ASSIGNED"}}
  \cup {listMachineTasks(t, x, d) : t \in TaskTypes, x \in Outcomes, d \in TaskTypes}
  \cup {cancelPickupRequest(t, x, d) : t \in TaskTypes, x \in Drops, d \in TaskTypes}
  \cup {acceptTripRouteSuggestion(t, p) : t \in TaskTypes, p \in TaskTypes}
  \cup {completeDeliverTask(t, b) : t \in TaskTypes, b \in BOOLEAN}
  \cup {acceptOpenPickupTask(t, d) : t \in TaskTypes, d \in TaskTypes}
  \cup {completePickupTask(t, d) : t \in TaskTypes, d \in TaskTypes}
  \cup UNION {{markDeliveryTaskPrepared(t), requestPickupWithReplenishment(t),
               acceptOpenDeliverTask(t)} : t \in TaskTypes}
=============================================================================
