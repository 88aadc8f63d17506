---------------------------- MODULE RealtimeProofs ----------------------------
(***************************************************************************)
(* For any number of sockets, requests, faults and reruns, and for any     *)
(* requests of the services: a device is always on its way to a            *)
(* connection, is told of what changes but for four kinds, its lists   *)
(* are out of date only for a reason, and the machine's list shows nothing *)
(* that was never true.                                                    *)
(***************************************************************************)
EXTENDS Realtime, FiniteSetTheorems, SequenceTheorems, TLAPS

(* The requests are sequences of writes and bursts of well-formed events.   *)

EventTypes ==
  {"delivery_task_created", "delivery_queue_updated", "trip_suggestions_updated",
   "operator_supply_request_created", "machine_production_status_updated"} \cup TaskUpdated

Statuses == {NONE, "CREATED", "ASSIGNED", "COMPLETED", "CANCELED"}

Event ==
  [type : EventTypes, sector : {ThisSector}, moviment : TaskTypes \cup {NONE},
   status : Statuses, dest : {NONE, ItsOperator}, operator : {NONE, ItsOperator},
   machine : {NONE, ThisMachine}, affected : {NONE}]

Writes == [do : {"write"}, queries : SUBSET Queries, types : SUBSET TaskTypes]
Tells  == [do : {"tell"}, events : Seq(Event)]
Step   == Writes \cup Tells

LEMMA EventsAreEvents ==
  ASSUME NEW t \in TaskTypes
  PROVE  /\ \A status \in Statuses, dest \in {NONE, ItsOperator} :
              /\ taskEvent("delivery_task_updated", t, status, dest) \in Event
              /\ taskEvent("pickup_task_updated", t, status, dest) \in Event
         /\ deliveryTaskCreated(t) \in Event
         /\ queueUpdated(t) \in Event
         /\ tripSuggestionsUpdated(t) \in Event
         /\ supplyRequestCreated \in Event
<1>1. ASSUME NEW type \in EventTypes, NEW m \in TaskTypes \cup {NONE}
      PROVE  sectorEvent(type, m) \in Event
  BY DEF sectorEvent, Event, Statuses
<1>2. ASSUME NEW type \in EventTypes, NEW status \in Statuses, NEW dest \in {NONE, ItsOperator}
      PROVE  taskEvent(type, t, status, dest) \in Event
  <2>1. sectorEvent(type, t) \in Event
    BY <1>1
  <2> QED BY <2>1 DEF taskEvent, Event
<1>3. {"delivery_task_updated", "pickup_task_updated", "delivery_task_created",
       "delivery_queue_updated", "trip_suggestions_updated",
       "operator_supply_request_created", "machine_production_status_updated"} \subseteq EventTypes
  BY DEF EventTypes, TaskUpdated
<1>4. supplyRequestCreated \in Event
  <2>1. sectorEvent("operator_supply_request_created", NONE) \in Event
    BY <1>1, <1>3
  <2> QED BY <2>1 DEF supplyRequestCreated, Event
<1> QED
  BY <1>1, <1>2, <1>3, <1>4 DEF deliveryTaskCreated, queueUpdated, tripSuggestionsUpdated

LEMMA ProductionIsEvent == productionStatusUpdated \in Event
<1>1. sectorEvent("machine_production_status_updated", NONE) \in Event
  BY DEF sectorEvent, Event, Statuses, EventTypes
<1> QED BY <1>1 DEF productionStatusUpdated, Event

\* Short sequences, and their concatenation.
LEMMA ShortSequences ==
  ASSUME NEW S
  PROVE  /\ << >> \in Seq(S)
         /\ \A a \in S : <<a>> \in Seq(S)
         /\ \A a, b \in S : <<a, b>> \in Seq(S)
         /\ \A a, b, c, d \in S : <<a, b, c, d>> \in Seq(S)
         /\ \A s, t \in Seq(S) : s \o t \in Seq(S)
<1>1. << >> \in Seq(S)
  OBVIOUS
<1>2. \A a \in S : <<a>> \in Seq(S)
  OBVIOUS
<1>3. \A a, b \in S : <<a, b>> \in Seq(S)
  OBVIOUS
<1>4. \A a, b, c, d \in S : <<a, b, c, d>> \in Seq(S)
  OBVIOUS
<1>5. \A s, t \in Seq(S) : s \o t \in Seq(S)
  OBVIOUS
<1> QED BY <1>1, <1>2, <1>3, <1>4, <1>5

\* What the hub's broadcasts of a task make.
LEMMA ChangesAreEvents ==
  ASSUME NEW t \in TaskTypes, NEW status \in Statuses
  PROVE  /\ \A prepared \in BOOLEAN : NotifyDeliveryTaskChange(t, status, prepared) \in Seq(Event)
         /\ \A dest \in {NONE, ItsOperator} : NotifyPickupTaskChange(t, status, dest) \in Seq(Event)
<1>1. ASSUME NEW prepared \in BOOLEAN
      PROVE  NotifyDeliveryTaskChange(t, status, prepared) \in Seq(Event)
  <2>1. <<taskEvent("delivery_task_updated", t, status, ItsOperator)>> \in Seq(Event)
    BY EventsAreEvents, ShortSequences
  <2>2. /\ <<deliveryTaskCreated(t), tripSuggestionsUpdated(t)>> \in Seq(Event)
        /\ <<tripSuggestionsUpdated(t)>> \in Seq(Event)
        /\ << >> \in Seq(Event)
    BY EventsAreEvents, ShortSequences
  <2> QED BY <2>1, <2>2, ShortSequences DEF NotifyDeliveryTaskChange
<1>2. ASSUME NEW dest \in {NONE, ItsOperator}
      PROVE  NotifyPickupTaskChange(t, status, dest) \in Seq(Event)
  <2>1. <<taskEvent("pickup_task_updated", t, status, dest)>> \in Seq(Event)
    BY EventsAreEvents, ShortSequences
  <2>2. <<tripSuggestionsUpdated(t), queueUpdated(t)>> \in Seq(Event) /\ << >> \in Seq(Event)
    BY EventsAreEvents, ShortSequences
  <2> QED BY <2>1, <2>2, ShortSequences DEF NotifyPickupTaskChange
<1> QED BY <1>1, <1>2

LEMMA OutcomesAreEvents ==
  ASSUME NEW t \in TaskTypes, NEW outcome \in Outcomes
  PROVE  applyLinkOutcome(t, outcome) \in Seq(Event)
<1>1. /\ <<tripSuggestionsUpdated(t)>> \in Seq(Event)
      /\ <<tripSuggestionsUpdated(t), queueUpdated(t)>> \in Seq(Event)
  BY EventsAreEvents, ShortSequences
<1>2. /\ NotifyPickupTaskChange(t, "CREATED", ItsOperator) \in Seq(Event)
      /\ NotifyPickupTaskChange(t, "ASSIGNED", NONE) \in Seq(Event)
  BY ChangesAreEvents DEF Statuses
<1> QED BY <1>1, <1>2, ShortSequences DEF applyLinkOutcome, Outcomes

LEMMA StepsAreSteps ==
  /\ \A queries \in SUBSET Queries, types \in SUBSET TaskTypes : write(queries, types) \in Step
  /\ \A events \in Seq(Event) : tell(events) \in Step
BY DEF write, tell, Step, Writes, Tells

\* A request is a sequence of writes and bursts of events.
LEMMA RequestsAreSteps == Requests \subseteq Seq(Step)
<1> USE DEF Queries, QueuesOfTransport
<1>1. updateProductionStatus \in Seq(Step)
  <2>1. <<productionStatusUpdated>> \in Seq(Event)
    BY ProductionIsEvent, ShortSequences
  <2> QED BY <2>1, StepsAreSteps, ShortSequences DEF updateProductionStatus
<1>2. replaceMovimentOperatorMachineLinks \in Seq(Step)
  BY StepsAreSteps, ShortSequences DEF replaceMovimentOperatorMachineLinks
<1>3. ASSUME NEW t \in TaskTypes, NEW b \in BOOLEAN
      PROVE  createReplenishment(t, b) \in Seq(Step)
  <2>1. <<deliveryTaskCreated(t)>> \o
        (IF b THEN <<queueUpdated(t), tripSuggestionsUpdated(t)>> ELSE << >>) \in Seq(Event)
    BY EventsAreEvents, ShortSequences
  <2> QED BY <2>1, StepsAreSteps, ShortSequences DEF createReplenishment
<1>4. ASSUME NEW f \in TaskTypes, NEW t \in TaskTypes, NEW b \in BOOLEAN
      PROVE  updateDeliveryTask(f, t, b) \in Seq(Step)
  <2>1. NotifyDeliveryTaskChange(t, "CREATED", b)
        \o <<queueUpdated(t), tripSuggestionsUpdated(t)>> \in Seq(Event)
    BY ChangesAreEvents, EventsAreEvents, ShortSequences DEF Statuses
  <2> QED BY <2>1, StepsAreSteps, ShortSequences DEF updateDeliveryTask
<1>5. \A outcome : joinedWork(outcome) \in Seq(Step)
  BY StepsAreSteps, ShortSequences DEF joinedWork
<1>6. ASSUME NEW t \in TaskTypes, NEW x \in {NONE, "CREATED", "JOINED"}, NEW d \in TaskTypes
      PROVE  requestPickupOnly(t, x, d) \in Seq(Step)
  <2>1. (IF x = NONE THEN NotifyPickupTaskChange(t, "CREATED", ItsOperator)
         ELSE applyLinkOutcome(t, x)) \in Seq(Event)
    BY ChangesAreEvents, OutcomesAreEvents DEF Statuses, Outcomes
  <2> QED BY <1>5, <2>1, StepsAreSteps, ShortSequences DEF requestPickupOnly, ListedUnder
<1>7. ASSUME NEW t \in TaskTypes, NEW x \in {NONE, "CREATED", "ASSIGNED"}
      PROVE  requestSupplyOnly(t, x) \in Seq(Step)
  <2>1. <<supplyRequestCreated>> \in Seq(Event)
    BY EventsAreEvents, ShortSequences
  <2>2. x # NONE => applyLinkOutcome(t, x) \in Seq(Event)
    BY OutcomesAreEvents DEF Outcomes
  <2>3. x # NONE => <<write({"machine-tasks"} \cup IF x = "CREATED" THEN QueuesOfTransport ELSE {}, {t}),
                      tell(applyLinkOutcome(t, x))>> \in Seq(Step)
    BY <2>2, StepsAreSteps, ShortSequences
  <2>4. <<write({"replenishment-requests", "machine-tasks"}, {}), tell(<<supplyRequestCreated>>)>> \in Seq(Step)
    BY <2>1, StepsAreSteps, ShortSequences
  <2> QED BY <2>3, <2>4, ShortSequences DEF requestSupplyOnly
<1>8. ASSUME NEW t \in TaskTypes, NEW x \in Outcomes, NEW d \in TaskTypes
      PROVE  listMachineTasks(t, x, d) \in Seq(Step)
  <2>1. applyLinkOutcome(t, x) \in Seq(Event)
    BY OutcomesAreEvents
  <2> QED BY <1>5, <2>1, StepsAreSteps, ShortSequences DEF listMachineTasks, ListedUnder
<1>9. ASSUME NEW t \in TaskTypes, NEW x \in Drops, NEW d \in TaskTypes
      PROVE  cancelPickupRequest(t, x, d) \in Seq(Step)
  <2>1. NotifyPickupTaskChange(t, "CANCELED", ItsOperator)
        \o (IF x = "DELIVERY" THEN NotifyDeliveryTaskChange(d, "CANCELED", FALSE) ELSE << >>)
        \o <<queueUpdated(t), tripSuggestionsUpdated(t)>> \in Seq(Event)
    BY ChangesAreEvents, EventsAreEvents, ShortSequences DEF Statuses
  <2> QED BY <2>1, StepsAreSteps, ShortSequences DEF cancelPickupRequest
<1>10. ASSUME NEW t \in TaskTypes, NEW p \in TaskTypes
       PROVE  acceptTripRouteSuggestion(t, p) \in Seq(Step)
  <2>1. NotifyDeliveryTaskChange(t, "ASSIGNED", TRUE)
        \o NotifyPickupTaskChange(p, "ASSIGNED", ItsOperator) \in Seq(Event)
    BY ChangesAreEvents, ShortSequences DEF Statuses
  <2> QED BY <2>1, StepsAreSteps, ShortSequences DEF acceptTripRouteSuggestion
<1>11. ASSUME NEW t \in TaskTypes, NEW b \in BOOLEAN
       PROVE  completeDeliverTask(t, b) \in Seq(Step)
  <2>1. NotifyDeliveryTaskChange(t, "COMPLETED", TRUE) \in Seq(Event)
    BY ChangesAreEvents DEF Statuses
  <2>2. <<write({"my-tasks", "machine-tasks", "replenishment-requests"}, {t}),
          tell(NotifyDeliveryTaskChange(t, "COMPLETED", TRUE))>> \in Seq(Step)
    BY <2>1, StepsAreSteps, ShortSequences
  <2> QED BY <1>1, <2>2, ShortSequences DEF completeDeliverTask
<1>12. ASSUME NEW t \in TaskTypes
       PROVE  markDeliveryTaskPrepared(t) \in Seq(Step)
  <2>1. /\ NotifyDeliveryTaskChange(t, "CREATED", TRUE) \in Seq(Event)
        /\ <<queueUpdated(t), tripSuggestionsUpdated(t)>> \in Seq(Event)
    BY ChangesAreEvents, EventsAreEvents, ShortSequences DEF Statuses
  <2> QED BY <2>1, StepsAreSteps, ShortSequences DEF markDeliveryTaskPrepared
<1>13. ASSUME NEW t \in TaskTypes
       PROVE  requestPickupWithReplenishment(t) \in Seq(Step)
  <2>1. NotifyPickupTaskChange(t, "CREATED", ItsOperator) \o <<supplyRequestCreated>> \in Seq(Event)
    BY ChangesAreEvents, EventsAreEvents, ShortSequences DEF Statuses
  <2> QED BY <2>1, StepsAreSteps, ShortSequences DEF requestPickupWithReplenishment
<1>14. ASSUME NEW t \in TaskTypes, NEW d \in TaskTypes
       PROVE  /\ acceptOpenDeliverTask(t) \in Seq(Step)
              /\ acceptOpenPickupTask(t, d) \in Seq(Step)
              /\ completePickupTask(t, d) \in Seq(Step)
  <2>1. /\ NotifyDeliveryTaskChange(t, "ASSIGNED", TRUE) \in Seq(Event)
        /\ NotifyPickupTaskChange(t, "ASSIGNED", ItsOperator) \in Seq(Event)
        /\ NotifyPickupTaskChange(t, "COMPLETED", ItsOperator) \in Seq(Event)
    BY ChangesAreEvents DEF Statuses
  <2> QED BY <2>1, StepsAreSteps, ShortSequences
          DEF acceptOpenDeliverTask, acceptOpenPickupTask, completePickupTask
<1>15. SUFFICES ASSUME NEW r \in Requests PROVE r \in Seq(Step)
  OBVIOUS
<1>16. CASE r \in {updateProductionStatus, replaceMovimentOperatorMachineLinks}
  BY <1>1, <1>2, <1>16
<1>17. CASE r \in {createReplenishment(t, b) : t \in TaskTypes, b \in BOOLEAN}
  BY <1>3, <1>17
<1>18. CASE r \in {updateDeliveryTask(f, t, b) : f \in TaskTypes, t \in TaskTypes, b \in BOOLEAN}
  BY <1>4, <1>18
<1>19. CASE r \in {requestPickupOnly(t, x, d) :
                     t \in TaskTypes, x \in {NONE, "CREATED", "JOINED"}, d \in TaskTypes}
  BY <1>6, <1>19
<1>20. CASE r \in {requestSupplyOnly(t, x) : t \in TaskTypes, x \in {NONE, "CREATED", "ASSIGNED"}}
  BY <1>7, <1>20
<1>21. CASE r \in {listMachineTasks(t, x, d) : t \in TaskTypes, x \in Outcomes, d \in TaskTypes}
  BY <1>8, <1>21
<1>22. CASE r \in {cancelPickupRequest(t, x, d) : t \in TaskTypes, x \in Drops, d \in TaskTypes}
  BY <1>9, <1>22
<1>23. CASE r \in {acceptTripRouteSuggestion(t, p) : t \in TaskTypes, p \in TaskTypes}
  BY <1>10, <1>23
<1>24. CASE r \in {completeDeliverTask(t, b) : t \in TaskTypes, b \in BOOLEAN}
  BY <1>11, <1>24
<1>25. CASE r \in UNION {{markDeliveryTaskPrepared(t), requestPickupWithReplenishment(t),
                            acceptOpenDeliverTask(t)} : t \in TaskTypes}
  BY <1>12, <1>13, <1>14, <1>25
<1>26. CASE r \in {acceptOpenPickupTask(t, d) : t \in TaskTypes, d \in TaskTypes}
  BY <1>14, <1>26
<1>27. CASE r \in {completePickupTask(t, d) : t \in TaskTypes, d \in TaskTypes}
  BY <1>14, <1>27
<1> QED
  BY <1>15, <1>16, <1>17, <1>18, <1>19, <1>20, <1>21, <1>22, <1>23, <1>24, <1>25, <1>26, <1>27,
     SMTT(60) DEF Requests

-----------------------------------------------------------------------------
\* The numbers of a finite set, in their order: each of them comes once.
LEMMA NumbersInOrder ==
  ASSUME NEW n \in Nat, NEW at \in SUBSET (1..n)
  PROVE  /\ Cardinality(at) \in Nat
         /\ \A k \in 1..Cardinality(at) : NthOf(at, k) \in at
         /\ \A i \in at : \E k \in 1..Cardinality(at) : NthOf(at, k) = i
<1> DEFINE UpTo(i) == {j \in at : j <= i}
           rank    == [i \in at |-> Cardinality(UpTo(i))]
           ranks   == 1..Cardinality(at)
<1>1. IsFiniteSet(at) /\ Cardinality(at) \in Nat
  <2>1. IsFiniteSet(1..n)
    BY FS_Interval
  <2> QED BY <2>1, FS_Subset, FS_CardinalityType
<1>2. ASSUME NEW i \in at
      PROVE  IsFiniteSet(UpTo(i)) /\ Cardinality(UpTo(i)) \in ranks
  <2>1. UpTo(i) \in SUBSET at
    OBVIOUS
  <2>2. IsFiniteSet(UpTo(i)) /\ Cardinality(UpTo(i)) <= Cardinality(at)
    BY <1>1, <2>1, FS_Subset
  <2>3. Cardinality(UpTo(i)) \in Nat
    BY <2>2, FS_CardinalityType
  <2>4. i \in UpTo(i)
    OBVIOUS
  <2>5. Cardinality(UpTo(i)) # 0
    BY <2>2, <2>4, FS_EmptySet
  <2> QED BY <1>1, <2>2, <2>3, <2>5
<1>3. ASSUME NEW i \in at, NEW j \in at, i < j
      PROVE  Cardinality(UpTo(i)) # Cardinality(UpTo(j))
  <2>1. UpTo(i) \in SUBSET UpTo(j)
    <3>1. i \in Int /\ j \in Int /\ \A k \in at : k \in Int
      OBVIOUS
    <3>2. \A k \in at : k <= i => k <= j
      BY <1>3, <3>1
    <3> QED BY <3>2
  <2>2. j \in UpTo(j) /\ j \notin UpTo(i)
    BY <1>3
  <2> QED BY <1>2, <2>1, <2>2, FS_Subset
<1>4. \A i, j \in at : Cardinality(UpTo(i)) = Cardinality(UpTo(j)) => i = j
  <2>1. \A i, j \in at : i = j \/ i < j \/ j < i
    OBVIOUS
  <2> QED BY <1>3, <2>1
<1>5. rank \in Surjection(at, ranks)
  <2>1. rank \in Injection(at, ranks)
    BY <1>2, <1>4 DEF Injection, IsInjective
  <2>2. IsFiniteSet(ranks) /\ Cardinality(ranks) = Cardinality(at)
    BY <1>1, FS_Interval
  <2> HIDE DEF rank, ranks
  <2> QED BY <2>1, <2>2, FS_Injection
<1>6. ASSUME NEW k \in ranks
      PROVE  NthOf(at, k) \in at /\ Cardinality(UpTo(NthOf(at, k))) = k
  <2>1. \E i \in at : rank[i] = k
    BY <1>5 DEF Surjection
  <2>2. \E i \in at : Cardinality(UpTo(i)) = k
    BY <2>1
  <2> QED BY <2>2 DEF NthOf
<1>7. ASSUME NEW i \in at
      PROVE  \E k \in ranks : NthOf(at, k) = i
  <2>1. Cardinality(UpTo(i)) \in ranks
    BY <1>2
  <2> HIDE DEF UpTo, ranks
  <2> QED BY <1>4, <1>6, <2>1
<1> QED BY <1>1, <1>6, <1>7

-----------------------------------------------------------------------------
(* The device.  Of a list that is fetched at every event either a reason    *)
(* is known why it may be out of date, or the device is up to date or will  *)
(* ask.                                                                     *)

Message == [event : Event, row : Nat]

\* The types of what the device's data depends on.
Known ==
  /\ db \in [Queries -> Nat]
  /\ request \in [Slots -> [steps : Seq(Step), row : Nat]]
  /\ wire \in [Sockets -> Seq(Message)]
  /\ view \in [Queries -> Nat \cup {-1}]
  /\ fetch \in [Queries -> Nat \cup {IDLE, SENT}]
  /\ debounce \in [Queries -> BOOLEAN] /\ lapse \in [Queries -> BOOLEAN]

\* No version is known anywhere before it is there.
NotAhead ==
  /\ \A q \in Queries : view[q] <= db[q] /\ fetch[q] <= db[q]
  /\ \A w \in Slots : request[w].row <= db["machine-tasks"]
  /\ \A s \in Sockets : \A i \in DOMAIN wire[s] : wire[s][i].row <= db["machine-tasks"]

\* Reasons to fetch again: an event on its way, one that a request will tell.
OnWire(q)   == \E s \in Sockets : \E i \in DOMAIN wire[s] : q \in Concerned(wire[s][i].event)
ToBeTold(q) == \E w \in Slots : q \in WillHear(request[w].steps)
Current(q)  == fetch[q] = db[q] \/ (fetch[q] = IDLE /\ view[q] = db[q])

Settled(q) ==
  lapse[q] \/ fetch[q] = SENT \/ debounce[q] \/ OnWire(q) \/ ToBeTold(q) \/ Current(q)

CaughtUp == \A q \in QueriesOf(me.role) \ {"machine-tasks"} : Settled(q)

Device == Known /\ NotAhead /\ CaughtUp

\* Whatever is true, a device is concerned with its own lists only.
LEMMA MineAreQueries ==
  /\ \A role : QueriesOf(role) \subseteq Queries
  /\ \A e : Concerned(e) \subseteq QueriesOf(me.role)
<1>1. ASSUME NEW role PROVE QueriesOf(role) \subseteq Queries
  BY DEF QueriesOf, Queries, QueuesOfTransport
<1>2. ASSUME NEW e PROVE Concerned(e) \subseteq QueriesOf(me.role)
  BY DEF Concerned
<1> QED BY <1>1, <1>2

LEMMA HearsWhat ==
  ASSUME NEW steps, NEW q
  PROVE  q \in WillHear(steps) <=>
           \E i \in DOMAIN steps : steps[i].do = "tell" /\
             \E k \in DOMAIN steps[i].events :
               shouldSendToClient(me, steps[i].events[k]) /\ q \in Concerned(steps[i].events[k])
BY DEF WillHear

LEMMA HearsNothing == WillHear(<< >>) = {}
BY DEF WillHear

\* What was to be told before a step of a request is told by it or still to be told.
LEMMA HearsLater ==
  ASSUME NEW steps \in Seq(Step), steps # << >>, NEW q \in WillHear(steps)
  PROVE  \/ q \in WillHear(Tail(steps))
         \/ /\ Head(steps).do = "tell"
            /\ \E k \in DOMAIN Head(steps).events :
                 /\ shouldSendToClient(me, Head(steps).events[k])
                 /\ q \in Concerned(Head(steps).events[k])
<1>1. PICK i \in DOMAIN steps : steps[i].do = "tell" /\
        \E k \in DOMAIN steps[i].events :
          shouldSendToClient(me, steps[i].events[k]) /\ q \in Concerned(steps[i].events[k])
  BY HearsWhat
<1>2. CASE i = 1
  BY <1>1, <1>2
<1>3. CASE i # 1
  <2>1. i - 1 \in DOMAIN Tail(steps) /\ Tail(steps)[i - 1] = steps[i]
    BY <1>3
  <2> QED BY <1>1, <2>1, HearsWhat
<1> QED BY <1>2, <1>3

\* The user of the device stays the same, so do the filters.
LEMMA SameEars ==
  ASSUME me' = me
  PROVE  /\ QueriesOf(me.role)' = QueriesOf(me.role)
         /\ \A e : Concerned(e)' = Concerned(e)
         /\ \A steps : WillHear(steps)' = WillHear(steps)
<1>1. \A e : Concerned(e)' = Concerned(e)
  BY DEF Concerned, InvalidatedLater, InvalidatedNow, Patched
<1>2. \A steps : WillHear(steps)' = WillHear(steps)
  BY <1>1 DEF WillHear
<1> QED BY <1>1, <1>2

LEMMA DeviceStays ==
  ASSUME Device, UNCHANGED <<me, db, request, wire, device>> PROVE Device'
<1>1. UNCHANGED <<view, fetch, debounce, lapse>>
  BY DEF device
<1>2. Known' /\ NotAhead'
  BY <1>1 DEF Device, Known, NotAhead
<1>3. CaughtUp'
  BY <1>1, SameEars DEF Device, CaughtUp, Settled, OnWire, ToBeTold, Current
<1> QED BY <1>2, <1>3 DEF Device

\* The lists of the device are being fetched.
LEMMA InitDevice == Init => Device
<1> SUFFICES ASSUME Init PROVE Device
  OBVIOUS
<1>1. /\ db = [q \in Queries |-> 0]
      /\ request = [w \in Slots |-> [steps |-> << >>, row |-> 0]]
      /\ wire = [s \in Sockets |-> << >>]
      /\ view = [q \in Queries |-> IF isMine(q) THEN -1 ELSE 0]
      /\ fetch = [q \in Queries |-> IF isMine(q) THEN SENT ELSE IDLE]
      /\ debounce = [q \in Queries |-> FALSE]
      /\ lapse = [q \in Queries |-> FALSE]
  BY DEF Init
<1>2. Known
  BY <1>1 DEF Known, Message
<1>3. NotAhead
  BY <1>1 DEF NotAhead, IDLE, SENT, Queries
<1>4. CaughtUp
  BY <1>1, MineAreQueries DEF CaughtUp, Settled, isMine
<1> QED BY <1>2, <1>3, <1>4 DEF Device

LEMMA BeginDevice ==
  ASSUME Device, NEW w \in Slots, NEW r \in Served, Begin(w, r) PROVE Device'
<1>1. /\ request[w].steps = << >>
      /\ request' = [request EXCEPT ![w].steps = r]
      /\ UNCHANGED <<me, db, wire, view, fetch, debounce, lapse>>
  BY DEF Begin, device
<1>2. r \in Seq(Step)
  BY ServedAreRequests, RequestsAreSteps
<1>3. /\ request' \in [Slots -> [steps : Seq(Step), row : Nat]]
      /\ \A v \in Slots : request'[v].row = request[v].row
      /\ \A v \in Slots : v # w => request'[v] = request[v]
  BY <1>1, <1>2 DEF Device, Known
<1>4. Known' /\ NotAhead'
  BY <1>1, <1>3 DEF Device, Known, NotAhead
<1>5. CaughtUp'
  <2>1. \A q : ToBeTold(q) => ToBeTold(q)'
    BY <1>1, <1>3, HearsNothing, SameEars DEF ToBeTold
  <2>2. \A q : OnWire(q)' = OnWire(q)
    BY <1>1, SameEars DEF OnWire
  <2> QED BY <1>1, <2>1, <2>2, SameEars DEF Device, CaughtUp, Settled, Current
<1> QED BY <1>4, <1>5 DEF Device

\* What a write changes is told afterwards, or marked.
LEMMA WriteDevice ==
  ASSUME Device, NEW w \in Slots, Write(w) PROVE Device'
<1> DEFINE steps   == request[w].steps
           touched == Touched(Head(steps))
<1>1. /\ steps # << >> /\ Head(steps).do = "write"
      /\ db' = [q \in Queries |-> IF q \in touched THEN db[q] + 1 ELSE db[q]]
      /\ request' = [request EXCEPT ![w] = [steps |-> Tail(steps), row |-> db'["machine-tasks"]]]
      /\ lapse' = Missed(touched \ WillHear(Tail(steps)))
      /\ UNCHANGED <<me, wire, view, fetch, debounce>>
  BY DEF Write
<1> HIDE DEF touched
<1>2. steps \in Seq(Step) /\ Tail(steps) \in Seq(Step)
  BY <1>1 DEF Device, Known
<1>3. db' \in [Queries -> Nat] /\ \A q \in Queries : db[q] <= db'[q]
  BY <1>1 DEF Device, Known
<1>4. /\ request' \in [Slots -> [steps : Seq(Step), row : Nat]]
      /\ request'[w] = [steps |-> Tail(steps), row |-> db'["machine-tasks"]]
      /\ \A v \in Slots : v # w => request'[v] = request[v]
  BY <1>1, <1>2, <1>3 DEF Device, Known, Queries
<1>5. lapse' \in [Queries -> BOOLEAN]
  BY <1>1 DEF Device, Known, Missed
<1>6. Known'
  BY <1>1, <1>3, <1>4, <1>5 DEF Device, Known
<1>7. NotAhead'
  <2>1. "machine-tasks" \in Queries
    BY DEF Queries
  <2>2. \A v \in Slots : request'[v].row <= db'["machine-tasks"]
    <3>1. db["machine-tasks"] \in Int /\ db'["machine-tasks"] \in Int
      BY <1>3, <2>1 DEF Device, Known
    <3>2. \A v \in Slots : request[v].row \in Int /\ request[v].row <= db["machine-tasks"]
      BY DEF Device, Known, NotAhead
    <3>3. db["machine-tasks"] <= db'["machine-tasks"]
      BY <1>3, <2>1
    <3>4. \A v \in Slots : request[v].row <= db'["machine-tasks"]
      BY <3>1, <3>2, <3>3
    <3>5. request'[w].row = db'["machine-tasks"]
      BY <1>4
    <3> QED BY <1>4, <3>1, <3>4, <3>5, SMTT(30)
  <2>3. \A q \in Queries : view'[q] <= db'[q] /\ fetch'[q] <= db'[q]
    <3>1. \A q \in Queries : view[q] \in Int /\ fetch[q] \in Int /\ db[q] \in Int /\ db'[q] \in Int
      BY <1>3 DEF Device, Known, IDLE, SENT
    <3>2. \A q \in Queries : view[q] <= db[q] /\ fetch[q] <= db[q] /\ db[q] <= db'[q]
      BY <1>3 DEF Device, NotAhead
    <3> QED BY <1>1, <3>1, <3>2
  <2>4. \A s \in Sockets : \A i \in DOMAIN wire'[s] : wire'[s][i].row <= db'["machine-tasks"]
    <3>1. db["machine-tasks"] \in Int /\ db'["machine-tasks"] \in Int
      BY <1>3, <2>1 DEF Device, Known
    <3>2. \A s \in Sockets : \A i \in DOMAIN wire[s] :
            wire[s][i].row \in Int /\ wire[s][i].row <= db["machine-tasks"]
      <4>1. \A s \in Sockets : \A i \in DOMAIN wire[s] : wire[s][i] \in Message
        BY DEF Device, Known
      <4> QED BY <4>1 DEF Device, NotAhead, Message
    <3>3. db["machine-tasks"] <= db'["machine-tasks"]
      BY <1>3, <2>1
    <3> QED BY <1>1, <3>1, <3>2, <3>3
  <2> QED BY <2>2, <2>3, <2>4 DEF NotAhead
<1>8. ASSUME NEW q \in QueriesOf(me.role) \ {"machine-tasks"} PROVE Settled(q)'
  <2>1. q \in Queries /\ Settled(q)
    BY MineAreQueries DEF Device, CaughtUp
  <2>2. ToBeTold(q) => ToBeTold(q)'
    BY <1>1, <1>2, <1>4, HearsLater, SameEars DEF ToBeTold
  <2>3. OnWire(q)' = OnWire(q)
    BY <1>1, SameEars DEF OnWire
  <2>4. CASE q \in touched
    <3>1. CASE q \in WillHear(Tail(steps))
      BY <1>1, <1>4, <3>1, SameEars DEF Settled, ToBeTold
    <3>2. CASE q \notin WillHear(Tail(steps))
      BY <1>1, <2>1, <2>4, <3>2 DEF Settled, Missed
    <3> QED BY <3>1, <3>2
  <2>5. CASE q \notin touched
    <3>1. db'[q] = db[q] /\ (lapse[q] => lapse'[q])
      BY <1>1, <2>1, <2>5 DEF Missed
    <3> QED BY <1>1, <2>1, <2>2, <2>3, <3>1 DEF Settled, Current
  <2> QED BY <2>4, <2>5
<1>9. CaughtUp'
  BY <1>1, <1>8, SameEars DEF CaughtUp
<1> QED BY <1>6, <1>7, <1>9 DEF Device

LEMMA FunctionIsSeq ==
  ASSUME NEW S, NEW n \in Nat, NEW f \in [1..n -> S] PROVE f \in Seq(S)
BY SeqDef

\* What is told is on the wire of a socket that is reached, or marked when there is none.
LEMMA BroadcastDevice ==
  ASSUME Device, NEW w \in Slots, Broadcast(w) PROVE Device'
<1> DEFINE steps  == request[w].steps
           events == Head(steps).events
<1>1. PICK at \in {MeantAt(events)} :
        LET meant == [k \in 1..Cardinality(at) |-> events[NthOf(at, k)]]
            sent  == [k \in DOMAIN meant |-> [event |-> meant[k], row |-> request[w].row]]
        IN  /\ wire' = [s \in Sockets |-> IF isReached(s) THEN wire[s] \o sent ELSE wire[s]]
            /\ lapse' = IF \E s \in Sockets : isReached(s)
                        THEN lapse ELSE Missed(ConcernedBy(sent))
  BY DEF Broadcast
<1> DEFINE meant == [k \in 1..Cardinality(at) |-> events[NthOf(at, k)]]
           sent  == [k \in DOMAIN meant |-> [event |-> meant[k], row |-> request[w].row]]
<1>2. /\ wire' = [s \in Sockets |-> IF isReached(s) THEN wire[s] \o sent ELSE wire[s]]
      /\ lapse' = IF \E s \in Sockets : isReached(s) THEN lapse ELSE Missed(ConcernedBy(sent))
  BY <1>1
<1>3. /\ steps # << >> /\ Head(steps).do = "tell"
      /\ request' = [request EXCEPT ![w].steps = Tail(steps)]
      /\ UNCHANGED <<me, db, view, fetch, debounce>>
  BY DEF Broadcast
<1>4. steps \in Seq(Step) /\ Tail(steps) \in Seq(Step) /\ events \in Seq(Event)
  <2>1. steps \in Seq(Step)
    BY DEF Device, Known
  <2>2. Head(steps) \in Step /\ Tail(steps) \in Seq(Step)
    BY <1>3, <2>1
  <2> HIDE DEF steps
  <2> QED BY <1>3, <2>1, <2>2 DEF Step, Writes, Tells
<1>5. request[w].row \in Nat
  BY DEF Device, Known
<1>6. /\ sent \in Seq(Message)
      /\ \A i \in DOMAIN sent : sent[i].row = request[w].row
      /\ \A i \in DOMAIN events : shouldSendToClient(me, events[i]) =>
           \E k \in DOMAIN sent : sent[k].event = events[i]
  <2> DEFINE n   == Cardinality(at)
             row == request[w].row
  <2>1. at \in SUBSET (1..Len(events)) /\ Len(events) \in Nat
    BY <1>4, SMTT(30) DEF MeantAt
  <2>2. DOMAIN sent = 1..n /\ \A k \in 1..n : sent[k] = [event |-> events[NthOf(at, k)], row |-> row]
    OBVIOUS
  <2>3. sent \in [1..n -> {sent[k] : k \in 1..n}]
    OBVIOUS
  <2>4. events \in Seq(Event) /\ row \in Nat
    BY <1>4, <1>5
  <2>5. \A i \in DOMAIN events : shouldSendToClient(me, events[i]) => i \in at
    BY DEF MeantAt
  <2> HIDE DEF events, sent, row
  <2>6. /\ n \in Nat
        /\ \A k \in 1..n : NthOf(at, k) \in at
        /\ \A i \in at : \E k \in 1..n : NthOf(at, k) = i
    BY <2>1, NumbersInOrder
  <2> HIDE DEF n
  <2>7. ASSUME NEW k \in 1..n PROVE sent[k] \in Message
    <3>1. NthOf(at, k) \in 1..Len(events)
      BY <2>1, <2>6
    <3>2. events[NthOf(at, k)] \in Event
      BY <2>4, <3>1, ElementOfSeq
    <3> QED BY <2>2, <2>4, <3>2 DEF Message
  <2>8. sent \in Seq(Message)
    <3>1. sent \in [1..n -> Message]
      BY <2>3, <2>7
    <3> QED BY <2>6, <3>1, FunctionIsSeq
  <2>9. ASSUME NEW i \in DOMAIN events, shouldSendToClient(me, events[i])
        PROVE  \E k \in DOMAIN sent : sent[k].event = events[i]
    <3>1. PICK k \in 1..n : NthOf(at, k) = i
      BY <2>5, <2>6, <2>9
    <3>2. sent[k].event = events[i]
      BY <2>2, <3>1
    <3> QED BY <2>2, <3>2
  <2>10. \A i \in DOMAIN sent : sent[i].row = row
    BY <2>2
  <2> QED BY <2>8, <2>9, <2>10 DEF row
<1> HIDE DEF sent, meant, events
<1>7. /\ request' \in [Slots -> [steps : Seq(Step), row : Nat]]
      /\ request'[w].steps = Tail(steps)
      /\ \A v \in Slots : v # w => request'[v] = request[v]
      /\ \A v \in Slots : request'[v].row = request[v].row
  BY <1>3, <1>4 DEF Device, Known
<1>8. /\ wire' \in [Sockets -> Seq(Message)]
      /\ \A s \in Sockets : wire'[s] = IF isReached(s) THEN wire[s] \o sent ELSE wire[s]
  <2>1. \A s \in Sockets : wire[s] \in Seq(Message)
    BY DEF Device, Known
  <2>2. \A s \in Sockets : wire[s] \o sent \in Seq(Message)
    BY <1>6, <2>1, ConcatProperties
  <2> QED BY <1>2, <2>1, <2>2
<1>9. ASSUME NEW s \in Sockets
      PROVE  /\ \A i \in DOMAIN wire[s] : i \in DOMAIN wire'[s] /\ wire'[s][i] = wire[s][i]
             /\ \A i \in DOMAIN wire'[s] :
                  \/ i \in DOMAIN wire[s] /\ wire'[s][i] = wire[s][i]
                  \/ \E k \in DOMAIN sent : wire'[s][i] = sent[k]
             /\ isReached(s) => \A k \in DOMAIN sent :
                                  \E i \in DOMAIN wire'[s] : wire'[s][i] = sent[k]
  <2>1. wire[s] \in Seq(Message)
    BY DEF Device, Known
  <2>2. CASE isReached(s)
    <3>1. wire'[s] = wire[s] \o sent
      BY <1>8, <2>2
    <3>2. ASSUME NEW k \in DOMAIN sent
          PROVE  Len(wire[s]) + k \in DOMAIN wire'[s] /\ wire'[s][Len(wire[s]) + k] = sent[k]
      BY <1>6, <2>1, <3>1
    <3>3. \A i \in DOMAIN wire[s] : i \in DOMAIN wire'[s] /\ wire'[s][i] = wire[s][i]
      BY <1>6, <2>1, <3>1
    <3>4. ASSUME NEW i \in DOMAIN wire'[s], i \notin DOMAIN wire[s]
          PROVE  i - Len(wire[s]) \in DOMAIN sent /\ wire'[s][i] = sent[i - Len(wire[s])]
      BY <1>6, <2>1, <3>1, <3>4
    <3> QED BY <3>2, <3>3, <3>4
  <2>3. CASE ~ isReached(s)
    BY <1>8, <2>3
  <2> QED BY <2>2, <2>3
<1>10. lapse' \in [Queries -> BOOLEAN] /\ \A q \in Queries : lapse[q] => lapse'[q]
  BY <1>2 DEF Device, Known, Missed
<1>11. Known'
  BY <1>3, <1>7, <1>8, <1>10 DEF Device, Known
<1>12. NotAhead'
  <2>1. \A v \in Slots : request'[v].row <= db["machine-tasks"]
    BY <1>7 DEF Device, NotAhead
  <2>2. \A s \in Sockets : \A i \in DOMAIN wire'[s] : wire'[s][i].row <= db["machine-tasks"]
    BY <1>6, <1>9 DEF Device, NotAhead
  <2> QED BY <1>3, <2>1, <2>2 DEF Device, NotAhead
<1>13. ASSUME NEW q \in QueriesOf(me.role) \ {"machine-tasks"} PROVE Settled(q)'
  <2>1. q \in Queries /\ Settled(q)
    BY MineAreQueries DEF Device, CaughtUp
  <2>2. OnWire(q) => OnWire(q)'
    BY <1>3, <1>9, SameEars DEF OnWire
  <2>3. CASE ToBeTold(q)
    <3>1. PICK v \in Slots : q \in WillHear(request[v].steps)
      BY <2>3 DEF ToBeTold
    <3>2. CASE v # w \/ q \in WillHear(Tail(steps))
      <4>1. ToBeTold(q)'
        BY <1>3, <1>7, <3>1, <3>2, SameEars DEF ToBeTold
      <4> QED BY <4>1 DEF Settled
    <3>3. CASE v = w /\ q \notin WillHear(Tail(steps))
      <4>1. PICK i \in DOMAIN events : shouldSendToClient(me, events[i]) /\ q \in Concerned(events[i])
        BY <1>3, <1>4, <3>1, <3>3, HearsLater DEF events
      <4>2. PICK k \in DOMAIN sent : sent[k].event = events[i]
        BY <1>6, <4>1
      <4>3. CASE \E s \in Sockets : isReached(s)
        <5>1. \E s \in Sockets : \E j \in DOMAIN wire'[s] : q \in Concerned(wire'[s][j].event)
          BY <1>9, <4>1, <4>2, <4>3
        <5>2. OnWire(q)'
          BY <1>3, <5>1, SameEars DEF OnWire
        <5> QED BY <5>2 DEF Settled
      <4>4. CASE ~ \E s \in Sockets : isReached(s)
        <5>1. q \in ConcernedBy(sent)
          BY <4>1, <4>2 DEF ConcernedBy
        <5> QED BY <1>2, <2>1, <4>4, <5>1 DEF Settled, Missed
      <4> QED BY <4>3, <4>4
    <3> QED BY <3>2, <3>3
  <2>4. CASE ~ ToBeTold(q)
    BY <1>3, <1>10, <2>1, <2>2, <2>4 DEF Settled, Current
  <2> QED BY <2>3, <2>4
<1>14. CaughtUp'
  BY <1>3, <1>13, SameEars DEF CaughtUp
<1> QED BY <1>11, <1>12, <1>14 DEF Device

\* What is lost is marked: events on their way, events never told, a pending invalidation.
LEMMA DieDevice == ASSUME Device, NEW w \in Slots, Die(w) PROVE Device'
<1>1. /\ lapse' = Missed(WillHear(request[w].steps))
      /\ request' = [request EXCEPT ![w].steps = << >>]
      /\ UNCHANGED <<me, db, wire, view, fetch, debounce>>
  BY DEF Die
<1>2. /\ request' \in [Slots -> [steps : Seq(Step), row : Nat]]
      /\ \A v \in Slots : request'[v].row = request[v].row
      /\ \A v \in Slots : v # w => request'[v] = request[v]
  <2>1. << >> \in Seq(Step)
    OBVIOUS
  <2> QED BY <1>1, <2>1 DEF Device, Known
<1>3. lapse' \in [Queries -> BOOLEAN]
  BY <1>1 DEF Missed, Device, Known
<1>4. Known' /\ NotAhead'
  BY <1>1, <1>2, <1>3 DEF Device, Known, NotAhead
<1>5. ASSUME NEW q \in QueriesOf(me.role) \ {"machine-tasks"} PROVE Settled(q)'
  <2>1. q \in Queries /\ Settled(q)
    BY MineAreQueries DEF Device, CaughtUp
  <2>2. OnWire(q)' = OnWire(q)
    BY <1>1, SameEars DEF OnWire
  <2>3. lapse'[q] \/ (ToBeTold(q) => ToBeTold(q)')
    BY <1>1, <1>2, <2>1, SameEars DEF ToBeTold, Missed
  <2>4. lapse[q] => lapse'[q]
    BY <1>1, <2>1 DEF Missed
  <2> QED BY <1>1, <2>1, <2>2, <2>3, <2>4 DEF Settled, Current
<1>6. CaughtUp'
  BY <1>1, <1>5, SameEars DEF CaughtUp
<1> QED BY <1>4, <1>6 DEF Device

LEMMA CutDevice ==
  ASSUME Device, NEW s \in Sockets, Cut(s) \/ CloseHandshake(s) PROVE Device'
<1>1. /\ wire' = [wire EXCEPT ![s] = << >>]
      /\ lapse' = Missed(ConcernedBy(wire[s]))
      /\ UNCHANGED <<me, db, request, view, fetch, debounce>>
  BY DEF Cut, CloseHandshake, server
<1>2. /\ wire' \in [Sockets -> Seq(Message)]
      /\ \A k \in Sockets : k # s => wire'[k] = wire[k]
      /\ wire'[s] = << >>
  <2>1. << >> \in Seq(Message)
    OBVIOUS
  <2> QED BY <1>1, <2>1 DEF Device, Known
<1>3. lapse' \in [Queries -> BOOLEAN]
  BY <1>1 DEF Missed, Device, Known
<1>4. Known' /\ NotAhead'
  BY <1>1, <1>2, <1>3 DEF Device, Known, NotAhead
<1>5. ASSUME NEW q \in QueriesOf(me.role) \ {"machine-tasks"} PROVE Settled(q)'
  <2>1. q \in Queries /\ Settled(q)
    BY MineAreQueries DEF Device, CaughtUp
  <2>2. ToBeTold(q)' = ToBeTold(q)
    BY <1>1, SameEars DEF ToBeTold
  <2>3. lapse'[q] \/ (OnWire(q) => OnWire(q)')
    <3>1. CASE \E i \in DOMAIN wire[s] : q \in Concerned(wire[s][i].event)
      BY <1>1, <2>1, <3>1 DEF ConcernedBy, Missed
    <3>2. CASE ~ \E i \in DOMAIN wire[s] : q \in Concerned(wire[s][i].event)
      BY <1>1, <1>2, <3>2, SameEars DEF OnWire
    <3> QED BY <3>1, <3>2
  <2>4. lapse[q] => lapse'[q]
    BY <1>1, <2>1 DEF Missed
  <2> QED BY <1>1, <2>1, <2>2, <2>3, <2>4 DEF Settled, Current
<1>6. CaughtUp'
  BY <1>1, <1>5, SameEars DEF CaughtUp
<1> QED BY <1>4, <1>6 DEF Device

LEMMA RerunDevice == ASSUME Device, Rerun PROVE Device'
<1>1. /\ debounce' = [q \in Queries |-> FALSE]
      /\ lapse' = Missed({q \in Queries : debounce[q]})
      /\ UNCHANGED <<me, db, request, wire, view, fetch>>
  BY DEF Rerun, server
<1>2. Known' /\ NotAhead'
  BY <1>1 DEF Device, Known, NotAhead, Missed
<1>3. ASSUME NEW q \in QueriesOf(me.role) \ {"machine-tasks"} PROVE Settled(q)'
  <2>1. q \in Queries /\ Settled(q)
    BY MineAreQueries DEF Device, CaughtUp
  <2>2. OnWire(q)' = OnWire(q) /\ ToBeTold(q)' = ToBeTold(q)
    BY <1>1, SameEars DEF OnWire, ToBeTold
  <2>3. lapse[q] \/ debounce[q] => lapse'[q]
    BY <1>1, <2>1 DEF Missed
  <2> QED BY <1>1, <2>1, <2>2, <2>3 DEF Settled, Current
<1>4. CaughtUp'
  BY <1>1, <1>3, SameEars DEF CaughtUp
<1> QED BY <1>2, <1>4 DEF Device

\* Fetching again settles a query: the fetch reads what is there, or it joins the very
\* first one, which is marked.
LEMMA RefetchedSettles ==
  ASSUME Known, NEW qs,
         fetch' = Refetched(qs), lapse' = LapseAfter(qs, {})
  PROVE  /\ fetch' \in [Queries -> Nat \cup {IDLE, SENT}]
         /\ lapse' \in [Queries -> BOOLEAN]
         /\ \A q \in Queries : fetch'[q] \in {SENT, fetch[q]}
         /\ \A q \in Queries : IF q \in qs THEN fetch'[q] = SENT \/ lapse'[q]
                               ELSE fetch'[q] = fetch[q] /\ lapse'[q] = lapse[q]
<1>1. \A q \in Queries : fetch'[q] = IF q \in qs /\ ~ (view[q] = -1 /\ fetch[q] # IDLE)
                                     THEN SENT ELSE fetch[q]
  BY DEF Refetched
<1>2. \A q \in Queries :
        lapse'[q] = IF q \in qs THEN view[q] = -1 /\ fetch[q] # IDLE ELSE lapse[q]
  BY DEF LapseAfter, Known
<1>3. fetch' \in [Queries -> Nat \cup {IDLE, SENT}] /\ lapse' \in [Queries -> BOOLEAN]
  BY DEF Known, Refetched, LapseAfter
<1> QED BY <1>1, <1>2, <1>3

\* Steps that fetch some lists again.
LEMMA AsksDevice ==
  ASSUME Device, NEW qs, fetch' = Refetched(qs), lapse' = LapseAfter(qs, {}),
         debounce' \in [Queries -> BOOLEAN],
         \A q \in Queries \ qs : debounce'[q] = debounce[q],
         UNCHANGED <<me, db, request, wire, view>>
  PROVE  Device'
<1>1. /\ fetch' \in [Queries -> Nat \cup {IDLE, SENT}]
      /\ lapse' \in [Queries -> BOOLEAN]
      /\ \A q \in Queries : fetch'[q] \in {SENT, fetch[q]}
      /\ \A q \in Queries : IF q \in qs THEN fetch'[q] = SENT \/ lapse'[q]
                            ELSE fetch'[q] = fetch[q] /\ lapse'[q] = lapse[q]
  BY RefetchedSettles DEF Device
<1>2. Known'
  BY <1>1 DEF Device, Known
<1>3. NotAhead'
  BY <1>1 DEF Device, Known, NotAhead, SENT
<1>4. ASSUME NEW q \in QueriesOf(me.role) \ {"machine-tasks"} PROVE Settled(q)'
  <2>1. q \in Queries /\ Settled(q)
    BY MineAreQueries DEF Device, CaughtUp
  <2>2. OnWire(q)' = OnWire(q) /\ ToBeTold(q)' = ToBeTold(q)
    BY SameEars DEF OnWire, ToBeTold
  <2> QED BY <1>1, <2>1, <2>2 DEF Settled, Current
<1>5. CaughtUp'
  BY <1>4, SameEars DEF CaughtUp
<1> QED BY <1>2, <1>3, <1>5 DEF Device

\* An event that arrives is answered by a fetch, now or after the debounce.
LEMMA ReceiveDevice == ASSUME Device, NEW s \in Sockets, Receive(s) PROVE Device'
<1> DEFINE row   == Head(wire[s]).row
           e     == Head(wire[s]).event
           hit   == Concerned(e)
           patch == {q \in Patched(e) \cap hit : view[q] \notin {-1, row}}
           now   == hit \cap (InvalidatedNow(e) \cup (Patched(e) \ patch))
<1>1. /\ wire[s] # << >>
      /\ wire' = [wire EXCEPT ![s] = Tail(@)]
      /\ view' = [q \in Queries |-> IF q \in patch THEN row ELSE view[q]]
      /\ debounce' = [q \in Queries |-> debounce[q] \/ q \in hit \cap InvalidatedLater(e)]
      /\ fetch' = Refetched(now)
      /\ lapse' = LapseAfter(now, {})
      /\ UNCHANGED <<me, db, request>>
  BY DEF Receive, server
<1>2. wire[s] \in Seq(Message) /\ wire[s][1] = Head(wire[s])
  BY <1>1 DEF Device, Known
<1>3. /\ Tail(wire[s]) \in Seq(Message)
      /\ Len(Tail(wire[s])) = Len(wire[s]) - 1
      /\ \A i \in 1..Len(Tail(wire[s])) : Tail(wire[s])[i] = wire[s][i + 1]
      /\ 1 \in DOMAIN wire[s] /\ Head(wire[s]) \in Message
  BY <1>1, <1>2, HeadTailProperties
<1>4. /\ wire' \in [Sockets -> Seq(Message)]
      /\ wire'[s] = Tail(wire[s])
      /\ \A k \in Sockets : k # s => wire'[k] = wire[k]
  BY <1>1, <1>3 DEF Device, Known
<1>5. row \in Nat /\ row <= db["machine-tasks"]
  BY <1>2, <1>3 DEF Device, NotAhead, Message
<1>6. /\ patch \subseteq {"machine-tasks"}
      /\ hit \subseteq InvalidatedLater(e) \cup InvalidatedNow(e) \cup {"machine-tasks"}
  BY DEF Patched, Concerned
<1>7. /\ \A q \in Queries : q \notin patch => view'[q] = view[q]
      /\ \A q \in Queries : q \in patch => view'[q] = row
      /\ view' \in [Queries -> Nat \cup {-1}]
  BY <1>1, <1>5 DEF Device, Known
<1>8. \A q \in hit : q # "machine-tasks" => q \in now \/ q \in hit \cap InvalidatedLater(e)
  BY <1>6
<1> HIDE DEF row, hit, patch, now
<1>9. /\ fetch' \in [Queries -> Nat \cup {IDLE, SENT}]
      /\ lapse' \in [Queries -> BOOLEAN]
      /\ \A q \in Queries : fetch'[q] \in {SENT, fetch[q]}
      /\ \A q \in Queries : IF q \in now THEN fetch'[q] = SENT \/ lapse'[q]
                            ELSE fetch'[q] = fetch[q] /\ lapse'[q] = lapse[q]
  BY <1>1, RefetchedSettles DEF Device
<1>10. /\ debounce' \in [Queries -> BOOLEAN]
       /\ \A q \in Queries : debounce[q] \/ q \in hit \cap InvalidatedLater(e) => debounce'[q]
  BY <1>1 DEF Device, Known
<1>11. Known'
  BY <1>1, <1>4, <1>7, <1>9, <1>10 DEF Device, Known
<1>12. NotAhead'
  <2>1. \A q \in Queries : view'[q] <= db[q]
    BY <1>5, <1>6, <1>7 DEF Device, NotAhead
  <2>2. \A q \in Queries : fetch'[q] <= db[q]
    <3>1. \A q \in Queries : db[q] \in Nat /\ fetch[q] <= db[q]
      BY DEF Device, Known, NotAhead
    <3> QED BY <1>9, <3>1 DEF SENT
  <2>3. \A k \in Sockets : \A i \in DOMAIN wire'[k] : wire'[k][i].row <= db["machine-tasks"]
    <3>1. \A i \in DOMAIN wire'[s] : wire'[s][i].row <= db["machine-tasks"]
      <4> SUFFICES ASSUME NEW i \in DOMAIN wire'[s]
                   PROVE  wire'[s][i].row <= db["machine-tasks"]
        OBVIOUS
      <4>1. i + 1 \in DOMAIN wire[s] /\ wire'[s][i] = wire[s][i + 1]
        BY <1>2, <1>3, <1>4
      <4> QED BY <4>1 DEF Device, NotAhead
    <3> QED BY <1>4, <3>1 DEF Device, NotAhead
  <2>4. \A w \in Slots : request'[w].row <= db'["machine-tasks"]
    BY <1>1 DEF Device, NotAhead
  <2> QED BY <1>1, <2>1, <2>2, <2>3, <2>4 DEF NotAhead
<1>13. ASSUME NEW q \in QueriesOf(me.role) \ {"machine-tasks"} PROVE Settled(q)'
  <2>1. q \in Queries /\ Settled(q)
    BY MineAreQueries DEF Device, CaughtUp
  <2>2. ToBeTold(q)' = ToBeTold(q)
    BY <1>1, SameEars DEF ToBeTold
  <2>3. CASE q \in hit
    BY <1>8, <1>9, <1>10, <2>1, <2>3 DEF Settled
  <2>4. CASE q \in now
    BY <1>9, <2>1, <2>4 DEF Settled
  <2>5. CASE q \notin hit /\ q \notin now
    <3>1. OnWire(q) => OnWire(q)'
      <4> SUFFICES ASSUME OnWire(q) PROVE OnWire(q)'
        OBVIOUS
      <4>1. PICK k \in Sockets : \E i \in DOMAIN wire[k] : q \in Concerned(wire[k][i].event)
        BY DEF OnWire
      <4>2. CASE k = s
        <5> PICK i \in DOMAIN wire[s] : q \in Concerned(wire[s][i].event)
          BY <4>1, <4>2
        <5>1. i # 1
          BY <1>2, <2>5 DEF hit
        <5>2. i - 1 \in DOMAIN wire'[s] /\ wire'[s][i - 1] = wire[s][i]
          BY <1>2, <1>3, <1>4, <5>1, SMTT(30)
        <5> QED BY <1>1, <5>2, SameEars DEF OnWire
      <4>3. CASE k # s
        BY <1>1, <1>4, <4>1, <4>3, SameEars DEF OnWire
      <4> QED BY <4>2, <4>3
    <3>2. view'[q] = view[q]
      BY <1>6, <1>7, <2>1
    <3> QED BY <1>1, <1>9, <1>10, <2>1, <2>2, <2>5, <3>1, <3>2 DEF Settled, Current
  <2> QED BY <2>3, <2>4, <2>5
<1>14. CaughtUp'
  BY <1>1, <1>13, SameEars DEF CaughtUp
<1> QED BY <1>11, <1>12, <1>14 DEF Device

\* The fetches of one query.
LEMMA FetchingDevice ==
  ASSUME Device, NEW q \in Queries,
         FetchAgain(q) \/ Answer(q) \/ ShowAnswer(q) \/ FetchFails(q)
  PROVE  Device'
<1>1. /\ UNCHANGED <<me, db, request, wire, debounce>>
      /\ \A p \in Queries \ {q} :
           view'[p] = view[p] /\ fetch'[p] = fetch[p] /\ lapse'[p] = lapse[p]
      /\ view' \in [Queries -> Nat \cup {-1}]
      /\ fetch' \in [Queries -> Nat \cup {IDLE, SENT}]
      /\ lapse' \in [Queries -> BOOLEAN]
      /\ view'[q] <= db[q] /\ fetch'[q] <= db[q]
      /\ Settled(q) => lapse'[q] \/ fetch'[q] = SENT \/ debounce[q] \/ OnWire(q) \/ ToBeTold(q)
                       \/ fetch'[q] = db[q] \/ (fetch'[q] = IDLE /\ view'[q] = db[q])
  <2> USE DEF IDLE, SENT
  <2>1. /\ db[q] \in Nat /\ view[q] \in Nat \cup {-1} /\ fetch[q] \in Nat \cup {-2, -1}
        /\ view[q] <= db[q] /\ fetch[q] <= db[q]
        /\ view \in [Queries -> Nat \cup {-1}]
        /\ fetch \in [Queries -> Nat \cup {-2, -1}]
        /\ lapse \in [Queries -> BOOLEAN]
    BY DEF Device, Known, NotAhead
  <2>2. CASE FetchAgain(q)
    <3>1. /\ fetch' = [fetch EXCEPT ![q] = SENT] /\ lapse' = [lapse EXCEPT ![q] = FALSE]
          /\ UNCHANGED <<me, db, request, wire, debounce, view>>
      BY <2>2 DEF FetchAgain, server
    <3> QED BY <2>1, <3>1
  <2>3. CASE Answer(q)
    <3>1. /\ fetch' = [fetch EXCEPT ![q] = db[q]]
          /\ UNCHANGED <<me, db, request, wire, debounce, view, lapse>>
      BY <2>3 DEF Answer, server
    <3> QED BY <2>1, <3>1
  <2>4. CASE ShowAnswer(q)
    <3>1. /\ fetch[q] >= 0
          /\ view' = [view EXCEPT ![q] = fetch[q]] /\ fetch' = [fetch EXCEPT ![q] = IDLE]
          /\ UNCHANGED <<me, db, request, wire, debounce, lapse>>
      BY <2>4 DEF ShowAnswer, server
    <3>2. fetch[q] \in Nat
      BY <2>1, <3>1
    <3> QED BY <2>1, <3>1, <3>2 DEF Settled, Current
  <2>5. CASE FetchFails(q)
    <3>1. /\ fetch' = [fetch EXCEPT ![q] = IDLE] /\ lapse' = [lapse EXCEPT ![q] = TRUE]
          /\ UNCHANGED <<me, db, request, wire, debounce, view>>
      BY <2>5 DEF FetchFails, server
    <3> QED BY <2>1, <3>1
  <2> QED BY <2>2, <2>3, <2>4, <2>5
<1>2. Known'
  BY <1>1 DEF Device, Known
<1>3. NotAhead'
  <2>1. \A p \in Queries : view'[p] <= db'[p] /\ fetch'[p] <= db'[p]
    BY <1>1 DEF Device, NotAhead
  <2> QED BY <1>1, <2>1 DEF Device, NotAhead
<1>4. ASSUME NEW p \in QueriesOf(me.role) \ {"machine-tasks"} PROVE Settled(p)'
  <2>1. p \in Queries /\ Settled(p)
    BY MineAreQueries DEF Device, CaughtUp
  <2>2. OnWire(p)' = OnWire(p) /\ ToBeTold(p)' = ToBeTold(p)
    BY <1>1, SameEars DEF OnWire, ToBeTold
  <2>3. CASE p = q
    BY <1>1, <2>1, <2>2, <2>3 DEF Settled, Current
  <2>4. CASE p # q
    BY <1>1, <2>1, <2>2, <2>4 DEF Settled, Current
  <2> QED BY <2>3, <2>4
<1>5. CaughtUp'
  BY <1>1, <1>4, SameEars DEF CaughtUp
<1> QED BY <1>2, <1>3, <1>5 DEF Device

LEMMA NextDevice == Device /\ [Next]_vars => Device'
<1> SUFFICES ASSUME Device, [Next]_vars PROVE Device'
  OBVIOUS
<1>1. CASE UNCHANGED vars
  BY <1>1, DeviceStays DEF vars, server
<1>2. ASSUME NEW w \in Slots, Write(w) \/ Broadcast(w) \/ Die(w) \/ \E r \in Served : Begin(w, r)
      PROVE  Device'
  BY <1>2, WriteDevice, BroadcastDevice, DieDevice, BeginDevice
<1>3. ASSUME NEW s \in Sockets, Upgrade(s) \/ Register(s) \/ ClientGone(s) \/ Refuse(s) \/ Closed(s)
      PROVE  Device'
  BY <1>3, DeviceStays DEF Upgrade, Register, ClientGone, Refuse, Closed, server
<1>4. ASSUME NEW s \in Sockets, Opened(s) PROVE Device'
  <2>1. UNCHANGED <<me, db, request, wire, view, debounce>>
    BY <1>4 DEF Opened, server
  <2>2. CASE UNCHANGED <<fetch, lapse>>
    BY <2>1, <2>2, DeviceStays DEF device
  <2>3. CASE fetch' = Refetched(QueriesOf(me.role)) /\ lapse' = LapseAfter(QueriesOf(me.role), {})
    <3>1. debounce' \in [Queries -> BOOLEAN]
      BY <2>1 DEF Device, Known
    <3> QED BY <2>1, <2>3, <3>1, AsksDevice
  <2> QED BY <1>4, <2>2, <2>3 DEF Opened
<1>5. ASSUME NEW s \in Sockets, Receive(s) \/ Cut(s) \/ CloseHandshake(s) PROVE Device'
  BY <1>5, ReceiveDevice, CutDevice
<1>6. CASE Reconnect
  BY <1>6, DeviceStays DEF Reconnect, server
<1>7. CASE Online
  <2>1. /\ fetch' = Refetched(QueriesOf(me.role)) /\ lapse' = LapseAfter(QueriesOf(me.role), {})
        /\ UNCHANGED <<me, db, request, wire, view, debounce>>
    BY <1>7 DEF Online, server
  <2>2. debounce' \in [Queries -> BOOLEAN]
    BY <2>1 DEF Device, Known
  <2> QED BY <2>1, <2>2, AsksDevice
<1>8. CASE Rerun
  BY <1>8, RerunDevice
<1>9. ASSUME NEW q \in Queries, Debounced(q) PROVE Device'
  <2>1. /\ debounce' = [debounce EXCEPT ![q] = FALSE]
        /\ fetch' = Refetched({q}) /\ lapse' = LapseAfter({q}, {})
        /\ UNCHANGED <<me, db, request, wire, view>>
    BY <1>9 DEF Debounced, server
  <2>2. /\ debounce' \in [Queries -> BOOLEAN]
        /\ \A p \in Queries \ {q} : debounce'[p] = debounce[p]
    BY <2>1 DEF Device, Known
  <2> QED BY <2>1, <2>2, AsksDevice
<1>10. ASSUME NEW q \in Queries, Answer(q) \/ ShowAnswer(q) \/ Poll(q) \/ LookAgain(q) \/ FetchFails(q)
       PROVE  Device'
  BY <1>10, FetchingDevice DEF Poll, LookAgain
<1> QED
  BY <1>1, <1>2, <1>3, <1>4, <1>5, <1>6, <1>7, <1>8, <1>9, <1>10
     DEF Next, Others, Settling, Fetching

LEMMA AlwaysDevice == Spec => []Device
BY InitDevice, NextDevice, PTL DEF Spec

\* A list that is fetched at every event is out of date only for a reason, when all is quiet.
THEOREM OutOfDateInAll == Spec => []OutOfDateOnlyByLapse
<1>1. Device => OutOfDateOnlyByLapse
  <2> SUFFICES ASSUME Device, NEW q \in QueriesOf(me.role) \ {"machine-tasks"},
                      \A w \in Slots : request[w].steps = << >>,
                      \A s \in Sockets : wire[s] = << >>,
                      fetch[q] = IDLE, ~ debounce[q], ~ lapse[q]
               PROVE  view[q] = db[q]
    BY DEF OutOfDateOnlyByLapse
  <2>1. q \in Queries /\ Settled(q)
    BY MineAreQueries DEF Device, CaughtUp
  <2>2. ~ ToBeTold(q) /\ ~ OnWire(q)
    BY HearsNothing DEF ToBeTold, OnWire
  <2>3. db[q] \in Nat
    BY <2>1 DEF Device, Known
  <2> QED BY <2>1, <2>2, <2>3 DEF Settled, Current, IDLE, SENT
<1> QED BY <1>1, AlwaysDevice, PTL
-----------------------------------------------------------------------------
\* The provider's refs, and a socket or a timer of the current run of its effect.
Refs ==
  /\ run \in Nat \ {0}
  /\ timer \in BOOLEAN
  /\ sock \in [Sockets -> {"free", "connecting", "open", "closing"}]
  /\ owner \in [Sockets -> Nat]
  /\ wsRef \in 0..NumSockets

OnItsWay == Refs /\ NeverStranded

LEMMA InitOnItsWay == Init => OnItsWay
<1> SUFFICES ASSUME Init PROVE OnItsWay
  OBVIOUS
<1>1. 1 \in Sockets /\ 1 \in 0..NumSockets
  BY SocketsExist DEF Sockets
<1>2. sock[1] # "free" /\ owner[1] = run
  BY <1>1 DEF Init
<1>3. run = 1 /\ wsRef = 1 /\ timer \in BOOLEAN
  BY Zenon DEF Init
<1>4. sock \in [Sockets -> {"free", "connecting", "open", "closing"}] /\ owner \in [Sockets -> Nat]
  <2>1. /\ sock = [s \in Sockets |-> IF s = 1 THEN "connecting" ELSE "free"]
        /\ owner = [s \in Sockets |-> IF s = 1 THEN 1 ELSE 0]
    BY DEF Init
  <2>2. sock \in [Sockets -> {"free", "connecting", "open", "closing"}]
    BY <2>1
  <2>3. \A s \in Sockets : (IF s = 1 THEN 1 ELSE 0) \in Nat
    OBVIOUS
  <2>4. owner \in [Sockets -> Nat]
    BY <2>1, <2>3
  <2> QED BY <2>2, <2>4
<1>5. Refs
  BY <1>1, <1>3, <1>4 DEF Refs
<1> QED BY <1>1, <1>2, <1>5 DEF OnItsWay, NeverStranded

\* connect() finds a socket, whatever is closed, and makes it one of the run r.
LEMMA ConnectConnects ==
  ASSUME Refs, NEW r \in Nat, NEW closed \in 0..NumSockets,
         NEW ownerThen \in [Sockets -> Nat], Connect(r, closed, ownerThen)
  PROVE  /\ sock' \in [Sockets -> {"free", "connecting", "open", "closing"}]
         /\ owner' \in [Sockets -> Nat]
         /\ wsRef' \in 0..NumSockets
         /\ \E s \in Sockets : sock'[s] # "free" /\ owner'[s] = r
<1>1. NextSocket \in Sockets
  BY DEF Connect, SomeUnused, NextSocket
<1> DEFINE s == NextSocket
<1>2. /\ sock' = [k \in Sockets |-> IF k = s THEN "connecting"
                                     ELSE IF k = closed THEN "closing" ELSE sock[k]]
      /\ owner' = [ownerThen EXCEPT ![s] = r]
      /\ wsRef' = s
  BY DEF Connect
<1> HIDE DEF s
<1>3. s \in Sockets
  BY <1>1 DEF s
<1>4. sock'[s] = "connecting" /\ owner'[s] = r
  BY <1>2, <1>3
<1>5. s \in 0..NumSockets
  BY <1>3, SocketsExist DEF Sockets
<1> QED BY <1>2, <1>3, <1>4, <1>5 DEF Refs

\* Steps that leave the provider's sockets alone.
LEMMA Elsewhere == ASSUME OnItsWay, UNCHANGED client PROVE OnItsWay'
BY DEF OnItsWay, Refs, NeverStranded, client

LEMMA OpenedOnItsWay == ASSUME OnItsWay, NEW s \in Sockets, Opened(s) PROVE OnItsWay'
<1>1. /\ sock' = [sock EXCEPT ![s] = "open"]
      /\ UNCHANGED <<owner, run, wsRef, timer>>
  BY DEF Opened
<1>2. \A k \in Sockets : sock[k] # "free" => sock'[k] # "free"
  BY <1>1 DEF OnItsWay, Refs
<1>3. Refs'
  BY <1>1 DEF OnItsWay, Refs
<1> QED BY <1>1, <1>2, <1>3 DEF OnItsWay, NeverStranded

\* The last socket of the run sets the timer; another one may reset the ref, but leaves
\* the run its socket.
LEMMA ClosedOnItsWay == ASSUME OnItsWay, NEW s \in Sockets, Closed(s) PROVE OnItsWay'
<1>1. /\ sock' = [sock EXCEPT ![s] = "free"]
      /\ UNCHANGED <<owner, run>>
      /\ wsRef' \in {0, wsRef}
  BY DEF Closed
<1>2. Refs'
  <2>1. timer' \in BOOLEAN
    BY DEF OnItsWay, Refs, Closed
  <2> QED BY <1>1, <2>1, SocketsExist DEF OnItsWay, Refs
<1>3. CASE owner[s] = run
  <2>1. owner[s] # 0 /\ ~ isCancelled(s)
    BY <1>3 DEF OnItsWay, Refs, isCancelled
  <2>2. timer' = TRUE
    BY <2>1 DEF Closed
  <2> QED BY <1>2, <2>2 DEF OnItsWay, NeverStranded
<1>4. CASE owner[s] # run
  <2>1. timer => timer'
    BY Zenon DEF Closed
  <2>2. \A k \in Sockets : owner[k] = run => sock'[k] = sock[k]
    BY <1>1, <1>4 DEF OnItsWay, Refs
  <2> QED BY <1>1, <1>2, <2>1, <2>2 DEF OnItsWay, NeverStranded
<1> QED BY <1>3, <1>4

LEMMA ConnectingOnItsWay == ASSUME OnItsWay, Reconnect \/ Online \/ Rerun PROVE OnItsWay'
<1>1. CASE Reconnect
  <2>1. Connect(run, 0, owner) /\ run' = run /\ timer' = FALSE
    BY <1>1 DEF Reconnect
  <2>2. 0 \in 0..NumSockets /\ run \in Nat /\ owner \in [Sockets -> Nat]
    BY SocketsExist DEF OnItsWay, Refs
  <2> QED BY <2>1, <2>2, ConnectConnects DEF OnItsWay, Refs, NeverStranded
<1>2. CASE Online
  <2> DEFINE ownerThen == [s \in Sockets |-> IF s = wsRef THEN 0 ELSE owner[s]]
  <2>1. ownerThen \in [Sockets -> Nat]
    BY DEF OnItsWay, Refs
  <2>2. Connect(run, wsRef, ownerThen) /\ run' = run /\ timer' = FALSE
    BY <1>2 DEF Online
  <2> HIDE DEF ownerThen
  <2> QED BY <2>1, <2>2, ConnectConnects DEF OnItsWay, Refs, NeverStranded
<1>3. CASE Rerun
  <2>1. Connect(run + 1, wsRef, owner) /\ run' = run + 1 /\ timer' = FALSE
    BY <1>3 DEF Rerun
  <2>2. run + 1 \in Nat \ {0}
    BY DEF OnItsWay, Refs
  <2> QED BY <2>1, <2>2, ConnectConnects DEF OnItsWay, Refs, NeverStranded
<1> QED BY <1>1, <1>2, <1>3

LEMMA NextOnItsWay == OnItsWay /\ [Next]_vars => OnItsWay'
<1> SUFFICES ASSUME OnItsWay, [Next]_vars PROVE OnItsWay'
  OBVIOUS
<1>1. CASE UNCHANGED vars
  BY <1>1, Elsewhere DEF vars
<1>2. ASSUME NEW w \in Slots,
             Write(w) \/ Broadcast(w) \/ Die(w) \/ \E r \in Served : Begin(w, r)
      PROVE  UNCHANGED client
  BY <1>2 DEF Write, Broadcast, Die, Begin
<1>3. ASSUME NEW s \in Sockets,
             \/ Upgrade(s) \/ Register(s) \/ ClientGone(s) \/ CloseHandshake(s)
             \/ Receive(s) \/ Refuse(s) \/ Cut(s)
      PROVE  UNCHANGED client
  BY <1>3 DEF Upgrade, Register, ClientGone, CloseHandshake, Receive, Refuse, Cut
<1>4. ASSUME NEW q \in Queries, Fetching(q) \/ Poll(q) \/ LookAgain(q) \/ FetchFails(q)
      PROVE  UNCHANGED client
  BY <1>4 DEF Fetching, Debounced, Answer, ShowAnswer, Poll, LookAgain, FetchAgain, FetchFails
<1> QED
  BY <1>1, <1>2, <1>3, <1>4, Elsewhere, OpenedOnItsWay, ClosedOnItsWay, ConnectingOnItsWay
     DEF Next, Others, Settling

\* The device never gives up, although the close events of sockets that an earlier run
\* made reset the refs that the current run uses: for any number of sockets.
THEOREM NeverStrandedAlways == Spec => []NeverStranded
<1>1. OnItsWay => NeverStranded
  BY DEF OnItsWay
<1> QED BY <1>1, InitOnItsWay, NextOnItsWay, PTL DEF Spec
-----------------------------------------------------------------------------
\* The rest of the types.
Around ==
  /\ me \in {deviceOf(role) : role \in Roles}
  /\ link \in [Sockets -> {"none", "up", "down"}]
  /\ hub \in [Sockets -> {"none", "checking", "registered"}]
  /\ resyncAfterOpen \in BOOLEAN
  /\ \A s \in Sockets : owner[s] <= run

LEMMA InitAround == Init => Around
<1> SUFFICES ASSUME Init PROVE Around
  OBVIOUS
<1>1. /\ me \in {deviceOf(role) : role \in Roles}
      /\ link = [s \in Sockets |-> "none"] /\ hub = [s \in Sockets |-> "none"]
      /\ owner = [s \in Sockets |-> IF s = 1 THEN 1 ELSE 0]
      /\ run = 1 /\ resyncAfterOpen = FALSE
  BY DEF Init
<1>2. \A s \in Sockets : owner[s] <= run
  BY <1>1
<1>3. /\ link \in [Sockets -> {"none", "up", "down"}]
      /\ hub \in [Sockets -> {"none", "checking", "registered"}]
      /\ resyncAfterOpen \in BOOLEAN
  BY <1>1
<1>4. me \in {deviceOf(role) : role \in Roles}
  BY <1>1
<1> QED BY <1>2, <1>3, <1>4 DEF Around

LEMMA ConnectAround ==
  ASSUME OnItsWay, Around, NEW r \in Nat, NEW closed, NEW ownerThen \in [Sockets -> Nat],
         Connect(r, closed, ownerThen)
  PROVE  /\ link' \in [Sockets -> {"none", "up", "down"}]
         /\ \A s \in Sockets : owner'[s] \in {r, ownerThen[s]}
<1>1. /\ owner' = [ownerThen EXCEPT ![NextSocket] = r]
      /\ link' = [link EXCEPT ![NextSocket] = "none"]
  BY DEF Connect
<1>2. link' \in [Sockets -> {"none", "up", "down"}]
  BY <1>1 DEF Around
<1>3. \A s \in Sockets : owner'[s] \in {r, ownerThen[s]}
  BY <1>1
<1> QED BY <1>2, <1>3

LEMMA NextAround == OnItsWay /\ Around /\ [Next]_vars => Around'
<1> SUFFICES ASSUME OnItsWay, Around, [Next]_vars PROVE Around'
  OBVIOUS
<1>1. ASSUME UNCHANGED <<me, link, hub, resyncAfterOpen, owner, run>> PROVE Around'
  BY <1>1 DEF Around
<1>2. CASE UNCHANGED vars
  BY <1>1, <1>2 DEF vars, server, client
<1>3. ASSUME NEW w \in Slots, Write(w) \/ Broadcast(w) \/ Die(w) \/ \E r \in Served : Begin(w, r)
      PROVE  Around'
  BY <1>1, <1>3 DEF Write, Broadcast, Die, Begin, client
<1>4. ASSUME NEW s \in Sockets,
             \/ Upgrade(s) \/ Register(s) \/ ClientGone(s) \/ Refuse(s)
             \/ Cut(s) \/ CloseHandshake(s) \/ Receive(s)
      PROVE  Around'
  <2>1. UNCHANGED <<me, resyncAfterOpen, owner, run>>
    BY <1>4 DEF Upgrade, Register, ClientGone, Refuse, Cut, CloseHandshake, Receive, client
  <2>2. /\ link' \in [Sockets -> {"none", "up", "down"}]
        /\ hub' \in [Sockets -> {"none", "checking", "registered"}]
    BY <1>4 DEF Upgrade, Register, ClientGone, Refuse, Cut, CloseHandshake, Receive, server, Around
  <2> QED BY <2>1, <2>2 DEF Around
<1>5. ASSUME NEW s \in Sockets, Opened(s) \/ Closed(s) PROVE Around'
  <2>1. UNCHANGED <<me, link, hub, owner, run>>
    BY <1>5 DEF Opened, Closed, server
  <2>2. resyncAfterOpen' \in {TRUE, FALSE, resyncAfterOpen}
    BY <1>5 DEF Opened, Closed
  <2> QED BY <2>1, <2>2 DEF Around
<1>6. run \in Nat /\ owner \in [Sockets -> Nat]
  BY DEF OnItsWay, Refs
<1>7. CASE Reconnect
  <2>1. Connect(run, 0, owner) /\ UNCHANGED <<me, hub, run, resyncAfterOpen>>
    BY <1>7 DEF Reconnect, server
  <2>2. /\ link' \in [Sockets -> {"none", "up", "down"}]
        /\ \A s \in Sockets : owner'[s] \in {run, owner[s]}
    BY <1>6, <2>1, ConnectAround
  <2> QED BY <1>6, <2>1, <2>2 DEF Around
<1>8. CASE Online
  <2> DEFINE ownerThen == [s \in Sockets |-> IF s = wsRef THEN 0 ELSE owner[s]]
  <2>1. Connect(run, wsRef, ownerThen) /\ UNCHANGED <<me, hub, run>> /\ resyncAfterOpen' = TRUE
    BY <1>8 DEF Online, server
  <2>2. ownerThen \in [Sockets -> Nat] /\ \A s \in Sockets : ownerThen[s] \in {0, owner[s]}
    BY <1>6
  <2> HIDE DEF ownerThen
  <2>3. /\ link' \in [Sockets -> {"none", "up", "down"}]
        /\ \A s \in Sockets : owner'[s] \in {run, ownerThen[s]}
    BY <1>6, <2>1, <2>2, ConnectAround
  <2> QED BY <1>6, <2>1, <2>2, <2>3 DEF Around
<1>9. CASE Rerun
  <2>1. /\ Connect(run + 1, wsRef, owner) /\ run' = run + 1
        /\ UNCHANGED <<me, hub, resyncAfterOpen>>
    BY <1>9 DEF Rerun, server
  <2>2. /\ link' \in [Sockets -> {"none", "up", "down"}]
        /\ \A s \in Sockets : owner'[s] \in {run + 1, owner[s]}
    BY <1>6, <2>1, ConnectAround
  <2>3. \A s \in Sockets : owner'[s] <= run'
    BY <1>6, <2>1, <2>2 DEF Around
  <2> QED BY <2>1, <2>2, <2>3 DEF Around
<1>10. ASSUME NEW q \in Queries, Fetching(q) \/ Poll(q) \/ LookAgain(q) \/ FetchFails(q)
       PROVE  Around'
  BY <1>1, <1>10
     DEF Fetching, Debounced, Answer, ShowAnswer, Poll, LookAgain, FetchAgain, FetchFails, server, client
<1> QED
  BY <1>2, <1>3, <1>4, <1>5, <1>7, <1>8, <1>9, <1>10 DEF Next, Others, Settling

\* Type correctness; no socket is of a run of the effect that is yet to come.
THEOREM TypeCorrect == Spec => []TypeOK
<1>1. Device /\ OnItsWay /\ Around => TypeOK
  <2> SUFFICES ASSUME Device, OnItsWay, Around PROVE TypeOK
    OBVIOUS
  <2>1. owner \in [Sockets -> 0..run]
    BY DEF OnItsWay, Refs, Around
  <2> QED BY <2>1 DEF TypeOK, Device, Known, OnItsWay, Refs, Around
<1> QED
  BY <1>1, AlwaysDevice, InitOnItsWay, NextOnItsWay, InitAround, NextAround, PTL DEF Spec

\* The machine's list, patched by events and overwritten by late answers, shows only what
\* was true at some time: the safety part of PollingCatchesUp.
THEOREM PollingShowsTruth == Spec => PolledView!Shows
<1> DEFINE mt == "machine-tasks"
<1>1. Init => PolledView!Init
  BY DEF Init, PolledView!Init, isMine, Queries
<1>2. ASSUME Device, [Next]_vars
      PROVE  [PolledView!Change \/ PolledView!Show]_(PolledView!vars)
  <2>1. mt \in Queries /\ db[mt] \in Nat /\ view[mt] \in Int
    BY <1>2 DEF Device, Known, Queries
  <2>2. \/ UNCHANGED <<db[mt], view[mt]>>
        \/ db'[mt] = db[mt] + 1 /\ view'[mt] = view[mt]
        \/ db'[mt] = db[mt] /\ view'[mt] \in 0..db[mt]
    <3>1. ASSUME NEW w \in Slots, Write(w)
          PROVE  db'[mt] \in {db[mt], db[mt] + 1} /\ view'[mt] = view[mt]
      BY <2>1, <3>1 DEF Write
    <3>2. ASSUME NEW s \in Sockets, Receive(s)
          PROVE  db'[mt] = db[mt] /\ (view'[mt] = view[mt] \/ view'[mt] \in 0..db[mt])
      <4>1. /\ db' = db
            /\ view'[mt] = view[mt] \/ view'[mt] = Head(wire[s]).row
            /\ wire[s] # << >>
        BY <2>1, <3>2 DEF Receive, server
      <4>2. wire[s] \in Seq(Message)
        BY <1>2 DEF Device, Known
      <4>3. wire[s][1] = Head(wire[s]) /\ 1 \in DOMAIN wire[s] /\ Head(wire[s]) \in Message
        BY <4>1, <4>2
      <4>4. Head(wire[s]).row \in 0..db[mt]
        BY <1>2, <2>1, <4>3 DEF Device, NotAhead, Message
      <4> QED BY <4>1, <4>4
    <3>3. ASSUME NEW q \in Queries, ShowAnswer(q)
          PROVE  db'[mt] = db[mt] /\ (view'[mt] = view[mt] \/ view'[mt] \in 0..db[mt])
      <4>1. /\ db' = db /\ fetch[q] >= 0
            /\ view' = [view EXCEPT ![q] = fetch[q]]
        BY <3>3 DEF ShowAnswer, server
      <4>2. fetch[mt] \in Int /\ fetch[mt] <= db[mt]
        <5>1. fetch \in [Queries -> Nat \cup {-2, -1}]
          BY <1>2 DEF Device, Known, IDLE, SENT
        <5>2. fetch[mt] <= db[mt]
          BY <1>2, <2>1 DEF Device, NotAhead
        <5> QED BY <2>1, <5>1, <5>2
      <4> QED BY <1>2, <2>1, <4>1, <4>2 DEF Device, Known
    <3>4. ASSUME NEW w \in Slots, Broadcast(w) \/ Die(w) \/ \E r \in Served : Begin(w, r)
          PROVE  UNCHANGED <<db, view>>
      BY <3>4 DEF Broadcast, Die, Begin, device
    <3>5. ASSUME NEW s \in Sockets,
                 \/ Upgrade(s) \/ Register(s) \/ ClientGone(s) \/ CloseHandshake(s)
                 \/ Opened(s) \/ Closed(s) \/ Refuse(s) \/ Cut(s)
          PROVE  UNCHANGED <<db, view>>
      BY <3>5 DEF Upgrade, Register, ClientGone, CloseHandshake, Opened, Closed, Refuse, Cut,
                  server, device
    <3>6. ASSUME Reconnect \/ Online \/ Rerun PROVE UNCHANGED <<db, view>>
      BY <3>6 DEF Reconnect, Online, Rerun, server, device
    <3>7. ASSUME NEW q \in Queries, Debounced(q) \/ Answer(q) \/ Poll(q) \/ LookAgain(q) \/ FetchFails(q)
          PROVE  UNCHANGED <<db, view>>
      BY <3>7 DEF Debounced, Answer, Poll, LookAgain, FetchAgain, FetchFails, server
    <3>8. CASE UNCHANGED vars
      BY <3>8 DEF vars, server, device
    <3> QED
      BY <1>2, <3>1, <3>2, <3>3, <3>4, <3>5, <3>6, <3>7, <3>8 DEF Next, Others, Settling, Fetching
  <2> QED
    BY <2>1, <2>2 DEF PolledView!Change, PolledView!Show, PolledView!vars
<1> QED BY <1>1, <1>2, AlwaysDevice, PTL DEF Spec, PolledView!Shows
-----------------------------------------------------------------------------
(* What is told.                                                           *)

Hears(q, e) == shouldSendToClient(me, e) /\ q \in Concerned(e)

\* An event of a burst.
IsIn(e, events) == \E k \in DOMAIN events : events[k] = e

LEMMA InEither ==
  ASSUME NEW A \in Seq(Event), NEW B \in Seq(Event), NEW e, IsIn(e, A) \/ IsIn(e, B)
  PROVE  IsIn(e, A \o B)
<1>1. ASSUME NEW k \in DOMAIN A, A[k] = e PROVE IsIn(e, A \o B)
  <2>1. k \in DOMAIN (A \o B) /\ (A \o B)[k] = e
    BY <1>1
  <2> QED BY <2>1 DEF IsIn
<1>2. ASSUME NEW k \in DOMAIN B, B[k] = e PROVE IsIn(e, A \o B)
  <2>1. Len(A) + k \in DOMAIN (A \o B) /\ (A \o B)[Len(A) + k] = e
    BY <1>2
  <2> QED BY <2>1 DEF IsIn
<1> QED BY <1>1, <1>2 DEF IsIn

LEMMA InShort ==
  ASSUME NEW a \in Event, NEW b \in Event
  PROVE  IsIn(a, <<a>>) /\ IsIn(a, <<a, b>>) /\ IsIn(b, <<a, b>>)
<1>1. 1 \in DOMAIN <<a>> /\ 1 \in DOMAIN <<a, b>> /\ 2 \in DOMAIN <<a, b>>
  OBVIOUS
<1> QED BY <1>1 DEF IsIn

\* The supply desk hears of whatever its list may show.
LEMMA DeskHears ==
  ASSUME NEW role \in MACHINE_DOMAIN_ROLES, me = deviceOf(role),
         "replenishment-requests" \in Watched,
         NEW e \in Event, e.type \in SUPPLY_REPLENISHMENT_EVENT_TYPES
  PROVE  Hears("replenishment-requests", e)
<1>1. role \notin {"PALLET_TRANSPORTER", "OPERATOR_MACHINE"} /\ me.role = role /\ me.sector = ThisSector
  BY DEF deviceOf, MACHINE_DOMAIN_ROLES, Admins
<1>2. shouldSendToClient(me, e)
  BY <1>1 DEF shouldSendToClient, matchesSupplyReplenishment, sectorMatches, Event
<1>3. wsContext(me).role = role /\ wsContext(me).sector \in {NONE, ThisSector}
  BY <1>1 DEF wsContext, deviceOf
<1>4. wsEventMatchesSubscriber(e, wsContext(me))
  BY <1>3 DEF wsEventMatchesSubscriber, isSupplyReplenishment, wsEventMatchesSupplyReplenishment, Event
<1>5. "replenishment-requests" \in InvalidatedLater(e)
  BY <1>1 DEF InvalidatedLater, isMovimentOperator, shouldInvalidateSupplyReplenishmentPage
<1>6. "replenishment-requests" \in QueriesOf(me.role)
  BY <1>1 DEF QueriesOf
<1> QED BY <1>2, <1>4, <1>5, <1>6 DEF Hears, Concerned

\* A transporter hears of the trips that its equipment can make.
LEMMA TransporterHears ==
  ASSUME me = deviceOf("PALLET_TRANSPORTER"), "trip-suggestions" \in Watched,
         NEW e \in Event, e.moviment \in AllowedTypes \cup {NONE},
         \/ e.type \in {"trip_suggestions_updated", "delivery_task_created",
                        "machine_production_status_updated"}
         \/ e.type \in TaskUpdated /\ e.status # "CANCELED"
  PROVE  Hears("trip-suggestions", e)
<1>1. /\ me.role = "PALLET_TRANSPORTER" /\ me.sector = ThisSector /\ me.types = AllowedTypes
      /\ wsContext(me) = me
  BY DEF deviceOf, wsContext, Admins
<1>2. e.type \in SECTOR_QUEUE_EVENT_TYPES \cup TaskUpdated
  BY DEF SECTOR_QUEUE_EVENT_TYPES
<1>3. shouldSendToClient(me, e)
  BY <1>1, <1>2 DEF shouldSendToClient, matchesMovimentOperator, sectorMatches,
                    movimentTypeMatches, Event
<1>4. wsEventMatchesSubscriber(e, wsContext(me))
  BY <1>1, <1>2 DEF wsEventMatchesSubscriber, isMovimentOperator,
                    wsEventMatchesMovimentOperator, Event
<1>5. "trip-suggestions" \in InvalidatedLater(e)
  BY <1>1 DEF InvalidatedLater, isMovimentOperator, shouldInvalidateTripSuggestions
<1>6. "trip-suggestions" \in QueriesOf(me.role)
  BY <1>1 DEF QueriesOf, QueuesOfTransport
<1> QED BY <1>3, <1>4, <1>5, <1>6 DEF Hears, Concerned

LEMMA ToldBy ==
  ASSUME NEW r \in Seq(Step), NEW q, NEW j \in DOMAIN r, r[j].do = "tell",
         NEW e, IsIn(e, r[j].events), Hears(q, e),
         \A i \in DOMAIN r : i > j /\ r[i].do = "write" => q \notin Touched(r[i])
  PROVE  q \notin Untold(r)
<1> SUFFICES ASSUME NEW i \in DOMAIN r, r[i].do = "write", q \in Touched(r[i])
             PROVE  q \in WillHear(SubSeq(r, i + 1, Len(r)))
  BY DEF Untold
<1>1. i < j
  <2>1. i \in Int /\ j \in Int /\ i # j /\ ~ (i > j)
    OBVIOUS
  <2> QED BY <2>1
<1> DEFINE rest == SubSeq(r, i + 1, Len(r))
<1>2. j - i \in DOMAIN rest /\ rest[j - i] = r[j]
  BY <1>1
<1>3. PICK k \in DOMAIN r[j].events : r[j].events[k] = e
  BY DEF IsIn
<1> HIDE DEF rest
<1>4. q \in WillHear(rest)
  BY <1>2, <1>3, HearsWhat DEF Hears
<1> QED BY <1>4 DEF rest

\* Steps that tell, or that leave list q as it is.
Quiet(q) == {step \in Step : step.do = "write" => q \notin Touched(step)}

LEMMA QuietSteps ==
  ASSUME NEW q
  PROVE  /\ Quiet(q) \subseteq Step
         /\ \A events \in Seq(Event) : tell(events) \in Quiet(q)
         /\ \A queries \in SUBSET Queries, types \in SUBSET TaskTypes :
              q \notin queries => write(queries, types) \in Quiet(q)
         /\ \A queries \in SUBSET Queries, types \in SUBSET TaskTypes :
              q = "trip-suggestions" /\ types \cap AllowedTypes = {} =>
                write(queries, types) \in Quiet(q)
<1>1. ASSUME NEW events \in Seq(Event) PROVE tell(events) \in Quiet(q)
  BY StepsAreSteps DEF tell, Quiet
<1>2. ASSUME NEW queries \in SUBSET Queries, NEW types \in SUBSET TaskTypes, q \notin queries
      PROVE  write(queries, types) \in Quiet(q)
  BY <1>2, StepsAreSteps DEF write, Quiet, Touched
<1>3. ASSUME NEW queries \in SUBSET Queries, NEW types \in SUBSET TaskTypes,
             q = "trip-suggestions", types \cap AllowedTypes = {}
      PROVE  write(queries, types) \in Quiet(q)
  BY <1>3, StepsAreSteps DEF write, Quiet, Touched, QueuesOfTransport
<1> QED BY <1>1, <1>2, <1>3 DEF Quiet

LEMMA Untouched ==
  ASSUME NEW q, NEW r \in Seq(Quiet(q)) PROVE q \notin Untold(r)
<1>1. \A i \in DOMAIN r : r[i] \in Quiet(q)
  OBVIOUS
<1> QED BY <1>1 DEF Untold, Quiet

\* A change is told when a burst that is heard follows the last write of it.
LEMMA ToldThen ==
  ASSUME NEW A \in Seq(Step), NEW events \in Seq(Event), NEW q, NEW B \in Seq(Quiet(q)),
         NEW e, IsIn(e, events), Hears(q, e)
  PROVE  q \notin Untold((A \o <<tell(events)>>) \o B)
<1> DEFINE r == (A \o <<tell(events)>>) \o B
           n == Len(A) + 1
<1>1. tell(events) \in Step /\ B \in Seq(Step)
  <2>1. Quiet(q) \subseteq Step
    BY DEF Quiet
  <2> QED BY <2>1, StepsAreSteps
<1>2. r \in Seq(Step) /\ n \in DOMAIN r /\ r[n] = tell(events)
  BY <1>1
<1>3. \A i \in DOMAIN r : i > n => r[i] \in Quiet(q)
  <2> SUFFICES ASSUME NEW i \in DOMAIN r, i > n PROVE r[i] \in Quiet(q)
    OBVIOUS
  <2>1. i - n \in DOMAIN B /\ r[i] = B[i - n]
    BY <1>1
  <2> QED BY <2>1
<1>4. r[n].do = "tell" /\ r[n].events = events
  BY <1>2 DEF tell
<1> HIDE DEF r, n
<1>5. \A i \in DOMAIN r : i > n /\ r[i].do = "write" => q \notin Touched(r[i])
  BY <1>3 DEF Quiet
<1>6. q \notin Untold(r)
  BY <1>2, <1>4, <1>5, ToldBy
<1> QED BY <1>6 DEF r

LEMMA ToldLast ==
  ASSUME NEW A \in Seq(Step), NEW events \in Seq(Event), NEW q,
         NEW e, IsIn(e, events), Hears(q, e)
  PROVE  q \notin Untold(A \o <<tell(events)>>)
<1>1. << >> \in Seq(Quiet(q))
  OBVIOUS
<1>2. q \notin Untold((A \o <<tell(events)>>) \o << >>)
  BY <1>1, ToldThen
<1>3. A \o <<tell(events)>> \in Seq(Step)
  BY StepsAreSteps
<1>4. (A \o <<tell(events)>>) \o << >> = A \o <<tell(events)>>
  BY <1>3
<1> QED BY <1>2, <1>4

\* A transporter is told of the trips of a type, if its equipment can make them.
LEMMA TripsTold ==
  ASSUME me = deviceOf("PALLET_TRANSPORTER"), "trip-suggestions" \in Watched,
         NEW t \in TaskTypes, NEW A \in Seq(Step), NEW events \in Seq(Event),
         NEW e \in Event, IsIn(e, events), e.moviment = t,
         \/ e.type \in {"trip_suggestions_updated", "delivery_task_created"}
         \/ e.type \in TaskUpdated /\ e.status # "CANCELED",
         t \notin AllowedTypes => A \in Seq(Quiet("trip-suggestions"))
  PROVE  "trip-suggestions" \notin Untold(A \o <<tell(events)>>)
<1>1. CASE t \in AllowedTypes
  BY <1>1, TransporterHears, ToldLast
<1>2. CASE t \notin AllowedTypes
  BY <1>2, QuietSteps, ShortSequences, Untouched
<1> QED BY <1>1, <1>2

\* What the bursts of the hub say.
LEMMA Bursts ==
  ASSUME NEW t \in TaskTypes, NEW status \in Statuses
  PROVE  /\ \A prepared \in BOOLEAN :
              IsIn(taskEvent("delivery_task_updated", t, status, ItsOperator),
                   NotifyDeliveryTaskChange(t, status, prepared))
         /\ status \in {"ASSIGNED", "COMPLETED"} =>
              IsIn(tripSuggestionsUpdated(t), NotifyDeliveryTaskChange(t, status, TRUE))
         /\ \A dest \in {NONE, ItsOperator} :
              /\ IsIn(taskEvent("pickup_task_updated", t, status, dest),
                      NotifyPickupTaskChange(t, status, dest))
              /\ status \in {"ASSIGNED", "COMPLETED"} =>
                   IsIn(tripSuggestionsUpdated(t), NotifyPickupTaskChange(t, status, dest))
<1>1. /\ taskEvent("delivery_task_updated", t, status, ItsOperator) \in Event
      /\ \A dest \in {NONE, ItsOperator} : taskEvent("pickup_task_updated", t, status, dest) \in Event
      /\ deliveryTaskCreated(t) \in Event /\ queueUpdated(t) \in Event
      /\ tripSuggestionsUpdated(t) \in Event
  BY EventsAreEvents
<1>2. /\ <<deliveryTaskCreated(t), tripSuggestionsUpdated(t)>> \in Seq(Event)
      /\ <<tripSuggestionsUpdated(t)>> \in Seq(Event) /\ << >> \in Seq(Event)
      /\ <<tripSuggestionsUpdated(t), queueUpdated(t)>> \in Seq(Event)
      /\ <<taskEvent("delivery_task_updated", t, status, ItsOperator)>> \in Seq(Event)
      /\ \A dest \in {NONE, ItsOperator} :
           <<taskEvent("pickup_task_updated", t, status, dest)>> \in Seq(Event)
  BY <1>1, ShortSequences
<1>3. ASSUME NEW prepared \in BOOLEAN
      PROVE  IsIn(taskEvent("delivery_task_updated", t, status, ItsOperator),
                  NotifyDeliveryTaskChange(t, status, prepared))
  <2> DEFINE rest == CASE status = "CREATED" /\ prepared ->
                            <<deliveryTaskCreated(t), tripSuggestionsUpdated(t)>>
                       [] status \in {"ASSIGNED", "COMPLETED"} -> <<tripSuggestionsUpdated(t)>>
                       [] OTHER -> << >>
  <2>1. rest \in Seq(Event)
    BY <1>2
  <2> HIDE DEF rest
  <2>2. IsIn(taskEvent("delivery_task_updated", t, status, ItsOperator),
             <<taskEvent("delivery_task_updated", t, status, ItsOperator)>> \o rest)
    BY <1>1, <1>2, <2>1, InShort, InEither
  <2> QED BY <2>2 DEF NotifyDeliveryTaskChange, rest
<1>4. ASSUME status \in {"ASSIGNED", "COMPLETED"}
      PROVE  IsIn(tripSuggestionsUpdated(t), NotifyDeliveryTaskChange(t, status, TRUE))
  <2>1. NotifyDeliveryTaskChange(t, status, TRUE) =
        <<taskEvent("delivery_task_updated", t, status, ItsOperator)>>
        \o <<tripSuggestionsUpdated(t)>>
    BY <1>4 DEF NotifyDeliveryTaskChange
  <2> QED BY <1>1, <1>2, <2>1, InShort, InEither
<1>5. ASSUME NEW dest \in {NONE, ItsOperator}
      PROVE  /\ IsIn(taskEvent("pickup_task_updated", t, status, dest),
                     NotifyPickupTaskChange(t, status, dest))
             /\ status \in {"ASSIGNED", "COMPLETED"} =>
                  IsIn(tripSuggestionsUpdated(t), NotifyPickupTaskChange(t, status, dest))
  <2> DEFINE more == <<tripSuggestionsUpdated(t), queueUpdated(t)>>
             rest == IF status \in {"ASSIGNED", "COMPLETED"} THEN more ELSE << >>
  <2>1. rest \in Seq(Event)
    BY <1>2
  <2>2. IsIn(tripSuggestionsUpdated(t), more)
    BY <1>1, InShort
  <2>3. status \in {"ASSIGNED", "COMPLETED"} => IsIn(tripSuggestionsUpdated(t), rest)
    BY <2>2
  <2>4. NotifyPickupTaskChange(t, status, dest) =
        <<taskEvent("pickup_task_updated", t, status, dest)>> \o rest
    BY DEF NotifyPickupTaskChange
  <2>5. IsIn(taskEvent("pickup_task_updated", t, status, dest),
             <<taskEvent("pickup_task_updated", t, status, dest)>>)
    BY <1>1, InShort
  <2> HIDE DEF rest
  <2> QED BY <1>2, <2>1, <2>3, <2>4, <2>5, InEither
<1> QED BY <1>3, <1>4, <1>5

LEMMA OutcomesSay ==
  ASSUME NEW t \in TaskTypes, NEW outcome \in Outcomes
  PROVE  IsIn(tripSuggestionsUpdated(t), applyLinkOutcome(t, outcome))
<1>1. /\ tripSuggestionsUpdated(t) \in Event /\ queueUpdated(t) \in Event
      /\ <<tripSuggestionsUpdated(t)>> \in Seq(Event)
      /\ <<tripSuggestionsUpdated(t), queueUpdated(t)>> \in Seq(Event)
  BY EventsAreEvents, ShortSequences
<1>2. /\ NotifyPickupTaskChange(t, "CREATED", ItsOperator) \in Seq(Event)
      /\ NotifyPickupTaskChange(t, "ASSIGNED", NONE) \in Seq(Event)
  BY ChangesAreEvents DEF Statuses
<1>3. /\ IsIn(tripSuggestionsUpdated(t), <<tripSuggestionsUpdated(t)>>)
      /\ IsIn(tripSuggestionsUpdated(t), <<tripSuggestionsUpdated(t), queueUpdated(t)>>)
  BY <1>1, InShort
<1>4. CASE outcome = "CREATED"
  <2>1. applyLinkOutcome(t, outcome) = NotifyPickupTaskChange(t, "CREATED", ItsOperator)
                                       \o <<tripSuggestionsUpdated(t)>>
    BY <1>4 DEF applyLinkOutcome
  <2> QED BY <1>1, <1>2, <1>3, <2>1, InEither
<1>5. CASE outcome = "ASSIGNED"
  <2>1. applyLinkOutcome(t, outcome) = NotifyPickupTaskChange(t, "ASSIGNED", NONE)
                                       \o <<tripSuggestionsUpdated(t)>>
    BY <1>5 DEF applyLinkOutcome
  <2> QED BY <1>1, <1>2, <1>3, <2>1, InEither
<1>6. CASE outcome = "JOINED"
  <2>1. applyLinkOutcome(t, outcome) = NotifyPickupTaskChange(t, "ASSIGNED", NONE)
                                       \o <<tripSuggestionsUpdated(t), queueUpdated(t)>>
    BY <1>6 DEF applyLinkOutcome
  <2> QED BY <1>1, <1>2, <1>3, <2>1, InEither
<1> QED BY <1>4, <1>5, <1>6 DEF Outcomes

LEMMA EventsSay ==
  ASSUME NEW t \in TaskTypes, NEW type, NEW status, NEW dest
  PROVE  /\ tripSuggestionsUpdated(t).type = "trip_suggestions_updated"
         /\ tripSuggestionsUpdated(t).moviment = t
         /\ deliveryTaskCreated(t).type = "delivery_task_created"
         /\ deliveryTaskCreated(t).moviment = t
         /\ taskEvent(type, t, status, dest).type = type
         /\ taskEvent(type, t, status, dest).moviment = t
         /\ taskEvent(type, t, status, dest).status = status
         /\ supplyRequestCreated.type = "operator_supply_request_created"
BY DEF tripSuggestionsUpdated, deliveryTaskCreated, taskEvent, supplyRequestCreated, sectorEvent

\* The bursts of the services.
LEMMA ReadyIsTold ==
  ASSUME NEW t \in TaskTypes
  PROVE  /\ <<queueUpdated(t), tripSuggestionsUpdated(t)>> \in Seq(Event)
         /\ IsIn(tripSuggestionsUpdated(t), <<queueUpdated(t), tripSuggestionsUpdated(t)>>)
BY EventsAreEvents, ShortSequences, InShort

LEMMA CreationSays ==
  ASSUME NEW t \in TaskTypes, NEW b \in BOOLEAN
  PROVE  /\ <<deliveryTaskCreated(t)>> \o
            (IF b THEN <<queueUpdated(t), tripSuggestionsUpdated(t)>> ELSE << >>) \in Seq(Event)
         /\ IsIn(deliveryTaskCreated(t), <<deliveryTaskCreated(t)>> \o
                 (IF b THEN <<queueUpdated(t), tripSuggestionsUpdated(t)>> ELSE << >>))
<1> DEFINE rest == IF b THEN <<queueUpdated(t), tripSuggestionsUpdated(t)>> ELSE << >>
<1>1. rest \in Seq(Event)
  BY ReadyIsTold, ShortSequences
<1>2. <<deliveryTaskCreated(t)>> \in Seq(Event) /\ IsIn(deliveryTaskCreated(t), <<deliveryTaskCreated(t)>>)
  BY EventsAreEvents, ShortSequences, InShort
<1> HIDE DEF rest
<1>3. /\ <<deliveryTaskCreated(t)>> \o rest \in Seq(Event)
      /\ IsIn(deliveryTaskCreated(t), <<deliveryTaskCreated(t)>> \o rest)
  BY <1>1, <1>2, InEither, ShortSequences
<1> QED BY <1>3 DEF rest

LEMMA CancellationSays ==
  ASSUME NEW t \in TaskTypes, NEW d \in TaskTypes, NEW x \in Drops
  PROVE  LET events == NotifyPickupTaskChange(t, "CANCELED", ItsOperator)
                       \o (IF x = "DELIVERY" THEN NotifyDeliveryTaskChange(d, "CANCELED", FALSE) ELSE << >>)
                       \o <<queueUpdated(t), tripSuggestionsUpdated(t)>>
         IN  /\ events \in Seq(Event)
             /\ IsIn(tripSuggestionsUpdated(t), events)
             /\ x = "DELIVERY" =>
                  IsIn(taskEvent("delivery_task_updated", d, "CANCELED", ItsOperator), events)
<1> DEFINE first == NotifyPickupTaskChange(t, "CANCELED", ItsOperator)
           drop  == IF x = "DELIVERY" THEN NotifyDeliveryTaskChange(d, "CANCELED", FALSE) ELSE << >>
           last  == <<queueUpdated(t), tripSuggestionsUpdated(t)>>
           e     == taskEvent("delivery_task_updated", d, "CANCELED", ItsOperator)
<1>1. first \in Seq(Event) /\ drop \in Seq(Event) /\ last \in Seq(Event)
  BY ChangesAreEvents, ReadyIsTold, ShortSequences DEF Statuses
<1>2. IsIn(tripSuggestionsUpdated(t), last)
  BY ReadyIsTold
<1>3. x = "DELIVERY" => IsIn(e, drop)
  BY Bursts DEF Statuses
<1> HIDE DEF first, drop, last, e
<1>4. first \o drop \in Seq(Event) /\ (first \o drop) \o last \in Seq(Event)
  BY <1>1, ShortSequences
<1>5. IsIn(tripSuggestionsUpdated(t), (first \o drop) \o last)
  BY <1>1, <1>2, <1>4, InEither
<1>6. x = "DELIVERY" => IsIn(e, (first \o drop) \o last)
  <2>1. x = "DELIVERY" => IsIn(e, first \o drop)
    BY <1>1, <1>3, InEither
  <2> QED BY <1>1, <1>4, <2>1, InEither
<1> QED BY <1>4, <1>5, <1>6 DEF first, drop, last, e

LEMMA TripSays ==
  ASSUME NEW t \in TaskTypes, NEW p \in TaskTypes
  PROVE  LET events == NotifyDeliveryTaskChange(t, "ASSIGNED", TRUE)
                       \o NotifyPickupTaskChange(p, "ASSIGNED", ItsOperator)
         IN  /\ events \in Seq(Event)
             /\ IsIn(tripSuggestionsUpdated(t), events)
             /\ IsIn(taskEvent("delivery_task_updated", t, "ASSIGNED", ItsOperator), events)
<1>1. /\ NotifyDeliveryTaskChange(t, "ASSIGNED", TRUE) \in Seq(Event)
      /\ NotifyPickupTaskChange(p, "ASSIGNED", ItsOperator) \in Seq(Event)
  BY ChangesAreEvents DEF Statuses
<1>2. /\ IsIn(tripSuggestionsUpdated(t), NotifyDeliveryTaskChange(t, "ASSIGNED", TRUE))
      /\ IsIn(taskEvent("delivery_task_updated", t, "ASSIGNED", ItsOperator),
              NotifyDeliveryTaskChange(t, "ASSIGNED", TRUE))
  BY Bursts DEF Statuses
<1> QED BY <1>1, <1>2, InEither, ShortSequences

LEMMA EditSays ==
  ASSUME NEW t \in TaskTypes, NEW b \in BOOLEAN
  PROVE  LET events == NotifyDeliveryTaskChange(t, "CREATED", b)
                       \o <<queueUpdated(t), tripSuggestionsUpdated(t)>>
         IN  /\ events \in Seq(Event)
             /\ IsIn(taskEvent("delivery_task_updated", t, "CREATED", ItsOperator), events)
<1>1. NotifyDeliveryTaskChange(t, "CREATED", b) \in Seq(Event)
  BY ChangesAreEvents DEF Statuses
<1>2. IsIn(taskEvent("delivery_task_updated", t, "CREATED", ItsOperator),
           NotifyDeliveryTaskChange(t, "CREATED", b))
  BY Bursts DEF Statuses
<1> QED BY <1>1, <1>2, InEither, ReadyIsTold, ShortSequences

LEMMA AskingSays ==
  ASSUME NEW t \in TaskTypes
  PROVE  LET events == NotifyPickupTaskChange(t, "CREATED", ItsOperator) \o <<supplyRequestCreated>>
         IN  events \in Seq(Event) /\ IsIn(supplyRequestCreated, events)
<1>1. NotifyPickupTaskChange(t, "CREATED", ItsOperator) \in Seq(Event)
  BY ChangesAreEvents DEF Statuses
<1>2. <<supplyRequestCreated>> \in Seq(Event) /\ IsIn(supplyRequestCreated, <<supplyRequestCreated>>)
  BY EventsAreEvents, ShortSequences, InShort
<1> QED BY <1>1, <1>2, InEither, ShortSequences

\* The steps of a request, taken apart.
LEMMA PairApart ==
  ASSUME NEW x \in Step, NEW y \in Step
  PROVE  <<x, y>> = <<x>> \o <<y>>
<1>1. /\ <<x>> \in Seq(Step) /\ <<y>> \in Seq(Step) /\ <<x, y>> \in Seq(Step)
      /\ <<x>> \o <<y>> \in Seq(Step)
  BY ShortSequences
<1>2. Len(<<x, y>>) = 2 /\ Len(<<x>> \o <<y>>) = 2
  BY <1>1
<1>3. (<<x>> \o <<y>>)[1] = x /\ (<<x>> \o <<y>>)[2] = y
  BY <1>1
<1>4. \A i \in 1..2 : i = 1 \/ i = 2
  OBVIOUS
<1>5. \A i \in 1..2 : <<x, y>>[i] = (<<x>> \o <<y>>)[i]
  BY <1>3, <1>4
<1> QED BY <1>1, <1>2, <1>5, SeqEqual

LEMMA LastApart ==
  ASSUME NEW a \in Step, NEW b \in Step, NEW c \in Step, NEW d \in Step
  PROVE  <<a, b, c, d>> = <<a, b, c>> \o <<d>>
OBVIOUS

LEMMA PairsApart ==
  ASSUME NEW a \in Step, NEW b \in Step, NEW c \in Step, NEW d \in Step
  PROVE  <<a, b>> \o <<c, d>> = (<<a, b>> \o <<c>>) \o <<d>>
<1>1. <<c, d>> = <<c>> \o <<d>>
  BY PairApart
<1>2. <<a, b>> \in Seq(Step) /\ <<c>> \in Seq(Step) /\ <<d>> \in Seq(Step)
  BY ShortSequences
<1> QED BY <1>1, <1>2, ConcatAssociative

LEMMA FourJoined ==
  ASSUME NEW a \in Step, NEW b \in Step, NEW c \in Step, NEW d \in Step
  PROVE  <<a, b>> \o <<c, d>> = <<a, b, c, d>>
<1>1. <<a, b, c>> = <<a, b>> \o <<c>>
  OBVIOUS
<1>2. <<a, b>> \o <<c, d>> = (<<a, b>> \o <<c>>) \o <<d>>
  BY PairsApart
<1>3. <<a, b, c, d>> = <<a, b, c>> \o <<d>>
  BY LastApart
<1> QED BY <1>1, <1>2, <1>3

\* A write and a burst.
LEMMA TwoStepsTold ==
  ASSUME NEW a \in Step, NEW events \in Seq(Event), NEW q,
         NEW e, IsIn(e, events), Hears(q, e)
  PROVE  q \notin Untold(<<a, tell(events)>>)
<1>1. tell(events) \in Step /\ <<a>> \in Seq(Step)
  BY StepsAreSteps, ShortSequences
<1>2. <<a, tell(events)>> = <<a>> \o <<tell(events)>>
  BY <1>1, PairApart
<1> QED BY <1>1, <1>2, ToldLast

LEMMA ProductionIsTold ==
  /\ productionStatusUpdated.type = "machine_production_status_updated"
  /\ productionStatusUpdated.moviment = NONE
  /\ \A q : Hears(q, productionStatusUpdated) => q \notin Untold(updateProductionStatus)
<1>1. /\ productionStatusUpdated.type = "machine_production_status_updated"
      /\ productionStatusUpdated.moviment = NONE
  BY DEF productionStatusUpdated, sectorEvent
<1>2. <<productionStatusUpdated>> \in Seq(Event)
      /\ IsIn(productionStatusUpdated, <<productionStatusUpdated>>)
  BY ProductionIsEvent, ShortSequences, InShort
<1>3. write(QueuesOfTransport \cup {"replenishment-requests"}, TaskTypes) \in Step
  <2>1. QueuesOfTransport \cup {"replenishment-requests"} \in SUBSET Queries
    BY DEF Queries, QueuesOfTransport
  <2> QED BY <2>1, StepsAreSteps
<1> QED BY <1>1, <1>2, <1>3, TwoStepsTold DEF updateProductionStatus

\* A list that is told of the tasks of type t.
ToldOf(q, t, b) ==
  /\ q \notin Untold(createReplenishment(t, b))
  /\ q \notin Untold(markDeliveryTaskPrepared(t))
  /\ q \notin Untold(requestPickupWithReplenishment(t))
  /\ q \notin Untold(acceptOpenDeliverTask(t))
  /\ q \notin Untold(acceptOpenPickupTask(t, t))
  /\ q \notin Untold(completePickupTask(t, t))
  /\ q \notin Untold(completeDeliverTask(t, b))
  /\ q \notin Untold(updateDeliveryTask(t, t, b))
  /\ \A x \in {NONE, "CREATED", "JOINED"}, d \in TaskTypes :
       (x = "CREATED" => d = t) => q \notin Untold(requestPickupOnly(t, x, d))
  /\ \A x \in {NONE, "CREATED", "ASSIGNED"} : q \notin Untold(requestSupplyOnly(t, x))
  /\ \A x \in Outcomes, d \in TaskTypes :
       (x = "CREATED" => d = t) => q \notin Untold(listMachineTasks(t, x, d))
  /\ \A x \in Drops \ {"REQUEST"}, d \in TaskTypes :
       (x = "PALLET" => d = t) => q \notin Untold(cancelPickupRequest(t, x, d))
  /\ \A p \in TaskTypes : q \notin Untold(acceptTripRouteSuggestion(t, p))

\* What a transporter is told.
LEMMA TransporterIsTold ==
  ASSUME me = deviceOf("PALLET_TRANSPORTER"), "trip-suggestions" \in Watched,
         NEW t \in TaskTypes, NEW b \in BOOLEAN
  PROVE  ToldOf("trip-suggestions", t, b)
<1> DEFINE q    == "trip-suggestions"
           trip == tripSuggestionsUpdated(t)
<1>1. /\ trip \in Event /\ trip.type = "trip_suggestions_updated" /\ trip.moviment = t
      /\ deliveryTaskCreated(t) \in Event /\ deliveryTaskCreated(t).type = "delivery_task_created"
      /\ deliveryTaskCreated(t).moviment = t
  BY EventsAreEvents, EventsSay
<1>2. Hears(q, productionStatusUpdated)
  BY ProductionIsTold, ProductionIsEvent, TransporterHears
\* A write of the tasks of type t.
<1>3. ASSUME NEW queries \in SUBSET Queries
      PROVE  /\ write(queries, {t}) \in Step
             /\ t \notin AllowedTypes => write(queries, {t}) \in Quiet(q)
             /\ q \notin queries => write(queries, {t}) \in Quiet(q)
  BY QuietSteps, StepsAreSteps
<1> HIDE DEF trip
<1>4. ASSUME NEW queries \in SUBSET Queries, NEW events \in Seq(Event),
             NEW e \in {trip, deliveryTaskCreated(t)}, IsIn(e, events)
      PROVE  q \notin Untold(<<write(queries, {t}), tell(events)>>)
  <2>1. tell(events) \in Step
    BY StepsAreSteps
  <2>2. <<write(queries, {t}), tell(events)>> = <<write(queries, {t})>> \o <<tell(events)>>
    BY <1>3, <2>1, PairApart
  <2>3. /\ <<write(queries, {t})>> \in Seq(Step)
        /\ t \notin AllowedTypes => <<write(queries, {t})>> \in Seq(Quiet(q))
    BY <1>3, ShortSequences
  <2> QED BY <1>1, <1>4, <2>2, <2>3, TripsTold
<1>5. ASSUME NEW queries \in SUBSET Queries, NEW events \in Seq(Event), q \notin queries
      PROVE  /\ <<write(queries, {t}), tell(events)>> \in Seq(Quiet(q))
             /\ q \notin Untold(<<write(queries, {t}), tell(events)>>)
  <2>1. write(queries, {t}) \in Quiet(q) /\ tell(events) \in Quiet(q)
    BY <1>3, <1>5, QuietSteps
  <2>2. <<write(queries, {t}), tell(events)>> \in Seq(Quiet(q))
    BY <2>1, ShortSequences
  <2> QED BY <2>2, Untouched
<1> HIDE DEF q
<1>6. /\ QueuesOfTransport \subseteq Queries /\ Queries \in SUBSET Queries
      /\ {"machine-tasks", "replenishment-requests", "my-tasks"} \subseteq Queries
      /\ q \notin {"machine-tasks", "replenishment-requests", "my-tasks"}
  BY DEF Queries, QueuesOfTransport, q
<1>8. q \notin Untold(createReplenishment(t, b))
  <2> DEFINE queries == IF b THEN {"machine-tasks", "replenishment-requests"} \cup QueuesOfTransport
                        ELSE {"machine-tasks", "replenishment-requests"}
             events  == <<deliveryTaskCreated(t)>> \o
                        (IF b THEN <<queueUpdated(t), tripSuggestionsUpdated(t)>> ELSE << >>)
  <2>1. queries \in SUBSET Queries
    BY <1>6
  <2>2. events \in Seq(Event) /\ IsIn(deliveryTaskCreated(t), events)
    BY CreationSays
  <2>3. createReplenishment(t, b) = <<write(queries, {t}), tell(events)>>
    BY DEF createReplenishment
  <2> HIDE DEF queries, events
  <2> QED BY <1>4, <2>1, <2>2, <2>3
<1>9. q \notin Untold(markDeliveryTaskPrepared(t))
  <2> DEFINE a == write({"machine-tasks", "replenishment-requests"} \cup QueuesOfTransport, {t})
             c == tell(NotifyDeliveryTaskChange(t, "CREATED", TRUE))
             f == write(QueuesOfTransport, {t})
             events == <<queueUpdated(t), tripSuggestionsUpdated(t)>>
  <2>1. /\ a \in Step /\ f \in Step
        /\ t \notin AllowedTypes => a \in Quiet(q) /\ f \in Quiet(q)
    BY <1>3, <1>6
  <2>2. NotifyDeliveryTaskChange(t, "CREATED", TRUE) \in Seq(Event)
    BY ChangesAreEvents DEF Statuses
  <2>3. c \in Step /\ c \in Quiet(q)
    BY <2>2, StepsAreSteps, QuietSteps
  <2>4. events \in Seq(Event) /\ IsIn(trip, events)
    BY ReadyIsTold DEF trip
  <2>5. tell(events) \in Step
    BY <2>4, StepsAreSteps
  <2>6. markDeliveryTaskPrepared(t) = <<a, c, f, tell(events)>>
    BY DEF markDeliveryTaskPrepared
  <2> HIDE DEF a, c, f, events
  <2>7. <<a, c, f, tell(events)>> = <<a, c, f>> \o <<tell(events)>>
    BY <2>1, <2>3, <2>5, LastApart
  <2>8. /\ <<a, c, f>> \in Seq(Step)
        /\ t \notin AllowedTypes => <<a, c, f>> \in Seq(Quiet(q))
    BY <2>1, <2>3
  <2> QED BY <1>1, <2>4, <2>6, <2>7, <2>8, TripsTold DEF q
<1>10. q \notin Untold(requestPickupWithReplenishment(t))
  BY <1>5, <1>6, AskingSays DEF requestPickupWithReplenishment
<1>11. /\ NotifyDeliveryTaskChange(t, "ASSIGNED", TRUE) \in Seq(Event)
       /\ NotifyDeliveryTaskChange(t, "COMPLETED", TRUE) \in Seq(Event)
       /\ NotifyPickupTaskChange(t, "ASSIGNED", ItsOperator) \in Seq(Event)
       /\ NotifyPickupTaskChange(t, "COMPLETED", ItsOperator) \in Seq(Event)
       /\ IsIn(trip, NotifyDeliveryTaskChange(t, "ASSIGNED", TRUE))
       /\ IsIn(trip, NotifyPickupTaskChange(t, "ASSIGNED", ItsOperator))
       /\ IsIn(trip, NotifyPickupTaskChange(t, "COMPLETED", ItsOperator))
  BY ChangesAreEvents, Bursts DEF Statuses, trip
<1>12. /\ q \notin Untold(acceptOpenDeliverTask(t))
       /\ q \notin Untold(acceptOpenPickupTask(t, t))
       /\ q \notin Untold(completePickupTask(t, t))
  <2>1. {t, t} = {t}
    OBVIOUS
  <2>2. /\ QueuesOfTransport \cup {"my-tasks", "machine-tasks"} \in SUBSET Queries
        /\ QueuesOfTransport \cup {"my-tasks", "machine-tasks", "replenishment-requests"} \in SUBSET Queries
    BY <1>6
  <2>3. q \notin Untold(acceptOpenDeliverTask(t))
    BY <1>4, <1>11, <2>2 DEF acceptOpenDeliverTask
  <2>4. q \notin Untold(acceptOpenPickupTask(t, t))
    BY <1>4, <1>11, <2>1, <2>2 DEF acceptOpenPickupTask
  <2>5. q \notin Untold(completePickupTask(t, t))
    BY <1>4, <1>11, <2>1, <2>2 DEF completePickupTask
  <2> QED BY <2>3, <2>4, <2>5
<1>7. q \notin Untold(updateDeliveryTask(t, t, b))
  <2> DEFINE queries == QueuesOfTransport \cup {"machine-tasks", "replenishment-requests"}
             first == NotifyDeliveryTaskChange(t, "CREATED", b)
             last == <<queueUpdated(t), tripSuggestionsUpdated(t)>>
             events == first \o last
  <2>1. queries \in SUBSET Queries
    BY <1>6
  <2>2. first \in Seq(Event) /\ last \in Seq(Event) /\ IsIn(trip, last)
    BY ChangesAreEvents, ReadyIsTold DEF Statuses, trip
  <2>3. {t, t} = {t}
    OBVIOUS
  <2>4. updateDeliveryTask(t, t, b) = <<write(queries, {t}), tell(events)>>
    BY <2>3 DEF updateDeliveryTask
  <2> HIDE DEF queries, first, last
  <2>5. events \in Seq(Event) /\ IsIn(trip, events)
    BY <2>2, InEither, ShortSequences
  <2> HIDE DEF events
  <2> QED BY <1>4, <2>1, <2>4, <2>5
<1>13. q \notin Untold(completeDeliverTask(t, b))
  <2> DEFINE a == write({"my-tasks", "machine-tasks", "replenishment-requests"}, {t})
             c == tell(NotifyDeliveryTaskChange(t, "COMPLETED", TRUE))
  <2>1. a \in Quiet(q) /\ c \in Quiet(q) /\ a \in Step /\ c \in Step
    BY <1>3, <1>6, <1>11, QuietSteps
  <2>2. CASE b
    <3> DEFINE f == write(QueuesOfTransport \cup {"replenishment-requests"}, TaskTypes)
               events == <<productionStatusUpdated>>
    <3>1. events \in Seq(Event) /\ IsIn(productionStatusUpdated, events)
      BY ProductionIsEvent, ShortSequences, InShort
    <3>2. f \in Step /\ tell(events) \in Step
      BY <1>6, <3>1, StepsAreSteps
    <3>3. completeDeliverTask(t, b) = <<a, c>> \o <<f, tell(events)>>
      BY <2>2 DEF completeDeliverTask, updateProductionStatus
    <3> HIDE DEF a, c, f, events
    <3>4. <<a, c>> \o <<f, tell(events)>> = (<<a, c>> \o <<f>>) \o <<tell(events)>>
      BY <2>1, <3>2, PairsApart
    <3>5. <<a, c>> \o <<f>> \in Seq(Step)
      BY <2>1, <3>2, ShortSequences
    <3> QED BY <1>2, <3>1, <3>3, <3>4, <3>5, ToldLast
  <2>3. CASE ~ b
    <3>1. completeDeliverTask(t, b) = <<a, c>> \o << >>
      BY <2>3 DEF completeDeliverTask
    <3> HIDE DEF a, c
    <3>2. <<a, c>> \o << >> \in Seq(Quiet(q))
      BY <2>1, ShortSequences
    <3> QED BY <3>1, <3>2, Untouched
  <2> QED BY <2>2, <2>3
\* A pickup that may have joined a delivery on its way.
<1>14. ASSUME NEW x, NEW queries \in SUBSET Queries, NEW events \in Seq(Event),
              \/ IsIn(trip, events)
              \/ IsIn(taskEvent("pickup_task_updated", t, "CREATED", ItsOperator), events)
       PROVE  q \notin Untold(<<write(queries, {t})>> \o joinedWork(x) \o <<tell(events)>>)
  <2> DEFINE A == <<write(queries, {t})>> \o joinedWork(x)
             e == taskEvent("pickup_task_updated", t, "CREATED", ItsOperator)
  <2>1. /\ <<write(queries, {t})>> \in Seq(Step)
        /\ t \notin AllowedTypes => <<write(queries, {t})>> \in Seq(Quiet(q))
    BY <1>3, ShortSequences
  <2>2. joinedWork(x) \in Seq(Step) /\ joinedWork(x) \in Seq(Quiet(q))
    <3>1. write({"my-tasks"}, TaskTypes) \in Step /\ write({"my-tasks"}, TaskTypes) \in Quiet(q)
      BY <1>6, StepsAreSteps, QuietSteps
    <3> QED BY <3>1, ShortSequences DEF joinedWork
  <2>3. A \in Seq(Step) /\ (t \notin AllowedTypes => A \in Seq(Quiet(q)))
    BY <2>1, <2>2, ShortSequences
  <2>4. /\ e \in Event /\ e.moviment = t /\ e.type \in TaskUpdated /\ e.status # "CANCELED"
    BY EventsAreEvents, EventsSay DEF Statuses, TaskUpdated
  <2> HIDE DEF A
  <2>5. q \notin Untold(A \o <<tell(events)>>)
    <3>1. CASE IsIn(trip, events)
      BY <1>1, <2>3, <3>1, TripsTold DEF q
    <3>2. CASE IsIn(e, events)
      <4> HIDE DEF e
      <4> QED BY <2>3, <2>4, <3>2, TripsTold DEF q
    <3> QED BY <1>14, <3>1, <3>2
  <2> QED BY <2>5 DEF A
<1>15. ASSUME NEW x \in {NONE, "CREATED", "JOINED"}, NEW d \in TaskTypes, x = "CREATED" => d = t
       PROVE  q \notin Untold(requestPickupOnly(t, x, d))
  <2> DEFINE queries == {"machine-tasks"} \cup QueuesOfTransport
             events == IF x = NONE THEN NotifyPickupTaskChange(t, "CREATED", ItsOperator)
                       ELSE applyLinkOutcome(t, x)
             e == taskEvent("pickup_task_updated", t, "CREATED", ItsOperator)
  <2>1. queries \in SUBSET Queries /\ ListedUnder(t, x, d) = {t}
    BY <1>6, <1>15 DEF ListedUnder
  <2>2. CASE x = NONE
    <3>1. events \in Seq(Event) /\ IsIn(e, events)
      BY <2>2, ChangesAreEvents, Bursts DEF Statuses
    <3> HIDE DEF queries, events
    <3>2. q \notin Untold(<<write(queries, {t})>> \o joinedWork(x) \o <<tell(events)>>)
      BY <1>14, <2>1, <3>1
    <3> QED BY <2>1, <3>2 DEF requestPickupOnly, queries, events
  <2>3. CASE x # NONE
    <3>1. events \in Seq(Event) /\ IsIn(trip, events)
      BY <2>3, OutcomesAreEvents, OutcomesSay DEF Outcomes, trip
    <3> HIDE DEF queries, events
    <3>2. q \notin Untold(<<write(queries, {t})>> \o joinedWork(x) \o <<tell(events)>>)
      BY <1>14, <2>1, <3>1
    <3> QED BY <2>1, <3>2 DEF requestPickupOnly, queries, events
  <2> QED BY <2>2, <2>3
<1>16. ASSUME NEW x \in Outcomes, NEW d \in TaskTypes, x = "CREATED" => d = t
       PROVE  q \notin Untold(listMachineTasks(t, x, d))
  <2>1. applyLinkOutcome(t, x) \in Seq(Event) /\ IsIn(trip, applyLinkOutcome(t, x))
    BY OutcomesAreEvents, OutcomesSay DEF trip
  <2>2. {"machine-tasks"} \cup QueuesOfTransport \in SUBSET Queries /\ ListedUnder(t, x, d) = {t}
    BY <1>6, <1>16 DEF ListedUnder
  <2> QED BY <1>14, <2>1, <2>2 DEF listMachineTasks
<1>17. ASSUME NEW x \in {NONE, "CREATED", "ASSIGNED"}
       PROVE  q \notin Untold(requestSupplyOnly(t, x))
  <2> DEFINE a == write({"replenishment-requests", "machine-tasks"}, {})
             c == tell(<<supplyRequestCreated>>)
  <2>1. <<supplyRequestCreated>> \in Seq(Event)
    BY EventsAreEvents, ShortSequences
  <2>2. a \in Quiet(q) /\ c \in Quiet(q) /\ a \in Step /\ c \in Step
    BY <1>6, <2>1, QuietSteps, StepsAreSteps
  <2>3. CASE x = NONE
    <3>1. requestSupplyOnly(t, x) = <<a, c>> \o << >>
      BY <2>3 DEF requestSupplyOnly
    <3> HIDE DEF a, c
    <3>2. <<a, c>> \o << >> \in Seq(Quiet(q))
      BY <2>2, ShortSequences
    <3> QED BY <3>1, <3>2, Untouched
  <2>4. CASE x # NONE
    <3> DEFINE queries == {"machine-tasks"} \cup IF x = "CREATED" THEN QueuesOfTransport ELSE {}
               f == write(queries, {t})
               events == applyLinkOutcome(t, x)
    <3>1. queries \in SUBSET Queries
      BY <1>6
    <3>2. events \in Seq(Event) /\ IsIn(trip, events)
      BY <2>4, OutcomesAreEvents, OutcomesSay DEF Outcomes, trip
    <3>3. requestSupplyOnly(t, x) = <<a, c>> \o <<f, tell(events)>>
      BY <2>4 DEF requestSupplyOnly
    <3> HIDE DEF queries, events
    <3>4. f \in Step /\ (t \notin AllowedTypes => f \in Quiet(q)) /\ tell(events) \in Step
      BY <1>3, <3>1, <3>2, StepsAreSteps
    <3> HIDE DEF a, c, f
    <3>5. <<a, c>> \o <<f, tell(events)>> = (<<a, c>> \o <<f>>) \o <<tell(events)>>
      BY <2>2, <3>4, PairsApart
    <3>6. <<a, c>> \o <<f>> \in Seq(Step)
      BY <2>2, <3>4, ShortSequences
    <3>7. t \notin AllowedTypes => <<a, c>> \o <<f>> \in Seq(Quiet(q))
      BY <2>2, <3>4, ShortSequences
    <3> QED BY <1>1, <3>2, <3>3, <3>5, <3>6, <3>7, TripsTold DEF q
  <2> QED BY <2>3, <2>4
<1>18. ASSUME NEW x \in Drops \ {"REQUEST"}, NEW d \in TaskTypes, x = "PALLET" => d = t
       PROVE  q \notin Untold(cancelPickupRequest(t, x, d))
  <2> DEFINE queries == QueuesOfTransport \cup {"machine-tasks"} \cup
                        IF x \in {"REQUEST", "DELIVERY"} THEN {"replenishment-requests"} ELSE {}
             types == IF x = "PALLET" THEN {t, d} ELSE {t}
             events == NotifyPickupTaskChange(t, "CANCELED", ItsOperator)
                       \o (IF x = "DELIVERY" THEN NotifyDeliveryTaskChange(d, "CANCELED", FALSE) ELSE << >>)
                       \o <<queueUpdated(t), tripSuggestionsUpdated(t)>>
  <2>1. queries \in SUBSET Queries
    BY <1>6
  <2>2. events \in Seq(Event) /\ IsIn(trip, events)
    BY CancellationSays DEF trip
  <2>3. cancelPickupRequest(t, x, d) = <<write(queries, types), tell(events)>>
    BY DEF cancelPickupRequest
  <2>4. types = {t}
    BY <1>18
  <2> HIDE DEF queries, types, events
  <2> QED BY <1>4, <2>1, <2>2, <2>3, <2>4
<1>19. ASSUME NEW p \in TaskTypes
       PROVE  q \notin Untold(acceptTripRouteSuggestion(t, p))
  <2> DEFINE queries == QueuesOfTransport \cup {"my-tasks", "machine-tasks", "replenishment-requests"}
             events == NotifyDeliveryTaskChange(t, "ASSIGNED", TRUE)
                       \o NotifyPickupTaskChange(p, "ASSIGNED", ItsOperator)
  <2>1. queries \in SUBSET Queries
    BY <1>6
  <2>2. events \in Seq(Event) /\ IsIn(trip, events)
    BY TripSays DEF trip
  <2>3. acceptTripRouteSuggestion(t, p) = <<write(queries, {t}), tell(events)>>
    BY DEF acceptTripRouteSuggestion
  <2> HIDE DEF queries, events
  <2> QED BY <1>4, <2>1, <2>2, <2>3
<1> QED
  BY <1>7, <1>8, <1>9, <1>10, <1>12, <1>13, <1>15, <1>16, <1>17, <1>18, <1>19 DEF q, ToldOf

\* What the supply desk, and those who supervise it, are told.
LEMMA DeskIsTold ==
  ASSUME NEW role \in MACHINE_DOMAIN_ROLES, me = deviceOf(role),
         "replenishment-requests" \in Watched, NEW t \in TaskTypes, NEW b \in BOOLEAN
  PROVE  ToldOf("replenishment-requests", t, b)
<1> DEFINE q       == "replenishment-requests"
           changed(status) == taskEvent("delivery_task_updated", t, status, ItsOperator)
<1>1. /\ QueuesOfTransport \subseteq Queries /\ q \notin QueuesOfTransport
      /\ {"machine-tasks", "replenishment-requests", "my-tasks"} \subseteq Queries
      /\ q \notin {"machine-tasks", "my-tasks"}
  BY DEF Queries, QueuesOfTransport
<1>2. /\ Hears(q, productionStatusUpdated) /\ Hears(q, supplyRequestCreated)
      /\ Hears(q, deliveryTaskCreated(t))
  <2>1. /\ productionStatusUpdated \in Event /\ supplyRequestCreated \in Event
        /\ deliveryTaskCreated(t) \in Event
    BY ProductionIsEvent, EventsAreEvents
  <2>2. /\ productionStatusUpdated.type \in SUPPLY_REPLENISHMENT_EVENT_TYPES
        /\ supplyRequestCreated.type \in SUPPLY_REPLENISHMENT_EVENT_TYPES
        /\ deliveryTaskCreated(t).type \in SUPPLY_REPLENISHMENT_EVENT_TYPES
    BY EventsSay, ProductionIsTold DEF SUPPLY_REPLENISHMENT_EVENT_TYPES
  <2> QED BY <2>1, <2>2, DeskHears
<1>3. ASSUME NEW status \in Statuses PROVE Hears(q, changed(status))
  <2>1. changed(status) \in Event /\ changed(status).type \in SUPPLY_REPLENISHMENT_EVENT_TYPES
    BY EventsAreEvents, EventsSay DEF SUPPLY_REPLENISHMENT_EVENT_TYPES
  <2> HIDE DEF changed
  <2> QED BY <2>1, DeskHears
<1>9. ASSUME NEW d \in TaskTypes
      PROVE  Hears(q, taskEvent("delivery_task_updated", d, "CANCELED", ItsOperator))
  <2> DEFINE e == taskEvent("delivery_task_updated", d, "CANCELED", ItsOperator)
  <2>1. e \in Event /\ e.type \in SUPPLY_REPLENISHMENT_EVENT_TYPES
    BY EventsAreEvents, EventsSay DEF SUPPLY_REPLENISHMENT_EVENT_TYPES, Statuses
  <2> HIDE DEF e
  <2>2. Hears(q, e)
    BY <2>1, DeskHears
  <2> QED BY <2>2 DEF e
<1> HIDE DEF changed, q
<1>4. ASSUME NEW queries \in SUBSET Queries, NEW types \in SUBSET TaskTypes
      PROVE  write(queries, types) \in Step
             /\ (q \notin queries => write(queries, types) \in Quiet(q))
  BY QuietSteps, StepsAreSteps
\* Three ways in which a write and a burst are in order.
<1>5. ASSUME NEW queries \in SUBSET Queries, NEW types \in SUBSET TaskTypes,
             NEW events \in Seq(Event), NEW e, IsIn(e, events), Hears(q, e)
      PROVE  q \notin Untold(<<write(queries, types), tell(events)>>)
  BY <1>4, <1>5, TwoStepsTold
<1>6. ASSUME NEW queries \in SUBSET Queries, NEW types \in SUBSET TaskTypes,
             NEW events \in Seq(Event), q \notin queries
      PROVE  /\ <<write(queries, types), tell(events)>> \in Seq(Quiet(q))
             /\ q \notin Untold(<<write(queries, types), tell(events)>>)
  <2>1. write(queries, types) \in Quiet(q) /\ tell(events) \in Quiet(q)
    BY <1>4, <1>6, QuietSteps
  <2>2. <<write(queries, types), tell(events)>> \in Seq(Quiet(q))
    BY <2>1, ShortSequences
  <2> QED BY <2>2, Untouched
<1>7. ASSUME NEW queries \in SUBSET Queries, NEW types \in SUBSET TaskTypes,
             NEW events \in Seq(Event), NEW e, IsIn(e, events), Hears(q, e),
             NEW rest \in Seq(Quiet(q))
      PROVE  q \notin Untold(<<write(queries, types), tell(events)>> \o rest)
  <2>1. write(queries, types) \in Step /\ tell(events) \in Step
    BY <1>4, StepsAreSteps
  <2>2. <<write(queries, types), tell(events)>> = <<write(queries, types)>> \o <<tell(events)>>
    BY <2>1, PairApart
  <2>3. <<write(queries, types)>> \in Seq(Step)
    BY <2>1, ShortSequences
  <2> QED BY <1>7, <2>2, <2>3, ToldThen
<1>8. /\ <<productionStatusUpdated>> \in Seq(Event)
      /\ IsIn(productionStatusUpdated, <<productionStatusUpdated>>)
      /\ <<supplyRequestCreated>> \in Seq(Event)
      /\ IsIn(supplyRequestCreated, <<supplyRequestCreated>>)
  BY ProductionIsEvent, EventsAreEvents, ShortSequences, InShort
<1>10. q \notin Untold(createReplenishment(t, b))
  <2> DEFINE queries == IF b THEN {"machine-tasks", "replenishment-requests"} \cup QueuesOfTransport
                        ELSE {"machine-tasks", "replenishment-requests"}
             events  == <<deliveryTaskCreated(t)>> \o
                        (IF b THEN <<queueUpdated(t), tripSuggestionsUpdated(t)>> ELSE << >>)
  <2>1. queries \in SUBSET Queries
    BY <1>1
  <2>2. events \in Seq(Event) /\ IsIn(deliveryTaskCreated(t), events)
    BY CreationSays
  <2>3. createReplenishment(t, b) = <<write(queries, {t}), tell(events)>>
    BY DEF createReplenishment
  <2> HIDE DEF queries, events
  <2> QED BY <1>2, <1>5, <2>1, <2>2, <2>3
<1>11. q \notin Untold(updateDeliveryTask(t, t, b))
  <2> DEFINE queries == QueuesOfTransport \cup {"machine-tasks", "replenishment-requests"}
             events == NotifyDeliveryTaskChange(t, "CREATED", b)
                       \o <<queueUpdated(t), tripSuggestionsUpdated(t)>>
  <2>1. queries \in SUBSET Queries /\ {t, t} \in SUBSET TaskTypes
    BY <1>1
  <2>2. events \in Seq(Event) /\ IsIn(changed("CREATED"), events)
    BY EditSays DEF changed
  <2>3. updateDeliveryTask(t, t, b) = <<write(queries, {t, t}), tell(events)>>
    BY DEF updateDeliveryTask
  <2>4. Hears(q, changed("CREATED"))
    BY <1>3 DEF Statuses
  <2> HIDE DEF queries, events
  <2> QED BY <1>5, <2>1, <2>2, <2>3, <2>4
<1>12. q \notin Untold(markDeliveryTaskPrepared(t))
  <2> DEFINE queries == {"machine-tasks", "replenishment-requests"} \cup QueuesOfTransport
             events == NotifyDeliveryTaskChange(t, "CREATED", TRUE)
             a == write(queries, {t})
             c == tell(events)
             f == write(QueuesOfTransport, {t})
             g == tell(<<queueUpdated(t), tripSuggestionsUpdated(t)>>)
  <2>1. queries \in SUBSET Queries /\ {t} \in SUBSET TaskTypes /\ QueuesOfTransport \in SUBSET Queries
    BY <1>1
  <2>2. events \in Seq(Event) /\ IsIn(changed("CREATED"), events)
    BY ChangesAreEvents, Bursts DEF Statuses, changed
  <2>3. <<queueUpdated(t), tripSuggestionsUpdated(t)>> \in Seq(Event)
    BY ReadyIsTold
  <2>4. a \in Step /\ c \in Step /\ f \in Step /\ g \in Step /\ <<f, g>> \in Seq(Quiet(q))
    BY <1>1, <1>4, <1>6, <2>1, <2>2, <2>3, StepsAreSteps
  <2>5. Hears(q, changed("CREATED"))
    BY <1>3 DEF Statuses
  <2>6. markDeliveryTaskPrepared(t) = <<a, c, f, g>>
    BY DEF markDeliveryTaskPrepared
  <2>7. q \notin Untold(<<a, c>> \o <<f, g>>)
    <3> HIDE DEF queries, events, f, g
    <3> QED BY <1>7, <2>1, <2>2, <2>4, <2>5
  <2> HIDE DEF a, c, f, g
  <2>8. <<a, c>> \o <<f, g>> = <<a, c, f, g>>
    BY <2>4, FourJoined
  <2> QED BY <2>6, <2>7, <2>8
<1>13. q \notin Untold(requestPickupWithReplenishment(t))
  BY <1>1, <1>2, <1>5, AskingSays DEF requestPickupWithReplenishment
<1>14. /\ NotifyDeliveryTaskChange(t, "ASSIGNED", TRUE) \in Seq(Event)
       /\ NotifyDeliveryTaskChange(t, "COMPLETED", TRUE) \in Seq(Event)
       /\ NotifyPickupTaskChange(t, "ASSIGNED", ItsOperator) \in Seq(Event)
       /\ NotifyPickupTaskChange(t, "COMPLETED", ItsOperator) \in Seq(Event)
       /\ IsIn(changed("ASSIGNED"), NotifyDeliveryTaskChange(t, "ASSIGNED", TRUE))
       /\ IsIn(changed("COMPLETED"), NotifyDeliveryTaskChange(t, "COMPLETED", TRUE))
       /\ Hears(q, changed("ASSIGNED")) /\ Hears(q, changed("COMPLETED"))
       /\ Hears(q, changed("CANCELED"))
  BY <1>3, ChangesAreEvents, Bursts DEF Statuses, changed
<1>15. {t} \in SUBSET TaskTypes
  OBVIOUS
<1>16. /\ q \notin Untold(acceptOpenDeliverTask(t))
       /\ q \notin Untold(acceptOpenPickupTask(t, t))
       /\ q \notin Untold(completePickupTask(t, t))
  <2>1. q \notin Untold(acceptOpenDeliverTask(t))
    BY <1>1, <1>5, <1>14, <1>15 DEF acceptOpenDeliverTask
  <2>2. /\ q \notin Untold(acceptOpenPickupTask(t, t))
        /\ q \notin Untold(completePickupTask(t, t))
    BY <1>1, <1>6, <1>14, <1>15 DEF acceptOpenPickupTask, completePickupTask
  <2> QED BY <2>1, <2>2
<1>17. q \notin Untold(completeDeliverTask(t, b))
  <2> DEFINE queries == {"my-tasks", "machine-tasks", "replenishment-requests"}
             events == NotifyDeliveryTaskChange(t, "COMPLETED", TRUE)
             a == write(queries, {t})
             c == tell(events)
  <2>1. queries \in SUBSET Queries /\ a \in Step /\ c \in Step
    BY <1>1, <1>4, <1>14, <1>15, StepsAreSteps
  <2>2. CASE b
    <3> DEFINE f == write(QueuesOfTransport \cup {"replenishment-requests"}, TaskTypes)
               told == <<productionStatusUpdated>>
    <3>1. f \in Step /\ tell(told) \in Step
      BY <1>1, <1>4, <1>8, StepsAreSteps
    <3>2. completeDeliverTask(t, b) = <<a, c>> \o <<f, tell(told)>>
      BY <2>2 DEF completeDeliverTask, updateProductionStatus
    <3>3. told \in Seq(Event) /\ IsIn(productionStatusUpdated, told)
      BY <1>8
    <3> HIDE DEF a, c, f, told
    <3>4. <<a, c>> \o <<f, tell(told)>> = (<<a, c>> \o <<f>>) \o <<tell(told)>>
      BY <2>1, <3>1, PairsApart
    <3>5. <<a, c>> \o <<f>> \in Seq(Step)
      BY <2>1, <3>1, ShortSequences
    <3> QED BY <1>2, <3>2, <3>3, <3>4, <3>5, ToldLast
  <2>3. CASE ~ b
    <3>1. completeDeliverTask(t, b) = <<a, c>> \o << >>
      BY <2>3 DEF completeDeliverTask
    <3>2. << >> \in Seq(Quiet(q))
      OBVIOUS
    <3>3. events \in Seq(Event) /\ IsIn(changed("COMPLETED"), events)
      BY <1>14
    <3> HIDE DEF queries, events
    <3> QED BY <1>7, <1>14, <1>15, <2>1, <3>1, <3>2, <3>3
  <2> QED BY <2>2, <2>3
<1>18. ASSUME NEW x, NEW types \in SUBSET TaskTypes, NEW events \in Seq(Event)
       PROVE  q \notin Untold(<<write({"machine-tasks"} \cup QueuesOfTransport, types)>>
                              \o joinedWork(x) \o <<tell(events)>>)
  <2> DEFINE a == write({"machine-tasks"} \cup QueuesOfTransport, types)
             f == write({"my-tasks"}, TaskTypes)
  <2>1. a \in Quiet(q) /\ f \in Quiet(q) /\ tell(events) \in Quiet(q)
    BY <1>1, <1>4, <1>15, QuietSteps
  <2> HIDE DEF a
  <2>2. joinedWork(x) \in Seq(Quiet(q))
    BY <2>1, ShortSequences DEF joinedWork
  <2>3. <<a>> \o joinedWork(x) \o <<tell(events)>> \in Seq(Quiet(q))
    BY <2>1, <2>2, ShortSequences
  <2> QED BY <2>3, Untouched DEF a
<1>19. ASSUME NEW x \in {NONE, "CREATED", "JOINED"}, NEW d \in TaskTypes
       PROVE  q \notin Untold(requestPickupOnly(t, x, d))
  <2>1. (IF x = NONE THEN NotifyPickupTaskChange(t, "CREATED", ItsOperator)
         ELSE applyLinkOutcome(t, x)) \in Seq(Event)
    BY ChangesAreEvents, OutcomesAreEvents DEF Statuses, Outcomes
  <2>2. ListedUnder(t, x, d) \in SUBSET TaskTypes
    BY DEF ListedUnder
  <2> QED BY <1>18, <2>1, <2>2 DEF requestPickupOnly
<1>20. ASSUME NEW x \in Outcomes, NEW d \in TaskTypes
       PROVE  q \notin Untold(listMachineTasks(t, x, d))
  <2>1. applyLinkOutcome(t, x) \in Seq(Event)
    BY OutcomesAreEvents
  <2>2. ListedUnder(t, x, d) \in SUBSET TaskTypes
    BY DEF ListedUnder
  <2> QED BY <1>18, <2>1, <2>2 DEF listMachineTasks
<1>21. ASSUME NEW x \in {NONE, "CREATED", "ASSIGNED"}
       PROVE  q \notin Untold(requestSupplyOnly(t, x))
  <2> DEFINE shown == {"machine-tasks"} \cup IF x = "CREATED" THEN QueuesOfTransport ELSE {}
             rest == IF x = NONE THEN << >>
                     ELSE <<write(shown, {t}), tell(applyLinkOutcome(t, x))>>
  <2>1. shown \in SUBSET Queries /\ q \notin shown
    BY <1>1
  <2>2. x # NONE => applyLinkOutcome(t, x) \in Seq(Event)
    BY OutcomesAreEvents DEF Outcomes
  <2>3. rest \in Seq(Quiet(q))
    <3> HIDE DEF shown
    <3>1. << >> \in Seq(Quiet(q))
      OBVIOUS
    <3>2. x # NONE => <<write(shown, {t}), tell(applyLinkOutcome(t, x))>> \in Seq(Quiet(q))
      BY <1>6, <1>15, <2>1, <2>2
    <3> QED BY <3>1, <3>2
  <2>4. requestSupplyOnly(t, x) =
        <<write({"replenishment-requests", "machine-tasks"}, {}), tell(<<supplyRequestCreated>>)>>
        \o rest
    BY DEF requestSupplyOnly
  <2> HIDE DEF rest
  <2>5. {"replenishment-requests", "machine-tasks"} \in SUBSET Queries /\ {} \in SUBSET TaskTypes
    BY <1>1
  <2> QED BY <1>2, <1>7, <1>8, <2>3, <2>4, <2>5
<1>22. ASSUME NEW x \in Drops \ {"REQUEST"}, NEW d \in TaskTypes
       PROVE  q \notin Untold(cancelPickupRequest(t, x, d))
  <2> DEFINE queries == QueuesOfTransport \cup {"machine-tasks"} \cup
                        IF x \in {"REQUEST", "DELIVERY"} THEN {"replenishment-requests"} ELSE {}
             types == IF x = "PALLET" THEN {t, d} ELSE {t}
             events == NotifyPickupTaskChange(t, "CANCELED", ItsOperator)
                       \o (IF x = "DELIVERY" THEN NotifyDeliveryTaskChange(d, "CANCELED", FALSE) ELSE << >>)
                       \o <<queueUpdated(t), tripSuggestionsUpdated(t)>>
  <2>1. /\ queries \in SUBSET Queries /\ types \in SUBSET TaskTypes
        /\ x # "DELIVERY" => q \notin queries
    BY <1>1
  <2>2. /\ events \in Seq(Event)
        /\ x = "DELIVERY" => IsIn(taskEvent("delivery_task_updated", d, "CANCELED", ItsOperator), events)
    BY CancellationSays
  <2>3. cancelPickupRequest(t, x, d) = <<write(queries, types), tell(events)>>
    BY DEF cancelPickupRequest
  <2> HIDE DEF queries, types, events
  <2>4. CASE x # "DELIVERY"
    BY <1>6, <2>1, <2>2, <2>3, <2>4
  <2>5. CASE x = "DELIVERY"
    BY <1>5, <1>9, <2>1, <2>2, <2>3, <2>5
  <2> QED BY <2>4, <2>5
<1>23. ASSUME NEW p \in TaskTypes
       PROVE  q \notin Untold(acceptTripRouteSuggestion(t, p))
  <2> DEFINE queries == QueuesOfTransport \cup {"my-tasks", "machine-tasks", "replenishment-requests"}
             events == NotifyDeliveryTaskChange(t, "ASSIGNED", TRUE)
                       \o NotifyPickupTaskChange(p, "ASSIGNED", ItsOperator)
  <2>1. queries \in SUBSET Queries
    BY <1>1
  <2>2. events \in Seq(Event) /\ IsIn(changed("ASSIGNED"), events)
    BY TripSays DEF changed
  <2>3. acceptTripRouteSuggestion(t, p) = <<write(queries, {t}), tell(events)>>
    BY DEF acceptTripRouteSuggestion
  <2> HIDE DEF queries, events
  <2> QED BY <1>5, <1>14, <1>15, <2>1, <2>2, <2>3
<1> QED
  BY <1>10, <1>11, <1>12, <1>13, <1>16, <1>17, <1>19, <1>20, <1>21, <1>22, <1>23 DEF q, ToldOf

\* Every request is announced, or among those that are not.
LEMMA EachKind ==
  ASSUME NEW q, NEW r \in Requests, ~ NotAnnounced(r),
         q \notin Untold(updateProductionStatus),
         \A t \in TaskTypes, b \in BOOLEAN : ToldOf(q, t, b)
  PROVE  q \notin Untold(r)
<1> DEFINE told(p) == q \notin Untold(p)
<1>1. \A t \in TaskTypes, b \in BOOLEAN :
        told(createReplenishment(t, b)) /\ told(completeDeliverTask(t, b)) /\ told(updateDeliveryTask(t, t, b))
  BY DEF ToldOf
<1>2. \A t \in TaskTypes : ToldOf(q, t, TRUE)
  OBVIOUS
<1>3. \A t \in TaskTypes : /\ told(markDeliveryTaskPrepared(t)) /\ told(requestPickupWithReplenishment(t))
                           /\ told(acceptOpenDeliverTask(t)) /\ told(acceptOpenPickupTask(t, t))
                           /\ told(completePickupTask(t, t))
  BY <1>2 DEF ToldOf
<1>4. /\ \A t \in TaskTypes, x \in {NONE, "CREATED", "ASSIGNED"} : told(requestSupplyOnly(t, x))
      /\ \A t, p \in TaskTypes : told(acceptTripRouteSuggestion(t, p))
  BY <1>2 DEF ToldOf
<1>5. /\ r # replaceMovimentOperatorMachineLinks
      /\ \A t, d \in TaskTypes : r # cancelPickupRequest(t, "REQUEST", d)
  BY DEF NotAnnounced
<1>6. ASSUME NEW t \in TaskTypes, NEW d \in TaskTypes, t # d
      PROVE  /\ \A b \in BOOLEAN : r # updateDeliveryTask(t, d, b)
             /\ r # requestPickupOnly(t, "CREATED", d) /\ r # listMachineTasks(t, "CREATED", d)
             /\ r # cancelPickupRequest(t, "PALLET", d)
             /\ r # acceptOpenPickupTask(t, d) /\ r # completePickupTask(t, d)
  BY <1>6 DEF NotAnnounced
<1>7. CASE r \in {requestPickupOnly(t, x, d) :
                    t \in TaskTypes, x \in {NONE, "CREATED", "JOINED"}, d \in TaskTypes}
  <2>1. PICK t \in TaskTypes, x \in {NONE, "CREATED", "JOINED"}, d \in TaskTypes :
          r = requestPickupOnly(t, x, d)
    BY <1>7
  <2>2. x = "CREATED" => d = t
    BY <1>6, <2>1
  <2> QED BY <1>2, <2>1, <2>2 DEF ToldOf
<1>8. CASE r \in {listMachineTasks(t, x, d) : t \in TaskTypes, x \in Outcomes, d \in TaskTypes}
  <2>1. PICK t \in TaskTypes, x \in Outcomes, d \in TaskTypes : r = listMachineTasks(t, x, d)
    BY <1>8
  <2>2. x = "CREATED" => d = t
    BY <1>6, <2>1
  <2> QED BY <1>2, <2>1, <2>2 DEF ToldOf
<1>9. CASE r \in {cancelPickupRequest(t, x, d) : t \in TaskTypes, x \in Drops, d \in TaskTypes}
  <2>1. PICK t \in TaskTypes, x \in Drops, d \in TaskTypes : r = cancelPickupRequest(t, x, d)
    BY <1>9
  <2>2. x \in Drops \ {"REQUEST"} /\ (x = "PALLET" => d = t)
    BY <1>5, <1>6, <2>1
  <2> QED BY <1>2, <2>1, <2>2 DEF ToldOf
<1>10. CASE r \in {acceptTripRouteSuggestion(t, p) : t \in TaskTypes, p \in TaskTypes}
  BY <1>4, <1>10
<1>11. CASE r \in {createReplenishment(t, b) : t \in TaskTypes, b \in BOOLEAN}
  BY <1>1, <1>11
<1>12. CASE r \in {completeDeliverTask(t, b) : t \in TaskTypes, b \in BOOLEAN}
  BY <1>1, <1>12
<1>13. CASE r \in UNION {{markDeliveryTaskPrepared(t), requestPickupWithReplenishment(t),
                         acceptOpenDeliverTask(t)} : t \in TaskTypes}
  <2>1. PICK t \in TaskTypes :
          r \in {markDeliveryTaskPrepared(t), requestPickupWithReplenishment(t), acceptOpenDeliverTask(t)}
    BY <1>13
  <2> QED BY <1>3, <2>1
<1>14. CASE r \in {requestSupplyOnly(t, x) : t \in TaskTypes, x \in {NONE, "CREATED", "ASSIGNED"}}
  BY <1>4, <1>14
<1>15. CASE r \in {updateDeliveryTask(f, t, b) : f \in TaskTypes, t \in TaskTypes, b \in BOOLEAN}
  <2>1. PICK f \in TaskTypes, t \in TaskTypes, b \in BOOLEAN : r = updateDeliveryTask(f, t, b)
    BY <1>15
  <2>2. f = t
    BY <1>6, <2>1
  <2> QED BY <1>1, <2>1, <2>2
<1>16. CASE r \in {acceptOpenPickupTask(t, d) : t \in TaskTypes, d \in TaskTypes}
  <2>1. PICK t \in TaskTypes, d \in TaskTypes : r = acceptOpenPickupTask(t, d)
    BY <1>16
  <2> QED BY <1>3, <1>6, <2>1
<1>17. CASE r \in {completePickupTask(t, d) : t \in TaskTypes, d \in TaskTypes}
  <2>1. PICK t \in TaskTypes, d \in TaskTypes : r = completePickupTask(t, d)
    BY <1>17
  <2> QED BY <1>3, <1>6, <2>1
<1>18. CASE r = updateProductionStatus
  BY <1>18
<1> QED
  BY <1>5, <1>7, <1>8, <1>9, <1>10, <1>11, <1>12, <1>13, <1>14, <1>15, <1>16, <1>17, <1>18 DEF Requests

\* Only the queries of the device that do not poll matter.
LEMMA ListsThatWait ==
  ASSUME NEW role \in AppRoles, me = deviceOf(role), NEW r, NEW q \in Untold(r) \ Polled
  PROVE  \/ role = "PALLET_TRANSPORTER" /\ q = "trip-suggestions" /\ q \in Watched
         \/ role \in MACHINE_DOMAIN_ROLES /\ q = "replenishment-requests" /\ q \in Watched
<1>1. me.role = role
  BY DEF deviceOf
<1>2. q \in QueriesOf(me.role) /\ q \notin Polled
  BY DEF Untold, Touched
<1>3. CASE role = "PALLET_TRANSPORTER"
  BY <1>1, <1>2, <1>3 DEF QueriesOf, QueuesOfTransport, Polled
<1>4. CASE role = "OPERATOR_MACHINE"
  BY <1>1, <1>2, <1>4 DEF QueriesOf, Polled
<1>5. CASE role \notin {"PALLET_TRANSPORTER", "OPERATOR_MACHINE"}
  <2>1. role \in MACHINE_DOMAIN_ROLES
    BY <1>5 DEF AppRoles, MACHINE_DOMAIN_ROLES, Admins
  <2> QED BY <1>1, <1>2, <1>5, <2>1 DEF QueriesOf
<1> QED BY <1>3, <1>4, <1>5

\* Whoever looks at the transporter's main screen or at the supply desk is told of every
\* change, whatever the equipment and the types of pallets, but for the four kinds of
\* requests named: in each of the others the last write that changes the list comes before
\* a burst with an event that passes the filters of the hub and of the front-end.  In
\* particular a pickup may enter or leave a pair unannounced only when its type differs
\* from its delivery's.
THEOREM ChangesAreToldAlways == Spec => []ChangesAreTold
<1>1. Around => ChangesAreTold
  <2> SUFFICES ASSUME Around, NEW r \in Requests, ~ NotAnnounced(r),
                      NEW q \in Untold(r) \ Polled
               PROVE  FALSE
    BY DEF ChangesAreTold
  <2>1. PICK role \in AppRoles : me = deviceOf(role)
    BY RolesAreApp DEF Around
  <2>3. CASE role = "PALLET_TRANSPORTER" /\ q = "trip-suggestions" /\ q \in Watched
    <3>1. me = deviceOf("PALLET_TRANSPORTER") /\ "trip-suggestions" \in Watched
      BY <2>1, <2>3
    <3>2. "trip-suggestions" \notin Untold(r)
      <4>1. \A t \in TaskTypes, b \in BOOLEAN : ToldOf("trip-suggestions", t, b)
        BY <3>1, TransporterIsTold
      <4>2. "trip-suggestions" \notin Untold(updateProductionStatus)
        BY <3>1, TransporterHears, ProductionIsEvent, ProductionIsTold
      <4> QED BY <4>1, <4>2, EachKind
    <3> QED BY <2>3, <3>2
  <2>4. CASE role \in MACHINE_DOMAIN_ROLES /\ q = "replenishment-requests" /\ q \in Watched
    <3>1. "replenishment-requests" \in Watched
      BY <2>4
    <3>2. "replenishment-requests" \notin Untold(r)
      <4>1. \A t \in TaskTypes, b \in BOOLEAN : ToldOf("replenishment-requests", t, b)
        BY <2>1, <2>4, <3>1, DeskIsTold
      <4>2. productionStatusUpdated.type \in SUPPLY_REPLENISHMENT_EVENT_TYPES
        BY ProductionIsTold DEF SUPPLY_REPLENISHMENT_EVENT_TYPES
      <4>3. "replenishment-requests" \notin Untold(updateProductionStatus)
        BY <2>1, <2>4, <3>1, <4>2, DeskHears, ProductionIsEvent, ProductionIsTold
      <4> QED BY <4>1, <4>3, EachKind
    <3> QED BY <2>4, <3>2
  <2> QED BY <2>1, <2>3, <2>4, ListsThatWait
<1> QED
  BY <1>1, InitOnItsWay, NextOnItsWay, InitAround, NextAround, PTL DEF Spec
=============================================================================
