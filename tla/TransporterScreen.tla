--------------------------- MODULE TransporterScreen ---------------------------
(***************************************************************************)
(* The transporter's screens as functions of the database: which waiting   *)
(* work the main screen recommends and which the manual queue lists        *)
(* (operator-moviment-pallet.service.ts), in which order (trip-queue-      *)
(* priority.ts, operator-moviment-trip-queue.ts), and which accepted work  *)
(* "Minhas tarefas" shows (OpenTasksFlowSection).  Work is a tuple:        *)
(* <<"combined", trip>>, <<"deliver", delivery>> or <<"pickup", pickup>>.  *)
(***************************************************************************)
EXTENDS ForkFlow, TripPriority

\* isCritical of the tasks and the machines linked to the transporter are free:
\* a screen is computed for given sets of critical tasks and preferred machines.
TaskIds == ({"deliver"} \X DeliveryIds) \cup ({"pickup"} \X PickupIds)

MachineOf(x) ==
  CASE x[1] = "combined" -> trip[x[2]].machine
    [] x[1] = "deliver"  -> delivery[x[2]].machine
    [] x[1] = "pickup"   -> pickup[x[2]].machine

isCriticalWork(x, critical) ==
  IF x[1] = "combined"
  THEN \/ <<"deliver", trip[x[2]].deliver>> \in critical
       \/ <<"pickup", trip[x[2]].pickup>> \in critical
  ELSE x \in critical

isPreferred(x, preferred) == MachineOf(x) \in preferred

Pairs(types)      == {<<"combined", r>> : r \in VisibleTrips(types)}
Standalone(types) == {<<"deliver", d>> : d \in VisibleDeliveries(types)}
                     \cup {<<"pickup", p>> : p \in VisiblePickups(types)}

isUrgent(x, critical, preferred) == isCriticalWork(x, critical) \/ isPreferred(x, preferred)

\* Ids grow with createdAt, for each kind of task; between two kinds either may be older.
sortAt(x) == IF x[1] = "combined" THEN trip[x[2]].deliver ELSE x[2]

priorityKeys(x, critical, preferred, last) ==
  [preferredMachine |-> isPreferred(x, preferred),
   effectiveCritical |-> isCriticalWork(x, critical),
   kindRank |-> tripQueueKindAffinityRank(x[1], last),
   sortAt |-> sortAt(x)]
-----------------------------------------------------------------------------
(* listTripRouteSuggestionsForOperator and the manual queue.               *)

Recommended(types, critical, preferred) ==
  Pairs(types) \cup {x \in Standalone(types) : isUrgent(x, critical, preferred)}

\* Faulty: promotes deliveries only.
FaultyFallback(types, critical, last) ==
  {x \in Standalone(types) \ critical :
     /\ x[1] = "deliver"
     /\ \A y \in Standalone(types) \ critical :
          tripQueueKindAffinityRank(x[1], last) <= tripQueueKindAffinityRank(y[1], last)}

\* What may be promoted when nothing is recommended: work of the kind that fits best
\* and of that kind the oldest.
Fallback(types, critical, last) ==
  {x \in Standalone(types) \ critical :
     \A y \in Standalone(types) \ critical :
       LET rank(z) == tripQueueKindAffinityRank(z[1], last) IN
       /\ rank(x) <= rank(y)
       /\ x[1] = y[1] => x[2] <= y[2]}

\* The main screen.  It shows one of these, one that nothing listed precedes.
MainWork(types, critical, preferred, last) ==
  IF Recommended(types, critical, preferred) # {}
  THEN Recommended(types, critical, preferred)
  ELSE Fallback(types, critical, last)

pickTopMainTripQueueItem(types, critical, preferred, last) ==
  LET items == MainWork(types, critical, preferred, last)
      keys(x) == priorityKeys(x, critical, preferred, last)
  IN  {x \in items : \A y \in items : ~ precedes(keys(y), keys(x))}

ManualWork(types, critical, preferred) ==
  {x \in Standalone(types) : ~ isUrgent(x, critical, preferred)}
-----------------------------------------------------------------------------
(* "Minhas tarefas": the open tasks of the transporter, grouped by machine.*)

\* Nothing is listed for a transporter without an operating mode.
assignedTasks(o) ==
  IF mode[o] = "NONE" THEN {}
  ELSE {<<"deliver", d>> : d \in OpenDeliveriesOf(o)}
       \cup {<<"pickup", p>> : p \in OpenPickupsOf(o)}

\* A group has room for one task of each kind: of several the last in the list (the
\* newest) stays.
groupOpenTasks(o) ==
  {x \in assignedTasks(o) :
     \A y \in assignedTasks(o) : MachineOf(x) = MachineOf(y) /\ x[1] = y[1] => y[2] <= x[2]}

\* The other task on the card of x.
onSameCard(x, o) == {y \in groupOpenTasks(o) \ {x} : MachineOf(y) = MachineOf(x)}

\* Faulty: the pickup first.
FaultyCardButton(o) == {x \in groupOpenTasks(o) : x[1] = "deliver" => onSameCard(x, o) = {}}

\* A card has one button: it completes the delivery if there is one, else the pickup.
\* (The server completes either, and closes the trip with the pickup.)
CardButton(o) == {x \in groupOpenTasks(o) : x[1] = "pickup" => onSameCard(x, o) = {}}

\* The page is left for the queue when nothing on it can be completed.
goToAvailableTasks(o) == assignedTasks(o) = {}
-----------------------------------------------------------------------------
(* What the screens keep, when requests are served one after the other.    *)

\* Slot w computes a listing for these types now.
answersFor(w) == IF job[w].kind = "list" /\ job[w].left = {} THEN {job[w].types} ELSE {}

\* When the main screen is empty there is nothing in the manual queue, whatever is
\* critical, preferred, or was done last: the transporter need not open the manual
\* queue to learn that there is work.
EmptyMainMeansNoWork ==
  \A w \in Slots : \A types \in answersFor(w) :
    \A critical \in SUBSET TaskIds, preferred \in SUBSET Machines, last \in LastCompleted :
      ManualWork(types, critical, preferred) # {} =>
        pickTopMainTripQueueItem(types, critical, preferred, last) # {}

\* Everything a transporter has in hand is on "Minhas tarefas", which shows one task
\* of a kind per machine and nothing to who drives nothing.
TasksInHandShown ==
  \A o \in Operators :
    /\ \A d \in OpenDeliveriesOf(o) : <<"deliver", d>> \in groupOpenTasks(o)
    /\ \A p \in OpenPickupsOf(o) : <<"pickup", p>> \in groupOpenTasks(o)

\* Who has accepted a trip is led through it in order, although the server completes
\* and closes it in any order: the page is not left as long as one of its tasks is in
\* hand, and it offers the pickup only when the pallet it makes room for is delivered.
\* (Among several transporters it is not so: one takes the delivery of a pair alone,
\* and the next one accepts the trip, whose pickup is all that is left to accept.)
TripCompletedInOrder ==
  \A r \in TripIds, o \in Operators :
    LET d == trip[r].deliver
        p == trip[r].pickup IN
    /\ goToAvailableTasks(o) => d \notin OpenDeliveriesOf(o) /\ p \notin OpenPickupsOf(o)
    /\ trip[r].status = "ACCEPTED" /\ <<"pickup", p>> \in CardButton(o) =>
         delivery[d].status = "COMPLETED"
-----------------------------------------------------------------------------
(* What a document says and the code does not keep.                        *)

\* A pickup that waits while no request is in execution can reach the queue: its
\* pallet was not delivered without it.
WaitingPickupReachesQueue ==
  (\A w \in Slots : isFree(w)) =>
    \A p \in PickupIds :
      pickup[p].status = "CREATED" /\ pickup[p].link # 0 /\ supply[pickup[p].link].delivery # 0 =>
        delivery[supply[pickup[p].link].delivery].status # "COMPLETED"
=============================================================================
