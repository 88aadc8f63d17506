------------------------------ MODULE ForkTables ------------------------------
(***************************************************************************)
(* The database of the Fork back-end (prisma/schema.prisma) as far as the  *)
(* transport of pallets uses it, the HTTP requests in execution, and the   *)
(* queries the services share.                                             *)
(*                                                                         *)
(* Every `await` of a handler lets other requests run.  A handler is       *)
(* therefore split: a step that reads and decides, leaving what it read in *)
(* job[w], and one step per write (or transaction), which uses what was    *)
(* read.  The `where` of an updateMany is evaluated by the write itself.   *)
(* `Slots` bounds the requests in execution: with one slot requests are    *)
(* served one after the other, with two they interleave.                   *)
(***************************************************************************)
EXTENDS Naturals, FiniteSets

CONSTANTS
  Machines,       \* machines of one sector
  Operators,      \* users with role PALLET_TRANSPORTER, all in that sector
  Slots,          \* requests that may be in execution at the same time
  TaskTypes,      \* the values of TypeMovimentPallet in use
  OperatingModes, \* the values of IsOperating in use
  MaxDelivery,    \* bound: rows ever created in DeliveryTask
  MaxPickup,      \* bound: rows ever created in PickupTask
  MaxSupply,      \* bound: rows ever created in OperatorMachineSupplyRequest
  MaxTrip,        \* bound: rows ever created in MovimentPalletTripSuggestion
  NoOp,           \* assignedOperatorId / acceptedByUserId is null
  NoMachine       \* no machine id given

ASSUME BoundsAssumption ==
  /\ MaxDelivery \in Nat /\ MaxPickup \in Nat
  /\ MaxSupply \in Nat   /\ MaxTrip \in Nat

ASSUME EnumAssumption ==
  /\ TaskTypes \subseteq {"FORKLIFT", "ANY"}
  /\ OperatingModes \subseteq {"FORKLIFT", "PALLET_TRUCK"}

ASSUME NullAssumption ==
  /\ NoOp \notin Operators
  /\ NoMachine \notin Machines

VARIABLES
  delivery,    \* DeliveryTask: id -> row.  Ids are given in creation order
  pickup,      \* PickupTask: id -> row
  supply,      \* OperatorMachineSupplyRequest: id -> row
  trip,        \* MovimentPalletTripSuggestion: id -> row
  production,  \* Machine.productionStatus
  mode,        \* User.isOperating of each transporter
  seen,        \* ids that some transporter's screen has shown (screens go stale)
  job          \* the request in execution in each slot

tables == <<delivery, pickup, supply, trip>>
vars   == <<delivery, pickup, supply, trip, production, mode, seen, job>>

-----------------------------------------------------------------------------
(* Rows.  Id 0 is null; a row that was not created yet is "ABSENT".        *)

DeliveryIds == 1 .. MaxDelivery
PickupIds   == 1 .. MaxPickup
SupplyIds   == 1 .. MaxSupply
TripIds     == 1 .. MaxTrip

\* MachineTaskStatus; no code writes IN_PROGRESS.
TaskStatus == {"ABSENT", "CREATED", "ASSIGNED", "COMPLETED", "CANCELED"}

\* openMachineTaskStatuses
OpenStatus == {"CREATED", "ASSIGNED"}

ModeOrNull == OperatingModes \cup {"NONE"}

\* prepared: preparedAt # null.  acceptedBySupply is TRUE in every row: the only
\* creation writes TRUE and no update touches it.
DeliveryRow ==
  [status: TaskStatus, machine: Machines \cup {NoMachine},
   type: TaskTypes \cup {"NONE"}, prepared: BOOLEAN,
   op: Operators \cup {NoOp}, with: ModeOrNull]

\* link: linkedSupplyRequestId.  assignedAt is written together with `op`.
PickupRow ==
  [status: TaskStatus, machine: Machines \cup {NoMachine},
   type: TaskTypes \cup {"NONE"}, link: SupplyIds \cup {0},
   op: Operators \cup {NoOp}, with: ModeOrNull]

SupplyRow ==
  [status: {"ABSENT", "OPEN", "FULFILLED", "CANCELLED"},
   machine: Machines \cup {NoMachine}, delivery: DeliveryIds \cup {0}]

\* A deleted row keeps its id: uuids are not given twice.
TripRow ==
  [status: {"ABSENT", "OPEN", "ACCEPTED", "COMPLETED", "EXPIRED", "DELETED"},
   deliver: DeliveryIds \cup {0}, pickup: PickupIds \cup {0},
   machine: Machines \cup {NoMachine}, type: TaskTypes \cup {"NONE"},
   by: Operators \cup {NoOp}]

NoDelivery == [status |-> "ABSENT", machine |-> NoMachine, type |-> "NONE",
               prepared |-> FALSE, op |-> NoOp, with |-> "NONE"]
NoPickup   == [status |-> "ABSENT", machine |-> NoMachine, type |-> "NONE",
               link |-> 0, op |-> NoOp, with |-> "NONE"]
NoSupply   == [status |-> "ABSENT", machine |-> NoMachine, delivery |-> 0]
NoTrip     == [status |-> "ABSENT", deliver |-> 0, pickup |-> 0,
               machine |-> NoMachine, type |-> "NONE", by |-> NoOp]

\* The id the next created row of a table gets; false when the bound is reached.
IsNextId(id, table) ==
  /\ table[id].status = "ABSENT"
  /\ \A k \in DOMAIN table : k < id => table[k].status # "ABSENT"

\* findFirst with orderBy createdAt asc: the oldest id, or 0.
Oldest(ids) ==
  IF ids = {} THEN 0 ELSE CHOOSE i \in ids : \A k \in ids : i <= k

\* A slot with no request.
Idle == [kind |-> "idle"]

\* Slot w is free to take a request.
isFree(w) == job[w] = Idle

\* Slot w goes on with what is left of its request.
Continue(w, next) == job' = [job EXCEPT ![w] = next]
-----------------------------------------------------------------------------
(* Shared predicates and queries.                                          *)

requestTypeMatchesOperatingMode(type, m) ==
  type = "ANY" \/ (type = "FORKLIFT" /\ m = "FORKLIFT")

openPoolTypesForOperatingMode(m) ==
  {t \in TaskTypes : requestTypeMatchesOperatingMode(t, m)}

OpenDeliveries(m) ==
  {d \in DeliveryIds : delivery[d].machine = m /\ delivery[d].status \in OpenStatus}

\* Deliveries a transporter may take: CREATED, prepared, nobody's.
PreparedPool(m) ==
  {d \in OpenDeliveries(m) : /\ delivery[d].status = "CREATED"
                             /\ delivery[d].prepared
                             /\ delivery[d].op = NoOp}

\* A machine that is producing and has a pallet waiting is kept out of the
\* transporters' queue until the supply desk marks it ABASTECER.
isMachineDeliveryBlockedFromTransportQueue(m) ==
  production[m] = "TRABALHANDO" /\ PreparedPool(m) # {}

OpenPickups(m) ==
  {p \in PickupIds : pickup[p].machine = m /\ pickup[p].status \in OpenStatus}

OpenLinkedPickups(m) == {p \in OpenPickups(m) : pickup[p].link # 0}

\* Faulty: does not ask for a pickup without a link.
FaultyUnlinkedPickups(m) == OpenPickups(m)

OpenUnlinkedPickups(m) == {p \in OpenPickups(m) : pickup[p].link = 0}

OpenSupplies(m) ==
  {s \in SupplyIds : supply[s].machine = m /\ supply[s].status = "OPEN"}

\* linkedPickupTask of a supply request (the column is unique).
LinkedPickup(s) == Oldest({p \in PickupIds : pickup[p].link = s})

\* The supply request of a delivery (the column is unique).
SupplyOf(d) == Oldest({s \in SupplyIds : supply[s].delivery = d})

isUnclaimed(s) ==
  \A p \in PickupIds : pickup[p].link = s => pickup[p].status \notin OpenStatus

isEligibleSupply(s) ==
  \/ supply[s].status = "OPEN"
  \/ /\ supply[s].status = "FULFILLED"
     /\ supply[s].delivery # 0
     /\ delivery[supply[s].delivery].status \in OpenStatus

\* The OPEN or still deliverable supply requests with no open pickup.
EligibleUnclaimed(m) ==
  {s \in SupplyIds : supply[s].machine = m /\ isUnclaimed(s) /\ isEligibleSupply(s)}

HasIncompleteTasks(o) ==
  \/ \E d \in DeliveryIds : delivery[d].op = o /\ delivery[d].status \in OpenStatus
  \/ \E p \in PickupIds : pickup[p].op = o /\ pickup[p].status \in OpenStatus

\* Faulty: forgets that the pallet must be prepared.
FaultyTaskPairValid(d, p) ==
  /\ delivery[d].status \in OpenStatus
  /\ pickup[p].status \in OpenStatus
  /\ delivery[d].machine = pickup[p].machine

isOpenTripTaskPairValid(d, p) ==
  /\ delivery[d].status \in OpenStatus
  /\ pickup[p].status \in OpenStatus
  /\ delivery[d].machine = pickup[p].machine
  /\ delivery[d].prepared
=============================================================================
