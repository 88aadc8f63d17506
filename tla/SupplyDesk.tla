------------------------------ MODULE SupplyDesk ------------------------------
(***************************************************************************)
(* delivery-task.service.ts: the supply desk (SUPPLY_OPERATOR) creates,    *)
(* edits and prepares deliveries and marks a machine as ready to be        *)
(* supplied (machine.service.ts).                                          *)
(***************************************************************************)
EXTENDS TripSuggestions

EditJob == [kind: {"edit"}, d: DeliveryIds, m: Machines \cup {NoMachine},
            t: TaskTypes \cup {"NONE"}]

SupplyJob == EditJob

\* Requests the new delivery fulfils: every OPEN one of its machine, and the one
\* named in the request body (0: none named) if it is OPEN.
FulfilledBy(m, named) ==
  OpenSupplies(m) \cup {s \in SupplyIds : s = named /\ supply[s].status = "OPEN"}

\* createDeliveryTask.  One transaction creates the delivery and fulfils the
\* requests; deliveryTaskId is unique, so that it fails when there are two.
CreateDelivery(w, m, t, markReady, named) ==
  /\ isFree(w)
  /\ Cardinality(FulfilledBy(m, named)) <= 1
  /\ \E d \in DeliveryIds :
       /\ IsNextId(d, delivery)
       /\ delivery' = [delivery EXCEPT
            ![d] = [status |-> "CREATED", machine |-> m, type |-> t,
                    prepared |-> markReady, op |-> NoOp, with |-> "NONE"]]
       /\ supply' = [s \in SupplyIds |->
                       IF s \in FulfilledBy(m, named)
                       THEN [supply[s] EXCEPT !.status = "FULFILLED", !.delivery = d]
                       ELSE supply[s]]
       /\ Continue(w, [kind |-> "bind", d |-> d, m |-> m, t |-> t, then |-> Idle])
  /\ UNCHANGED <<pickup, trip, production, mode, seen>>

\* updateDeliveryTask: the check ...
BeginEdit(w, d, m, t) ==
  /\ isFree(w)
  /\ delivery[d].status = "CREATED" /\ delivery[d].op = NoOp
  /\ m # NoMachine \/ t # "NONE"
  /\ Continue(w, [kind |-> "edit", d |-> d, m |-> m, t |-> t])
  /\ UNCHANGED <<delivery, pickup, supply, trip, production, mode, seen>>

\* ... and the update by id.  Neither the supply request nor the trip follows.
FinishEdit(w) ==
  LET j == job[w] IN
  /\ j.kind = "edit"
  /\ delivery' = [delivery EXCEPT
       ![j.d].machine = IF j.m = NoMachine THEN @ ELSE j.m,
       ![j.d].type    = IF j.t = "NONE" THEN @ ELSE j.t]
  /\ Continue(w, Idle)
  /\ UNCHANGED <<pickup, supply, trip, production, mode, seen>>

\* markDeliveryTaskPrepared looks at no status: any delivery can be marked.
MarkPrepared(w, d) ==
  /\ isFree(w) /\ delivery[d].status # "ABSENT"
  /\ delivery' = [delivery EXCEPT ![d].prepared = TRUE]
  /\ LET m == delivery[d].machine IN
     Continue(w, [kind |-> "bind", d |-> d, m |-> m, t |-> delivery[d].type,
                  then |-> [kind |-> "sync", m |-> m]])
  /\ UNCHANGED <<pickup, supply, trip, production, mode, seen>>

\* updateMachine with productionStatus: the desk releases the machine to be
\* supplied (ABASTECER) or sends it back to work (TRABALHANDO).
SetProductionStatus(w, m, status) ==
  /\ isFree(w) /\ production[m] # status
  /\ production' = [production EXCEPT ![m] = status]
  /\ UNCHANGED <<delivery, pickup, supply, trip, mode, seen, job>>

SupplyRequest(w) ==
  \/ \E m \in Machines, t \in TaskTypes, ready \in BOOLEAN, s \in SupplyIds \cup {0} :
       CreateDelivery(w, m, t, ready, s)
  \/ \E d \in DeliveryIds, m \in Machines \cup {NoMachine}, t \in TaskTypes \cup {"NONE"} :
       BeginEdit(w, d, m, t)
  \/ \E d \in DeliveryIds : MarkPrepared(w, d)
  \/ \E m \in Machines, s \in {"TRABALHANDO", "ABASTECER"} : SetProductionStatus(w, m, s)

SupplyStep(w) == FinishEdit(w)
=============================================================================
