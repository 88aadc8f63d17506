----------------------------- MODULE SerialProofs -----------------------------
(***************************************************************************)
(* What holds when requests are served one after the other, for any number *)
(* of machines, transporters, rows and requests, and although a request    *)
(* may end between any two of its writes: what a request checked before    *)
(* its first step is still so when it writes by id.                        *)
(***************************************************************************)
EXTENDS ForkFlowProofs

fits(row, m) == requestTypeMatchesOperatingMode(row.type, m)

\* What job j checked, of deliveries ds and pickups ps.
Fresh(j, ds, ps) ==
  /\ j.kind = "edit" => ds[j.d].status = "CREATED"
  /\ j.kind = "acceptDeliver" => ds[j.d].status = "CREATED" /\ fits(ds[j.d], j.with)
  /\ j.kind = "acceptTrip" => fits(ds[j.d], j.with)
  /\ j.kind = "completeDeliver" => ds[j.d].status \in OpenStatus
  /\ j.kind \in {"acceptPickup", "cancel"} => ps[j.p].status = "CREATED"
  /\ j.kind \in {"link", "orphan", "linkTo", "linkFrom", "join", "completePickup"} =>
       ps[j.p].status \in OpenStatus
  /\ j.kind \in {"link", "orphan", "linkTo", "linkFrom"} => ps[j.p].link = 0
  /\ j.kind = "cancelTx" =>
       /\ ps[j.p].status = "CREATED"
       /\ j.d # 0 => ds[j.d].status = "CREATED" /\ ~ ds[j.d].prepared

CheckedKinds ==
  {"edit", "acceptDeliver", "acceptTrip", "completeDeliver", "acceptPickup", "cancel", "link",
   "orphan", "linkTo", "linkFrom", "join", "completePickup", "cancelTx"}

SInv ==
  /\ IInv /\ DeliveryTypeFits
  /\ \A p \in PickupIds : pickup[p].status = "ABSENT" => pickup[p].link = 0
  /\ \A w \in Slots : Fresh(job[w], delivery, pickup)

\* What a write may do to the row of a delivery, and of a pickup.
DeliveryStep(old, new) ==
  /\ old.status \in {"COMPLETED", "CANCELED"} => new.status = old.status
  /\ new.status = "CANCELED" /\ old.status # "CANCELED" =>
       old.status = "CREATED" /\ ~ old.prepared
  /\ new.status = "ASSIGNED" => fits(new, new.with)

PickupStep(old, new) ==
  /\ old.status \in {"COMPLETED", "CANCELED"} => new.status = old.status
  /\ new.status = "CANCELED" /\ old.status # "CANCELED" => old.status = "CREATED"
  /\ old.link # 0 => new.link \in {0, old.link}
  /\ new.status = "ABSENT" => new.link = 0

RowsStep ==
  /\ \A d \in DeliveryIds : DeliveryStep(delivery[d], delivery'[d])
  /\ \A p \in PickupIds : PickupStep(pickup[p], pickup'[p])

Good(w) == RowsStep /\ Fresh(job'[w], delivery', pickup')
-----------------------------------------------------------------------------
(* Steps that write no delivery and no pickup.                             *)

LEMMA SameDeliveries ==
  ASSUME SInv, UNCHANGED delivery
  PROVE  \A d \in DeliveryIds : DeliveryStep(delivery[d], delivery'[d])
BY DEF SInv, DeliveryTypeFits, DeliveryStep, fits

LEMMA SamePickups ==
  ASSUME SInv, UNCHANGED pickup
  PROVE  \A p \in PickupIds : PickupStep(pickup[p], pickup'[p])
BY DEF SInv, PickupStep

\* The job of a slot after a step that goes on with `next`.
LEMMA Continues ==
  ASSUME SInv, NEW w \in Slots, NEW next, Continue(w, next)
  PROVE  job'[w] = next
BY DEF SInv, IInv, JobsOK, Continue

LEMMA Unchecked ==
  ASSUME NEW j, j.kind \notin CheckedKinds, NEW ds, NEW ps
  PROVE  Fresh(j, ds, ps)
BY DEF Fresh, CheckedKinds

LEMMA Quiet ==
  ASSUME SInv, NEW w \in Slots, UNCHANGED <<delivery, pickup>>, job'[w].kind \notin CheckedKinds
  PROVE  Good(w)
BY SameDeliveries, SamePickups, Unchecked DEF Good, RowsStep

\* A listing, a synchronisation, a binding, and what they leave to do.
LEMMA TripStepGood == ASSUME SInv, NEW w \in Slots, TripStep(w) PROVE Good(w)
<1> DEFINE After == ListJob \cup SyncJob \cup PairJob \cup {Idle}
<1>1. \A j \in After : j.kind \notin CheckedKinds
  BY DEF ListJob, SyncJob, PairJob, Idle, CheckedKinds
<1>2. job[w] \in JobSet
  BY DEF SInv, IInv, JobsOK
<1>3. ASSUME NEW d, NEW p, NEW m, NEW t, NEW then \in After, StartUpsert(w, d, p, m, t, then)
      PROVE  job'[w].kind \notin CheckedKinds
  <2>1. PICK next : Continue(w, next) /\ (next = then \/ next.kind = "pair")
    BY <1>3 DEF StartUpsert
  <2> QED BY <1>1, <2>1, Continues DEF CheckedKinds
<1>4. ASSUME NEW m, NEW then \in After, SyncMachine(w, m, then)
      PROVE  job'[w].kind \notin CheckedKinds
  BY <1>1, <1>3, <1>4, Continues DEF SyncMachine
<1>5. CASE RepointPair(w) \/ CreatePair(w) \/ RollBackPair(w)
  <2>1. job[w] \in PairJob
    BY <1>2, <1>5, JobShape DEF RepointPair, CreatePair, RollBackPair
  <2>2. job[w].then \in After
    BY <2>1 DEF PairJob
  <2> QED BY <1>1, <1>5, <2>2, Continues, Quiet DEF RepointPair, CreatePair, RollBackPair
<1>6. CASE Bind(w)
  <2>1. job[w] \in BindJob
    BY <1>2, <1>6, JobShape DEF Bind
  <2>2. job[w].then \in After
    BY <2>1 DEF BindJob
  <2> QED BY <1>1, <1>3, <1>6, <2>2, Continues, Quiet DEF Bind
<1>7. CASE Sync(w)
  BY <1>4, <1>7, Quiet DEF Sync
<1>8. CASE SyncNextMachine(w)
  <2>1. job[w] \in ListJob
    BY <1>2, <1>8, JobShape DEF SyncNextMachine
  <2>2. \A m : [job[w] EXCEPT !.left = @ \ {m}] \in After
    BY <2>1 DEF ListJob
  <2> QED BY <1>4, <1>8, <2>2, Quiet DEF SyncNextMachine
<1>9. CASE FinishList(w)
  BY <1>1, <1>9, Continues, Quiet DEF FinishList
<1> QED BY <1>5, <1>6, <1>7, <1>8, <1>9 DEF TripStep
-----------------------------------------------------------------------------
(* One row is written.                                                     *)

LEMMA OneDelivery ==
  ASSUME SInv, NEW d \in DeliveryIds, NEW row, DeliveryStep(delivery[d], row),
         delivery' = [delivery EXCEPT ![d] = row]
  PROVE  \A e \in DeliveryIds : DeliveryStep(delivery[e], delivery'[e])
<1>1. \A e \in DeliveryIds : delivery'[e] = IF e = d THEN row ELSE delivery[e]
  BY DEF SInv, IInv, RowsGood
<1> QED BY <1>1 DEF SInv, DeliveryTypeFits, DeliveryStep, fits

LEMMA OnePickup ==
  ASSUME SInv, NEW p \in PickupIds, NEW row, PickupStep(pickup[p], row),
         pickup' = [pickup EXCEPT ![p] = row]
  PROVE  \A k \in PickupIds : PickupStep(pickup[k], pickup'[k])
<1>1. \A k \in PickupIds : pickup'[k] = IF k = p THEN row ELSE pickup[k]
  BY DEF SInv, IInv, RowsGood
<1> QED BY <1>1 DEF SInv, PickupStep

\* The fields of the rows that exist in the tables.
LEMMA RowTypes ==
  ASSUME SInv
  PROVE  /\ \A d \in DeliveryIds : delivery[d] \in DeliveryRow
         /\ \A p \in PickupIds : pickup[p] \in PickupRow
BY DEF SInv, IInv, RowsGood, GoodDelivery, GoodPickup
-----------------------------------------------------------------------------
(* The supply desk.                                                        *)

LEMMA SupplyDeskGood ==
  ASSUME SInv, NEW w \in Slots, SupplyRequest(w) \/ SupplyStep(w)
  PROVE  Good(w)
<1>1. ASSUME NEW m \in Machines, NEW t \in TaskTypes, NEW ready \in BOOLEAN,
             NEW s \in SupplyIds \cup {0}, CreateDelivery(w, m, t, ready, s)
      PROVE  Good(w)
  <2>1. PICK d \in DeliveryIds :
          /\ IsNextId(d, delivery)
          /\ delivery' = [delivery EXCEPT
               ![d] = [status |-> "CREATED", machine |-> m, type |-> t,
                       prepared |-> ready, op |-> NoOp, with |-> "NONE"]]
          /\ Continue(w, [kind |-> "bind", d |-> d, m |-> m, t |-> t, then |-> Idle])
    BY <1>1 DEF CreateDelivery
  <2>2. delivery[d].status = "ABSENT"
    BY <2>1 DEF IsNextId
  <2>3. \A e \in DeliveryIds : DeliveryStep(delivery[e], delivery'[e])
    BY <2>1, <2>2, OneDelivery DEF DeliveryStep
  <2>4. job'[w].kind = "bind"
    BY <2>1, Continues
  <2> QED BY <1>1, <2>3, <2>4, SamePickups, Unchecked DEF CreateDelivery, Good, RowsStep, CheckedKinds
<1>2. ASSUME NEW d \in DeliveryIds, NEW m, NEW t, BeginEdit(w, d, m, t)
      PROVE  Good(w)
  <2>1. job'[w] = [kind |-> "edit", d |-> d, m |-> m, t |-> t] /\ delivery[d].status = "CREATED"
    BY <1>2, Continues DEF BeginEdit
  <2> QED BY <1>2, <2>1, SameDeliveries, SamePickups DEF BeginEdit, Good, RowsStep, Fresh
<1>3. ASSUME NEW d \in DeliveryIds, MarkPrepared(w, d) PROVE Good(w)
  <2> DEFINE row == [delivery[d] EXCEPT !.prepared = TRUE]
  <2>1. DeliveryStep(delivery[d], row)
    BY RowTypes DEF DeliveryRow, SInv, DeliveryTypeFits, DeliveryStep, fits
  <2>2. delivery' = [delivery EXCEPT ![d] = row]
    BY <1>3 DEF MarkPrepared, SInv, IInv, RowsGood, GoodDelivery, DeliveryRow
  <2> HIDE DEF row
  <2>3. job'[w].kind = "bind"
    BY <1>3, Continues DEF MarkPrepared
  <2> QED BY <1>3, <2>1, <2>2, <2>3, OneDelivery, SamePickups, Unchecked
          DEF MarkPrepared, Good, RowsStep, CheckedKinds
<1>4. ASSUME NEW m, NEW status, SetProductionStatus(w, m, status) PROVE Good(w)
  BY <1>4, Quiet DEF SetProductionStatus, isFree, Idle, CheckedKinds
<1>5. CASE FinishEdit(w)
  <2> DEFINE j == job[w]
             old == delivery[j.d]
             row == [old EXCEPT !.machine = IF j.m = NoMachine THEN old.machine ELSE j.m,
                                !.type    = IF j.t = "NONE" THEN old.type ELSE j.t]
  <2>1. j \in EditJob
    BY <1>5, JobShape DEF FinishEdit, SInv, IInv, JobsOK
  <2>2. j.d \in DeliveryIds /\ old \in DeliveryRow /\ old.status = "CREATED"
    BY <1>5, <2>1, RowTypes DEF EditJob, FinishEdit, SInv, Fresh
  <2>3. DeliveryStep(old, row)
    BY <2>2 DEF DeliveryRow, DeliveryStep
  <2>4. delivery' = [delivery EXCEPT ![j.d] = row]
    BY <1>5, <2>2 DEF FinishEdit, SInv, IInv, RowsGood, GoodDelivery, DeliveryRow
  <2> HIDE DEF row
  <2>5. job'[w].kind = "idle"
    BY <1>5, Continues DEF FinishEdit, Idle
  <2> QED BY <1>5, <2>2, <2>3, <2>4, <2>5, OneDelivery, SamePickups, Unchecked
          DEF FinishEdit, Good, RowsStep, CheckedKinds
<1> QED BY <1>1, <1>2, <1>3, <1>4, <1>5 DEF SupplyRequest, SupplyStep
-----------------------------------------------------------------------------
(* Transporters.                                                           *)

LEMMA TransportRequestGood == ASSUME SInv, NEW w \in Slots, TransportRequest(w) PROVE Good(w)
<1>1. ASSUME NEW o \in Operators, NEW m \in OperatingModes, SetMode(w, o, m) PROVE Good(w)
  BY <1>1, Quiet DEF SetMode, isFree, Idle, CheckedKinds
<1>2. ASSUME NEW o \in Operators, BeginClearMode(w, o) PROVE Good(w)
  BY <1>2, Continues, Quiet DEF BeginClearMode, CheckedKinds
<1>3. ASSUME NEW o \in Operators, NEW main \in BOOLEAN, BeginList(w, o, main) PROVE Good(w)
  <2>1. job'[w].kind = "list"
    BY <1>3, Continues DEF BeginList
  <2> QED BY <1>3, <2>1, Quiet DEF BeginList, CheckedKinds
<1>4. ASSUME NEW o \in Operators, NEW d \in DeliveryIds, BeginAcceptDeliver(w, o, d)
      PROVE  Good(w)
  <2>1. /\ job'[w] = [kind |-> "acceptDeliver", o |-> o, d |-> d, with |-> mode[o]]
        /\ delivery[d].status = "CREATED" /\ fits(delivery[d], mode[o])
    BY <1>4, Continues DEF BeginAcceptDeliver, mayAccept, fits
  <2> QED BY <1>4, <2>1, SameDeliveries, SamePickups DEF BeginAcceptDeliver, Good, RowsStep, Fresh
<1>5. ASSUME NEW o \in Operators, NEW d \in DeliveryIds, BeginCompleteDeliver(w, o, d)
      PROVE  Good(w)
  <2>1. /\ job'[w] = [kind |-> "completeDeliver", d |-> d]
        /\ delivery[d].status \in OpenStatus
    BY <1>5, Continues DEF BeginCompleteDeliver
  <2> QED BY <1>5, <2>1, SameDeliveries, SamePickups DEF BeginCompleteDeliver, Good, RowsStep, Fresh
<1>6. ASSUME NEW o \in Operators, NEW p \in PickupIds, BeginAcceptPickup(w, o, p) PROVE Good(w)
  <2>1. /\ job'[w] = [kind |-> "acceptPickup", o |-> o, p |-> p, with |-> mode[o]]
        /\ pickup[p].status = "CREATED"
    BY <1>6, Continues DEF BeginAcceptPickup
  <2> QED BY <1>6, <2>1, SameDeliveries, SamePickups DEF BeginAcceptPickup, Good, RowsStep, Fresh
<1>7. ASSUME NEW o \in Operators, NEW p \in PickupIds, BeginCompletePickup(w, o, p)
      PROVE  Good(w)
  <2>1. /\ job'[w] = [kind |-> "completePickup", o |-> o, p |-> p, with |-> mode[o],
                      first |-> pickup[p].op = NoOp]
        /\ pickup[p].status \in OpenStatus
    BY <1>7, Continues DEF BeginCompletePickup
  <2> QED BY <1>7, <2>1, SameDeliveries, SamePickups DEF BeginCompletePickup, Good, RowsStep, Fresh
<1>8. ASSUME NEW o \in Operators, NEW r \in TripIds, BeginAcceptTrip(w, o, r) PROVE Good(w)
  <2>1. /\ job'[w] = [kind |-> "acceptTrip", o |-> o, r |-> r, d |-> trip[r].deliver,
                      p |-> trip[r].pickup, with |-> mode[o]]
        /\ fits(delivery[trip[r].deliver], mode[o])
    BY <1>8, Continues DEF BeginAcceptTrip, mayAccept, fits
  <2> QED BY <1>8, <2>1, SameDeliveries, SamePickups DEF BeginAcceptTrip, Good, RowsStep, Fresh
<1> QED BY <1>1, <1>2, <1>3, <1>4, <1>5, <1>6, <1>7, <1>8 DEF TransportRequest
\* What an accept or a completion in execution remembers.
LEMMA AcceptRemembers ==
  ASSUME SInv, NEW w \in Slots
  PROVE  /\ job[w].kind = "acceptDeliver" => job[w].d \in DeliveryIds
         /\ job[w].kind = "acceptPickup" => job[w].p \in PickupIds
         /\ job[w].kind = "acceptTrip" => job[w].d \in DeliveryIds /\ job[w].p \in PickupIds
         /\ job[w].kind = "completeDeliver" => job[w].d \in DeliveryIds
         /\ job[w].kind = "completePickup" => job[w].p \in PickupIds
BY JobShape DEF AcceptJob, CompleteJob, SInv, IInv, JobsOK

\* Taking a waiting task of a type that fits.
LEMMA TakenRows ==
  ASSUME SInv, NEW o, NEW m
  PROVE  /\ \A d \in DeliveryIds : delivery[d].status = "CREATED" /\ fits(delivery[d], m) =>
              DeliveryStep(delivery[d], Assigned(delivery[d], o, m))
         /\ \A p \in PickupIds : pickup[p].status = "CREATED" =>
              PickupStep(pickup[p], Assigned(pickup[p], o, m))
BY RowTypes DEF DeliveryRow, PickupRow, Assigned, DeliveryStep, PickupStep, fits

LEMMA FinishAcceptGood ==
  ASSUME SInv, NEW w \in Slots,
         FinishAcceptDeliver(w) \/ FinishAcceptPickup(w) \/ FinishAcceptTrip(w)
  PROVE  Good(w)
<1> DEFINE j == job[w]
<1>1. job'[w].kind = "idle"
  BY Continues DEF FinishAcceptDeliver, FinishAcceptPickup, FinishAcceptTrip, Idle
<1>2. CASE FinishAcceptDeliver(w)
  <2>1. j.d \in DeliveryIds /\ delivery[j.d].status = "CREATED" /\ fits(delivery[j.d], j.with)
    BY <1>2, AcceptRemembers DEF FinishAcceptDeliver, SInv, Fresh
  <2>2. DeliveryStep(delivery[j.d], Assigned(delivery[j.d], j.o, j.with))
    BY <2>1, TakenRows
  <2>3. delivery' = [delivery EXCEPT ![j.d] = Assigned(delivery[j.d], j.o, j.with)]
    BY <1>2, <2>1 DEF FinishAcceptDeliver, SInv, IInv, RowsGood
  <2> QED BY <1>1, <1>2, <2>1, <2>2, <2>3, OneDelivery, SamePickups, Unchecked
          DEF FinishAcceptDeliver, Good, RowsStep, CheckedKinds
<1>3. CASE FinishAcceptPickup(w)
  <2>1. j.p \in PickupIds /\ pickup[j.p].status = "CREATED"
    BY <1>3, AcceptRemembers DEF FinishAcceptPickup, SInv, Fresh
  <2>2. PickupStep(pickup[j.p], Assigned(pickup[j.p], j.o, j.with))
    BY <2>1, TakenRows
  <2>3. pickup' = [pickup EXCEPT ![j.p] = Assigned(pickup[j.p], j.o, j.with)]
    BY <1>3, <2>1 DEF FinishAcceptPickup, SInv, IInv, RowsGood
  <2> QED BY <1>1, <1>3, <2>1, <2>2, <2>3, OnePickup, SameDeliveries, Unchecked
          DEF FinishAcceptPickup, Good, RowsStep, CheckedKinds
<1>4. CASE FinishAcceptTrip(w)
  <2>1. j.d \in DeliveryIds /\ j.p \in PickupIds /\ fits(delivery[j.d], j.with)
    BY <1>4, AcceptRemembers DEF FinishAcceptTrip, SInv, Fresh
  <2>2. CASE UNCHANGED <<delivery, pickup>>
    BY <1>1, <2>2, Quiet DEF CheckedKinds
  <2>3. CASE /\ delivery' = [delivery EXCEPT ![j.d] =
                   IF @.status = "CREATED" THEN Assigned(@, j.o, j.with) ELSE @]
             /\ pickup' = [pickup EXCEPT ![j.p] =
                   IF @.status = "CREATED" THEN Assigned(@, j.o, j.with) ELSE @]
    <3> DEFINE rowD == IF delivery[j.d].status = "CREATED"
                       THEN Assigned(delivery[j.d], j.o, j.with) ELSE delivery[j.d]
               rowP == IF pickup[j.p].status = "CREATED"
                       THEN Assigned(pickup[j.p], j.o, j.with) ELSE pickup[j.p]
    <3>1. DeliveryStep(delivery[j.d], rowD)
      BY <2>1, TakenRows DEF SInv, DeliveryTypeFits, DeliveryStep, fits
    <3>2. PickupStep(pickup[j.p], rowP)
      <4>1. CASE pickup[j.p].status = "CREATED"
        BY <2>1, <4>1, TakenRows
      <4>2. CASE pickup[j.p].status # "CREATED"
        <5>1. PickupStep(pickup[j.p], pickup[j.p])
          BY <2>1 DEF SInv, PickupStep
        <5> QED BY <4>2, <5>1
      <4> QED BY <4>1, <4>2
    <3>3. delivery' = [delivery EXCEPT ![j.d] = rowD] /\ pickup' = [pickup EXCEPT ![j.p] = rowP]
      BY <2>3
    <3> HIDE DEF rowD, rowP
    <3> QED BY <1>1, <2>1, <3>1, <3>2, <3>3, OneDelivery, OnePickup, Unchecked
            DEF Good, RowsStep, CheckedKinds
  <2> QED BY <1>4, <2>2, <2>3 DEF FinishAcceptTrip
<1> QED BY <1>2, <1>3, <1>4

LEMMA FinishCompleteGood ==
  ASSUME SInv, NEW w \in Slots, FinishCompleteDeliver(w) \/ FinishCompletePickup(w)
  PROVE  Good(w)
<1> DEFINE j == job[w]
<1>1. CASE FinishCompleteDeliver(w)
  <2> DEFINE old == delivery[j.d]
             row == [old EXCEPT !.status = "COMPLETED"]
  <2>1. j.d \in DeliveryIds /\ old.status \in OpenStatus
    BY <1>1, AcceptRemembers DEF FinishCompleteDeliver, SInv, Fresh
  <2>2. DeliveryStep(old, row)
    BY <2>1, RowTypes DEF DeliveryRow, DeliveryStep, OpenStatus
  <2>3. delivery' = [delivery EXCEPT ![j.d] = row]
    BY <1>1, <2>1 DEF FinishCompleteDeliver, SInv, IInv, RowsGood, GoodDelivery, DeliveryRow
  <2> HIDE DEF row
  <2>4. job'[w].kind \in {"idle", "resume"}
    BY <1>1, Continues DEF FinishCompleteDeliver, Idle
  <2> QED BY <1>1, <2>1, <2>2, <2>3, <2>4, OneDelivery, SamePickups, Unchecked
          DEF FinishCompleteDeliver, Good, RowsStep, CheckedKinds
<1>2. CASE FinishCompletePickup(w)
  <2> DEFINE old == pickup[j.p]
             row == [old EXCEPT !.status = "COMPLETED", !.op = j.o,
                                !.with = IF j.first THEN j.with ELSE old.with]
  <2>1. j.p \in PickupIds /\ old.status \in OpenStatus
    BY <1>2, AcceptRemembers DEF FinishCompletePickup, SInv, Fresh
  <2>2. PickupStep(old, row)
    BY <2>1, RowTypes DEF PickupRow, PickupStep, OpenStatus
  <2>3. pickup' = [pickup EXCEPT ![j.p] = row]
    BY <1>2, <2>1 DEF FinishCompletePickup, SInv, IInv, RowsGood, GoodPickup, PickupRow
  <2> HIDE DEF row
  <2>4. job'[w].kind \in {"idle", "closeTrip"}
    BY <1>2, Continues DEF FinishCompletePickup, Idle
  <2> QED BY <1>2, <2>1, <2>2, <2>3, <2>4, OnePickup, SameDeliveries, Unchecked
          DEF FinishCompletePickup, Good, RowsStep, CheckedKinds
<1> QED BY <1>1, <1>2

LEMMA TransportStepGood == ASSUME SInv, NEW w \in Slots, TransportStep(w) PROVE Good(w)
<1>1. CASE ResumeMachine(w) \/ CloseTrip(w) \/ FinishClearMode(w)
  <2>1. job'[w].kind = "idle"
    BY <1>1, Continues DEF ResumeMachine, CloseTrip, FinishClearMode, Idle
  <2> QED BY <1>1, <2>1, Quiet DEF ResumeMachine, CloseTrip, FinishClearMode, CheckedKinds
<1> QED BY <1>1, FinishAcceptGood, FinishCompleteGood DEF TransportStep
-----------------------------------------------------------------------------
(* Machine operators.                                                      *)

LEMMA MachineRequestGood == ASSUME SInv, NEW w \in Slots, MachineRequest(w) PROVE Good(w)
<1>1. ASSUME NEW m \in Machines, NEW t \in TaskTypes, RequestPickup(w, m, t) PROVE Good(w)
  <2>1. PICK p \in PickupIds :
          /\ IsNextId(p, pickup)
          /\ pickup' = [pickup EXCEPT ![p] = NewPickup(m, t, 0)]
          /\ Continue(w, [kind |-> "link", p |-> p, m |-> m])
    BY <1>1 DEF RequestPickup
  <2>2. pickup[p].status = "ABSENT"
    BY <2>1 DEF IsNextId
  <2>3. PickupStep(pickup[p], NewPickup(m, t, 0))
    BY <2>2 DEF SInv, PickupStep, NewPickup
  <2>4. \A k \in PickupIds : PickupStep(pickup[k], pickup'[k])
    BY <2>1, <2>3, OnePickup
  <2>5. pickup'[p].status = "CREATED" /\ pickup'[p].link = 0
    BY <2>1 DEF NewPickup, SInv, IInv, RowsGood
  <2>6. job'[w] = [kind |-> "link", p |-> p, m |-> m]
    BY <2>1, Continues
  <2> QED BY <1>1, <2>4, <2>5, <2>6, SameDeliveries
          DEF RequestPickup, Good, RowsStep, Fresh, OpenStatus
<1>2. ASSUME NEW m \in Machines, RepairLinks(w, m) PROVE Good(w)
  <2> DEFINE p == Oldest(OpenUnlinkedPickups(m))
  <2>1. p \in OpenUnlinkedPickups(m)
    <3>1. OpenUnlinkedPickups(m) \in SUBSET (1 .. MaxPickup) /\ OpenUnlinkedPickups(m) # {}
      BY <1>2 DEF RepairLinks, OpenUnlinkedPickups, OpenPickups, PickupIds
    <3> QED BY <3>1, OldestIsIn, BoundsAssumption
  <2>2. pickup[p].status \in OpenStatus /\ pickup[p].link = 0
    BY <2>1 DEF OpenUnlinkedPickups, OpenPickups
  <2>3. job'[w] = [kind |-> "link", p |-> p, m |-> m]
    BY <1>2, Continues DEF RepairLinks
  <2> HIDE DEF p
  <2> QED BY <1>2, <2>2, <2>3, SameDeliveries, SamePickups DEF RepairLinks, Good, RowsStep, Fresh
<1>3. ASSUME NEW m \in Machines,
             BeginRequestSupply(w, m) \/ \E t \in TaskTypes : BeginRequestBoth(w, m, t)
      PROVE  Good(w)
  <2>1. CASE BeginRequestSupply(w, m)
    <3>1. job'[w] = [kind |-> "newSupply", m |-> m]
      BY <2>1, Continues DEF BeginRequestSupply
    <3> QED BY <2>1, <3>1, Quiet DEF BeginRequestSupply, CheckedKinds
  <2>2. ASSUME NEW t \in TaskTypes, BeginRequestBoth(w, m, t) PROVE Good(w)
    <3>1. job'[w] = [kind |-> "newPair", m |-> m, t |-> t]
      BY <2>2, Continues DEF BeginRequestBoth
    <3> QED BY <2>2, <3>1, Quiet DEF BeginRequestBoth, CheckedKinds
  <2> QED BY <1>3, <2>1, <2>2
<1>4. ASSUME NEW p \in PickupIds, BeginCancel(w, p) PROVE Good(w)
  <2>1. /\ job'[w] = [kind |-> "cancel", p |-> p, s |-> pickup[p].link]
        /\ pickup[p].status = "CREATED"
    BY <1>4, Continues DEF BeginCancel
  <2> QED BY <1>4, <2>1, SameDeliveries, SamePickups DEF BeginCancel, Good, RowsStep, Fresh
<1> QED BY <1>1, <1>2, <1>3, <1>4 DEF MachineRequest

\* The pickup a linking, joining or cancelling request is about.
LEMMA MachineRemembers ==
  ASSUME SInv, NEW w \in Slots
  PROVE  /\ job[w].kind \in {"link", "orphan", "linkTo", "join", "linkFrom", "cancel",
                             "cancelTx"} => job[w].p \in PickupIds
         /\ job[w].kind = "linkTo" => job[w].s \in SupplyIds
         /\ job[w].kind = "join" => job[w] \in JoinJob
         /\ job[w].kind = "cancelTx" => job[w].d \in DeliveryIds \cup {0}
BY JobShape DEF MachineJob, LinkJob, OrphanJob, LinkToJob, JoinJob, LinkFromJob, CancelJob,
                CancelTxJob, SInv, IInv, JobsOK

\* A step that writes no delivery and no pickup, and goes on with the open pickup.
LEMMA KeepsPickup ==
  ASSUME SInv, NEW w \in Slots, UNCHANGED <<delivery, pickup>>,
         job[w].kind \in {"link", "orphan", "linkTo"},
         \/ job'[w].kind \notin CheckedKinds
         \/ job'[w].kind \in {"orphan", "linkTo", "join"} /\ job'[w].p = job[w].p
  PROVE  Good(w)
<1>1. pickup[job[w].p].status \in OpenStatus /\ pickup[job[w].p].link = 0
  BY DEF SInv, Fresh
<1>2. Fresh(job'[w], delivery', pickup')
  BY <1>1, Unchecked DEF Fresh
<1> QED BY <1>2, SameDeliveries, SamePickups DEF Good, RowsStep

\* Finding the request of a new pickup, and making one up.
LEMMA LinkingGood ==
  ASSUME SInv, NEW w \in Slots, ResolveSupply(w) \/ CreateOrphanSupply(w)
  PROVE  Good(w)
<1> DEFINE j == job[w]
<1>1. \/ job'[w] = Idle
      \/ job'[w].kind \in {"orphan", "linkTo"} /\ job'[w].p = j.p
  <2> SUFFICES ASSUME ~ Continue(w, Idle)
               PROVE  job'[w].kind \in {"orphan", "linkTo"} /\ job'[w].p = j.p
    BY Continues
  <2>1. \/ \E s : LinkTo(w, j.p, j.m, s)
        \/ \E d : Continue(w, [kind |-> "orphan", p |-> j.p, m |-> j.m, d |-> d,
                               dm |-> delivery[d].machine])
        \/ \E s : Continue(w, [kind |-> "linkTo", p |-> j.p, m |-> j.m, s |-> s, d |-> j.d])
    BY DEF ResolveSupply, CreateOrphanSupply
  <2>2. ASSUME NEW s, LinkTo(w, j.p, j.m, s)
        PROVE  job'[w].kind = "linkTo" /\ job'[w].p = j.p
    <3>1. job'[w] = [kind |-> "linkTo", p |-> j.p, m |-> j.m, s |-> s, d |-> supply[s].delivery]
      BY <2>2, Continues DEF LinkTo
    <3> QED BY <3>1
  <2>3. ASSUME NEW d, Continue(w, [kind |-> "orphan", p |-> j.p, m |-> j.m, d |-> d,
                                   dm |-> delivery[d].machine])
        PROVE  job'[w].kind = "orphan" /\ job'[w].p = j.p
    BY <2>3, Continues
  <2>4. ASSUME NEW s, Continue(w, [kind |-> "linkTo", p |-> j.p, m |-> j.m, s |-> s, d |-> j.d])
        PROVE  job'[w].kind = "linkTo" /\ job'[w].p = j.p
    BY <2>4, Continues
  <2> QED BY <2>1, <2>2, <2>3, <2>4
<1>2. UNCHANGED <<delivery, pickup>> /\ j.kind \in {"link", "orphan"}
  BY DEF ResolveSupply, CreateOrphanSupply
<1> QED BY <1>1, <1>2, KeepsPickup DEF Idle, CheckedKinds

\* Writing links changes no status, and clears or keeps a link that is there.
LinkStep(old, new) ==
  /\ new.status = old.status
  /\ new.link # old.link => new.link = 0 \/ (old.link = 0 /\ old.status # "ABSENT")

LEMMA LinksOnly ==
  ASSUME SInv, \A p \in PickupIds : LinkStep(pickup[p], pickup'[p])
  PROVE  \A p \in PickupIds : PickupStep(pickup[p], pickup'[p])
BY DEF SInv, PickupStep, LinkStep

LEMMA WriteLinkGood ==
  ASSUME SInv, NEW w \in Slots, LinkPickup(w) \/ LinkSupply(w)
  PROVE  Good(w)
<1> DEFINE j == job[w]
<1>1. CASE LinkPickup(w)
  <2> DEFINE cleared == LinksCleared(j.s)
             taken == \E p \in PickupIds \ {j.p} : cleared[p].link = j.s
  <2>1. j.p \in PickupIds /\ pickup[j.p].status \in OpenStatus /\ pickup[j.p].link = 0
    BY <1>1, MachineRemembers DEF LinkPickup, SInv, Fresh
  <2>2. \A p \in PickupIds : /\ cleared[p] \in PickupRow /\ cleared[p].status = pickup[p].status
                            /\ cleared[p].link \in {0, pickup[p].link}
    <3> SUFFICES ASSUME NEW p \in PickupIds
                 PROVE  /\ cleared[p] \in PickupRow /\ cleared[p].status = pickup[p].status
                        /\ cleared[p].link \in {0, pickup[p].link}
      OBVIOUS
    <3>1. pickup[p] \in PickupRow
      BY RowTypes
    <3> QED BY <3>1 DEF LinksCleared, PickupRow
  <2>3. \A p \in PickupIds : LinkStep(pickup[p], pickup'[p])
    <3>1. DOMAIN cleared = PickupIds
      BY DEF LinksCleared
    <3>2. pickup' = cleared \/ pickup' = [cleared EXCEPT ![j.p].link = j.s]
      BY <1>1 DEF LinkPickup
    <3> HIDE DEF cleared
    <3> QED BY <2>1, <2>2, <3>1, <3>2 DEF PickupRow, LinkStep, OpenStatus
  <2>4. job'[w] = Idle \/ job'[w] = AfterLink(j)
    BY <1>1, Continues DEF LinkPickup
  <2>5. \/ job'[w].kind \notin CheckedKinds
        \/ job'[w].kind = "join" /\ job'[w].p = j.p
    BY <2>4 DEF AfterLink, Idle, CheckedKinds
  <2>6. Fresh(job'[w], delivery', pickup')
    BY <2>1, <2>3, <2>5, Unchecked DEF Fresh, LinkStep
  <2>7. UNCHANGED delivery
    BY <1>1 DEF LinkPickup
  <2> QED BY <2>3, <2>6, <2>7, LinksOnly, SameDeliveries DEF Good, RowsStep
<1>2. CASE LinkSupply(w)
  <2>1. j.p \in PickupIds /\ pickup[j.p].link = 0 /\ pickup[j.p].status \in OpenStatus
    BY <1>2, MachineRemembers DEF LinkSupply, SInv, Fresh
  <2>2. \A p \in PickupIds : LinkStep(pickup[p], pickup'[p])
    BY <1>2, <2>1, RowTypes DEF LinkSupply, SInv, IInv, RowsGood, PickupRow, LinkStep, OpenStatus
  <2>3. job'[w].kind = "idle"
    BY <1>2, Continues DEF LinkSupply, Idle
  <2> QED BY <1>2, <2>2, <2>3, LinksOnly, SameDeliveries, Unchecked
          DEF LinkSupply, Good, RowsStep, CheckedKinds
<1> QED BY <1>1, <1>2

\* A pickup joins the delivery on its way.
LEMMA JoinGood ==
  ASSUME SInv, NEW w \in Slots, JoinDelivery(w) \/ JoinTrip(w)
  PROVE  Good(w)
<1> DEFINE j == job[w]
<1>1. CASE JoinDelivery(w)
  <2> DEFINE row == [pickup[j.p] EXCEPT !.status = "ASSIGNED", !.op = j.o, !.with = j.with]
  <2>1. j \in JoinJob /\ j.p \in PickupIds /\ pickup[j.p].status \in OpenStatus
    BY <1>1, MachineRemembers DEF JoinDelivery, SInv, Fresh
  <2>2. PickupStep(pickup[j.p], row)
    BY <2>1, RowTypes DEF PickupRow, PickupStep, OpenStatus
  <2>3. pickup' = [pickup EXCEPT ![j.p] = row]
    BY <1>1, <2>1 DEF JoinDelivery, SInv, IInv, RowsGood, GoodPickup, PickupRow
  <2> HIDE DEF row
  <2>4. job'[w].kind = "joinPair"
    BY <1>1, <2>1, Continues DEF JoinDelivery, JoinJob
  <2> QED BY <1>1, <2>1, <2>2, <2>3, <2>4, OnePickup, SameDeliveries, Unchecked
          DEF JoinDelivery, Good, RowsStep, CheckedKinds
<1>2. CASE JoinTrip(w)
  <2>1. job'[w].kind = "idle"
    BY <1>2, Continues DEF JoinTrip, Idle
  <2> QED BY <1>2, <2>1, Quiet DEF JoinTrip, CheckedKinds
<1> QED BY <1>1, <1>2

LEMMA NewSupplyGood == ASSUME SInv, NEW w \in Slots, CreateSupply(w) PROVE Good(w)
<1> DEFINE free == OpenUnlinkedPickups(job[w].m)
<1>1. CASE free = {}
  <2>1. job'[w].kind = "idle"
    BY <1>1, Continues DEF CreateSupply, Idle
  <2> QED BY <2>1, Quiet DEF CreateSupply, CheckedKinds
<1>2. CASE free # {}
  <2>1. PICK s : Continue(w, [kind |-> "linkFrom", s |-> s, p |-> Oldest(free)])
    BY <1>2 DEF CreateSupply
  <2>2. Oldest(free) \in free
    <3>1. free \in SUBSET (1 .. MaxPickup)
      BY DEF OpenUnlinkedPickups, OpenPickups, PickupIds
    <3> QED BY <1>2, <3>1, OldestIsIn, BoundsAssumption
  <2>3. pickup[Oldest(free)].status \in OpenStatus /\ pickup[Oldest(free)].link = 0
    BY <2>2 DEF OpenUnlinkedPickups, OpenPickups
  <2>4. job'[w] = [kind |-> "linkFrom", s |-> s, p |-> Oldest(free)]
    BY <2>1, Continues
  <2>5. UNCHANGED <<delivery, pickup>>
    BY DEF CreateSupply
  <2>6. Fresh(job'[w], delivery', pickup')
    BY <2>3, <2>4, <2>5 DEF Fresh
  <2> QED BY <2>5, <2>6, SameDeliveries, SamePickups DEF Good, RowsStep
<1> QED BY <1>1, <1>2

LEMMA NewPairGood == ASSUME SInv, NEW w \in Slots, CreateBoth(w) PROVE Good(w)
<1>1. PICK s \in SupplyIds, p \in PickupIds :
        /\ IsNextId(p, pickup)
        /\ pickup' = [pickup EXCEPT ![p] = NewPickup(job[w].m, job[w].t, s)]
  BY DEF CreateBoth
<1>2. PickupStep(pickup[p], NewPickup(job[w].m, job[w].t, s))
  BY <1>1 DEF SInv, PickupStep, NewPickup, IsNextId
<1>3. \A k \in PickupIds : PickupStep(pickup[k], pickup'[k])
  BY <1>1, <1>2, OnePickup
<1>4. job'[w].kind = "idle"
  BY Continues DEF CreateBoth, Idle
<1> QED BY <1>3, <1>4, SameDeliveries, Unchecked DEF CreateBoth, Good, RowsStep, CheckedKinds

\* Cancelling: what the transaction read is what it writes.
LEMMA CancelGood ==
  ASSUME SInv, NEW w \in Slots, ReadCancel(w) \/ FinishCancel(w)
  PROVE  Good(w)
<1> DEFINE j == job[w]
<1>1. CASE ReadCancel(w)
  <2>1. pickup[j.p].status = "CREATED"
    BY <1>1 DEF ReadCancel, SInv, Fresh
  <2>2. PICK s, d : /\ Continue(w, [kind |-> "cancelTx", p |-> j.p, s |-> s, d |-> d])
                    /\ d = 0 \/ isCancelableDelivery(d)
    BY <1>1 DEF ReadCancel
  <2>3. job'[w] = [kind |-> "cancelTx", p |-> j.p, s |-> s, d |-> d]
    BY <2>2, Continues
  <2>4. d # 0 => delivery[d].status = "CREATED" /\ ~ delivery[d].prepared
    BY <2>2 DEF isCancelableDelivery
  <2>5. UNCHANGED <<delivery, pickup>>
    BY <1>1 DEF ReadCancel
  <2>6. Fresh(job'[w], delivery', pickup')
    BY <2>1, <2>3, <2>4, <2>5 DEF Fresh
  <2> QED BY <2>5, <2>6, SameDeliveries, SamePickups DEF Good, RowsStep
<1>2. CASE FinishCancel(w)
  <2>1. j.p \in PickupIds /\ pickup[j.p].status = "CREATED" /\ j.d \in DeliveryIds \cup {0}
    BY <1>2, MachineRemembers DEF FinishCancel, SInv, Fresh
  <2>2. \A k \in PickupIds : PickupStep(pickup[k], pickup'[k])
    <3> DEFINE row == [pickup[j.p] EXCEPT !.status = "CANCELED", !.link = 0]
    <3>1. PickupStep(pickup[j.p], row)
      BY <2>1, RowTypes DEF PickupRow, PickupStep
    <3>2. pickup' = [pickup EXCEPT ![j.p] = row]
      BY <1>2, <2>1 DEF FinishCancel, SInv, IInv, RowsGood, GoodPickup, PickupRow
    <3> HIDE DEF row
    <3> QED BY <2>1, <3>1, <3>2, OnePickup
  <2>3. \A e \in DeliveryIds : DeliveryStep(delivery[e], delivery'[e])
    <3>1. CASE j.d = 0
      BY <1>2, <3>1, SameDeliveries DEF FinishCancel
    <3>2. CASE j.d # 0
      <4> DEFINE row == [delivery[j.d] EXCEPT !.status = "CANCELED"]
      <4>1. j.d \in DeliveryIds /\ delivery[j.d].status = "CREATED" /\ ~ delivery[j.d].prepared
        BY <1>2, <2>1, <3>2 DEF FinishCancel, SInv, Fresh
      <4>2. DeliveryStep(delivery[j.d], row)
        BY <4>1, RowTypes DEF DeliveryRow, DeliveryStep
      <4>3. delivery' = [delivery EXCEPT ![j.d] = row]
        BY <1>2, <3>2, <4>1 DEF FinishCancel, SInv, IInv, RowsGood, GoodDelivery, DeliveryRow
      <4> HIDE DEF row
      <4> QED BY <4>1, <4>2, <4>3, OneDelivery
    <3> QED BY <3>1, <3>2
  <2>4. job'[w].kind = "idle"
    BY <1>2, Continues DEF FinishCancel, Idle
  <2> QED BY <2>2, <2>3, <2>4, Unchecked DEF Good, RowsStep, CheckedKinds
<1> QED BY <1>1, <1>2

LEMMA MachineStepGood == ASSUME SInv, NEW w \in Slots, MachineStep(w) PROVE Good(w)
<1>1. CASE ResolveSupply(w) \/ CreateOrphanSupply(w)
  BY <1>1, LinkingGood
<1>2. CASE LinkPickup(w) \/ LinkSupply(w)
  BY <1>2, WriteLinkGood
<1>3. CASE JoinDelivery(w) \/ JoinTrip(w)
  BY <1>3, JoinGood
<1>4. CASE CreateSupply(w)
  BY <1>4, NewSupplyGood
<1>5. CASE CreateBoth(w)
  BY <1>5, NewPairGood
<1>6. CASE ReadCancel(w) \/ FinishCancel(w)
  BY <1>6, CancelGood
<1> QED BY <1>1, <1>2, <1>3, <1>4, <1>5, <1>6 DEF MachineStep
-----------------------------------------------------------------------------
(* One slot: nothing else writes between a check and its write.            *)

OneSlot == \A v, w \in Slots : v = w

LEMMA StepGood ==
  ASSUME SInv, Next, OneSlot
  PROVE  RowsStep /\ \A w \in Slots : Fresh(job'[w], delivery', pickup')
<1>1. ASSUME NEW w \in Slots, Fail(w) PROVE Good(w)
  <2>1. job'[w].kind = "idle"
    BY <1>1, Continues DEF Fail, Idle
  <2> QED BY <1>1, <2>1, Quiet DEF Fail, CheckedKinds
<1>2. PICK w \in Slots : Good(w)
  BY <1>1, SupplyDeskGood, MachineRequestGood, TransportRequestGood, MachineStepGood,
     TransportStepGood, TripStepGood DEF Next
<1> QED BY <1>2 DEF Good, OneSlot

LEMMA NextSInv == ASSUME SInv, [Next]_vars, OneSlot PROVE SInv' /\ RowsStep
<1>1. IInv'
  BY NextIInv DEF SInv
<1>2. CASE UNCHANGED vars
  <2>1. UNCHANGED <<delivery, pickup, job>>
    BY <1>2 DEF vars
  <2> QED BY <1>1, <2>1, SameDeliveries, SamePickups
          DEF SInv, RowsStep, DeliveryTypeFits, Fresh, fits
<1>3. CASE Next
  <2>1. RowsStep /\ \A w \in Slots : Fresh(job'[w], delivery', pickup')
    BY <1>3, StepGood
  <2>2. DeliveryTypeFits'
    BY <2>1 DEF RowsStep, DeliveryStep, DeliveryTypeFits, fits
  <2>3. \A p \in PickupIds : pickup'[p].status = "ABSENT" => pickup'[p].link = 0
    BY <2>1 DEF RowsStep, PickupStep
  <2> QED BY <1>1, <2>1, <2>2, <2>3 DEF SInv
<1> QED BY <1>2, <1>3

LEMMA InitSInv == Init => SInv
<1> SUFFICES ASSUME Init PROVE SInv
  OBVIOUS
<1>1. IInv
  BY InitIInv
<1>2. DeliveryTypeFits
  BY DEF Init, NoDelivery, DeliveryTypeFits
<1>5. \A p \in PickupIds : pickup[p].link = 0
  BY DEF Init, NoPickup
<1>3. \A w \in Slots : job[w].kind = "idle"
  BY DEF Init, Idle
<1>4. \A w \in Slots : Fresh(job[w], delivery, pickup)
  BY <1>3, Unchecked DEF CheckedKinds
<1> QED BY <1>1, <1>2, <1>4, <1>5 DEF SInv

LEMMA AlwaysSInv == ASSUME OneSlot PROVE Spec => []SInv /\ [][SInv /\ RowsStep]_vars
<1>1. SInv /\ [Next]_vars => SInv' /\ RowsStep
  BY NextSInv
<1> QED BY <1>1, InitSInv, PTL DEF Spec

\* With requests served one after the other, a delivery that needs a forklift is
\* driven with one, although the desk may have changed its type and the transporter
\* the equipment since the list was shown, and although a request may stop half-way.
THEOREM TypeFitsInSeries == ASSUME OneSlot PROVE Spec => []DeliveryTypeFits
<1>1. SInv => DeliveryTypeFits
  BY DEF SInv
<1> QED BY <1>1, AlwaysSInv, PTL

\* Then no request reopens or rewrites the outcome of a finished task: every write by
\* id is of a row whose status the same request read and nobody changed since.
THEOREM DoneStaysInSeries == ASSUME OneSlot PROVE Spec => DoneStaysDone
<1>1. SInv /\ RowsStep => KeepsDone
  BY DEF RowsStep, DeliveryStep, PickupStep, KeepsDone
<1> QED BY <1>1, AlwaysSInv, PTL DEF DoneStaysDone

\* And cancelling never discards a pallet that is prepared or on its way, nor a
\* pickup that a transporter accepted.
THEOREM CancelsInSeries == ASSUME OneSlot PROVE Spec => CancelOnlyWaiting
<1>1. SInv /\ RowsStep => CancelsWaiting
  BY DEF RowsStep, DeliveryStep, PickupStep, CancelsWaiting
<1> QED BY <1>1, AlwaysSInv, PTL DEF CancelOnlyWaiting

\* And the link of a pickup to a supply request is written once: it may be cleared but
\* never moved, although four requests look for a pickup or a request without a link
\* in one step and write the link in a later one.
THEOREM LinkOnceInSeries == ASSUME OneSlot PROVE Spec => LinkWrittenOnce
<1>1. SInv /\ RowsStep => KeepsLinks
  BY DEF RowsStep, PickupStep, KeepsLinks
<1> QED BY <1>1, AlwaysSInv, PTL DEF LinkWrittenOnce
=============================================================================
