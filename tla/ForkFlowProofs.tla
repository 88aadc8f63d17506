---------------------------- MODULE ForkFlowProofs ----------------------------
(***************************************************************************)
(* For any number of machines, transporters, rows and requests in          *)
(* execution: the types, AssignmentCoherent and OnePairPerTask.            *)
(***************************************************************************)
EXTENDS ForkFlow, ForkTablesProofs

(* The inductive invariant.  A request writes what it read some steps ago,  *)
(* so that the rows are coherent only if what a job remembers still is.     *)

\* A row that was created has its machine and type and, by its status, nobody's or
\* somebody's name on it.
GoodDelivery ==
  {row \in DeliveryRow :
     /\ row.status # "ABSENT" => row.machine \in Machines /\ row.type \in TaskTypes
     /\ row.status \in {"ABSENT", "CREATED"} => isWaiting(row)
     /\ row.status \in {"ASSIGNED", "COMPLETED"} => isSomebodys(row)}

GoodPickup ==
  {row \in PickupRow :
     /\ row.status # "ABSENT" => row.machine \in Machines /\ row.type \in TaskTypes
     /\ row.status \in {"ABSENT", "CREATED"} => isWaiting(row)
     /\ row.status \in {"ASSIGNED", "COMPLETED"} => isSomebodys(row)}

GoodTrip ==
  {row \in TripRow :
     /\ row.status \notin {"ABSENT", "DELETED"} =>
          /\ row.deliver \in DeliveryIds /\ row.pickup \in PickupIds
          /\ row.machine \in Machines /\ row.type \in TaskTypes
     /\ row.status \in {"ACCEPTED", "COMPLETED"} => row.by \in Operators}

RowsGood ==
  /\ delivery \in [DeliveryIds -> GoodDelivery]
  /\ pickup \in [PickupIds -> GoodPickup]
  /\ supply \in [SupplyIds -> SupplyRow]
  /\ trip \in [TripIds -> GoodTrip]

RestOK ==
  /\ production \in [Machines -> {"TRABALHANDO", "ABASTECER"}]
  /\ mode \in [Operators -> ModeOrNull]
  /\ seen \in [deliver: SUBSET DeliveryIds, pickup: SUBSET PickupIds, trip: SUBSET TripIds]

\* The jobs that will write the pickup they remember.
PickupKinds == {"link", "orphan", "linkTo", "join", "cancel", "cancelTx",
                "acceptPickup", "completePickup"}

\* What job j remembers, of deliveries ds and pickups ps: rows it will write exist,
\* and a task that it completes without a new name already has one.
Remembers(j, ds, ps) ==
  /\ j.kind \in PickupKinds => ps[j.p].status # "ABSENT"
  /\ j.kind \in {"acceptDeliver", "completeDeliver"} => ds[j.d].status # "ABSENT"
  /\ j.kind = "cancelTx" => j.d = 0 \/ ds[j.d].status # "ABSENT"
  /\ j.kind = "completeDeliver" => isSomebodys(ds[j.d])
  /\ j.kind = "completePickup" => j.first \/ isSomebodys(ps[j.p])

JobsOK ==
  /\ job \in [Slots -> JobSet]
  /\ \A w \in Slots : Remembers(job[w], delivery, pickup)

IInv == RowsGood /\ RestOK /\ JobsOK
-----------------------------------------------------------------------------
(* Jobs.                                                                   *)

\* The kind of a job tells its fields.
LEMMA JobShape ==
  ASSUME NEW j \in JobSet
  PROVE  /\ j.kind = "list" => j \in ListJob
         /\ j.kind = "sync" => j \in SyncJob
         /\ j.kind = "bind" => j \in BindJob
         /\ j.kind = "pair" => j \in PairJob
         /\ j.kind = "edit" => j \in EditJob
         /\ j.kind = "link" => j \in LinkJob
         /\ j.kind = "orphan" => j \in OrphanJob
         /\ j.kind = "linkTo" => j \in LinkToJob
         /\ j.kind \in {"join", "joinPair"} => j \in JoinJob
         /\ j.kind = "newSupply" => j \in NewSupplyJob
         /\ j.kind = "linkFrom" => j \in LinkFromJob
         /\ j.kind = "newPair" => j \in NewPairJob
         /\ j.kind = "cancel" => j \in CancelJob
         /\ j.kind = "cancelTx" => j \in CancelTxJob
         /\ j.kind \in {"acceptDeliver", "acceptPickup", "acceptTrip"} => j \in AcceptJob
         /\ j.kind \in {"completeDeliver", "completePickup"} => j \in CompleteJob
         /\ j.kind \in {"resume", "closeTrip"} => j \in AfterwardsJob
         /\ j.kind = "clearMode" => j \in ClearModeJob
<1>1. CASE j \in TripJob
  BY <1>1 DEF TripJob, ListJob, SyncJob, BindJob, PairJob
<1>2. CASE j \in SupplyJob
  BY <1>2 DEF SupplyJob, EditJob
<1>3. CASE j \in MachineJob
  <2>1. CASE j \in LinkJob \cup OrphanJob \cup LinkToJob \cup JoinJob
    BY <2>1 DEF LinkJob, OrphanJob, LinkToJob, JoinJob
  <2>2. CASE j \in NewSupplyJob \cup LinkFromJob \cup NewPairJob \cup CancelJob \cup CancelTxJob
    BY <2>2 DEF NewSupplyJob, LinkFromJob, NewPairJob, CancelJob, CancelTxJob
  <2> QED BY <1>3, <2>1, <2>2 DEF MachineJob
<1>4. CASE j \in TransportJob
  BY <1>4 DEF TransportJob, AcceptJob, CompleteJob, AfterwardsJob, ClearModeJob
<1>5. CASE j = Idle
  BY <1>5 DEF Idle
<1> QED BY <1>1, <1>2, <1>3, <1>4, <1>5 DEF JobSet

\* No row disappears, and a task with a name on it keeps one.
Grows ==
  /\ \A d \in DeliveryIds :
       /\ delivery[d].status # "ABSENT" => delivery'[d].status # "ABSENT"
       /\ isSomebodys(delivery[d]) => isSomebodys(delivery'[d])
  /\ \A p \in PickupIds :
       /\ pickup[p].status # "ABSENT" => pickup'[p].status # "ABSENT"
       /\ isSomebodys(pickup[p]) => isSomebodys(pickup'[p])

\* What the other requests remember stays true.
LEMMA RemembersGrows ==
  ASSUME NEW j \in JobSet, Remembers(j, delivery, pickup), Grows
  PROVE  Remembers(j, delivery', pickup')
<1>1. j.kind \in PickupKinds => j.p \in PickupIds
  BY JobShape DEF PickupKinds, LinkJob, OrphanJob, LinkToJob, JoinJob, CancelJob, CancelTxJob,
                  AcceptJob, CompleteJob
<1>2. j.kind \in {"acceptDeliver", "completeDeliver"} => j.d \in DeliveryIds
  BY JobShape DEF AcceptJob, CompleteJob
<1>3. j.kind = "cancelTx" => j.d \in DeliveryIds \cup {0}
  BY JobShape DEF CancelTxJob
<1> QED BY <1>1, <1>2, <1>3 DEF Remembers, Grows, PickupKinds

\* A step of slot w that leaves `next` to do.
LEMMA JobStep ==
  ASSUME IInv, NEW w \in Slots, NEW next \in JobSet, Continue(w, next),
         RowsGood', RestOK', Grows, Remembers(next, delivery', pickup')
  PROVE  IInv'
<1>1. job' \in [Slots -> JobSet]
  BY DEF IInv, JobsOK, Continue
<1>2. ASSUME NEW v \in Slots PROVE Remembers(job'[v], delivery', pickup')
  <2>1. CASE v = w
    BY <2>1 DEF IInv, JobsOK, Continue
  <2>2. CASE v # w
    <3>1. job'[v] = job[v] /\ job[v] \in JobSet /\ Remembers(job[v], delivery, pickup)
      BY <2>2 DEF IInv, JobsOK, Continue
    <3> QED BY <3>1, RemembersGrows
  <2> QED BY <2>1, <2>2
<1> QED BY <1>1, <1>2 DEF IInv, JobsOK

\* A step that writes no row.
LEMMA JobOnly ==
  ASSUME IInv, NEW w \in Slots, NEW next \in JobSet, Continue(w, next),
         UNCHANGED <<delivery, pickup, supply, trip, production, mode, seen>>,
         Remembers(next, delivery, pickup)
  PROVE  IInv'
<1>1. RowsGood' /\ RestOK'
  BY DEF IInv, RowsGood, RestOK
<1>2. Grows
  BY DEF Grows
<1>3. Remembers(next, delivery', pickup')
  OBVIOUS
<1> QED BY <1>1, <1>2, <1>3, JobStep

\* A step that writes trips only.
LEMMA TripOnly ==
  ASSUME IInv, NEW w \in Slots, NEW next \in JobSet, Continue(w, next),
         trip' \in [TripIds -> GoodTrip],
         UNCHANGED <<delivery, pickup, supply, production, mode, seen>>,
         Remembers(next, delivery, pickup)
  PROVE  IInv'
<1>1. RowsGood' /\ RestOK'
  BY DEF IInv, RowsGood, RestOK
<1>2. Grows
  BY DEF Grows
<1>3. Remembers(next, delivery', pickup')
  OBVIOUS
<1> QED BY <1>1, <1>2, <1>3, JobStep

\* A finished request remembers nothing, and neither does one that only has trips
\* left to write.
LEMMA NothingRemembered ==
  ASSUME NEW j, NEW ds, NEW ps,
         j \in TripJob \cup EditJob \cup {Idle} \cup AfterwardsJob \cup ClearModeJob
                \cup NewSupplyJob \cup LinkFromJob \cup NewPairJob
  PROVE  j \in JobSet /\ Remembers(j, ds, ps)
<1>1. CASE j \in TripJob
  BY <1>1 DEF TripJob, ListJob, SyncJob, BindJob, PairJob, Remembers, PickupKinds, JobSet
<1>2. CASE j \in EditJob \cup {Idle} \cup AfterwardsJob \cup ClearModeJob
  BY <1>2 DEF EditJob, Idle, AfterwardsJob, ClearModeJob, Remembers, PickupKinds, JobSet,
              SupplyJob, TransportJob
<1>3. CASE j \in NewSupplyJob \cup LinkFromJob \cup NewPairJob
  BY <1>3 DEF NewSupplyJob, LinkFromJob, NewPairJob, Remembers, PickupKinds, JobSet, MachineJob
<1> QED BY <1>1, <1>2, <1>3

\* One delivery is written, with a good row that keeps the name on it.
LEMMA DeliveryGrows ==
  ASSUME IInv, NEW d \in DeliveryIds, NEW row \in GoodDelivery,
         delivery[d].status # "ABSENT" => row.status # "ABSENT",
         isSomebodys(delivery[d]) => isSomebodys(row),
         delivery' = [delivery EXCEPT ![d] = row], UNCHANGED pickup
  PROVE  delivery' \in [DeliveryIds -> GoodDelivery] /\ Grows
<1>1. delivery \in [DeliveryIds -> GoodDelivery]
  BY DEF IInv, RowsGood
<1>2. delivery' \in [DeliveryIds -> GoodDelivery]
  BY <1>1
<1>3. \A e \in DeliveryIds : delivery'[e] = IF e = d THEN row ELSE delivery[e]
  BY <1>1
<1> QED BY <1>2, <1>3 DEF Grows
-----------------------------------------------------------------------------
(* The supply desk.                                                        *)

LEMMA CreateDeliveryStep ==
  ASSUME IInv, NEW w \in Slots, NEW m \in Machines, NEW t \in TaskTypes,
         NEW ready \in BOOLEAN, NEW named \in SupplyIds \cup {0},
         CreateDelivery(w, m, t, ready, named)
  PROVE  IInv'
<1>1. PICK d \in DeliveryIds :
        /\ IsNextId(d, delivery)
        /\ delivery' = [delivery EXCEPT
             ![d] = [status |-> "CREATED", machine |-> m, type |-> t,
                     prepared |-> ready, op |-> NoOp, with |-> "NONE"]]
        /\ supply' = [s \in SupplyIds |->
                        IF s \in FulfilledBy(m, named)
                        THEN [supply[s] EXCEPT !.status = "FULFILLED", !.delivery = d]
                        ELSE supply[s]]
        /\ Continue(w, [kind |-> "bind", d |-> d, m |-> m, t |-> t, then |-> Idle])
  BY DEF CreateDelivery
<1> DEFINE next == [kind |-> "bind", d |-> d, m |-> m, t |-> t, then |-> Idle]
<1>2. UNCHANGED <<pickup, trip, production, mode, seen>>
  BY DEF CreateDelivery
<1>3. delivery' \in [DeliveryIds -> GoodDelivery]
  BY <1>1 DEF IInv, RowsGood, GoodDelivery, DeliveryRow, TaskStatus, ModeOrNull, isWaiting
<1>4. supply' \in [SupplyIds -> SupplyRow]
  <2>1. ASSUME NEW s \in SupplyIds
        PROVE  [supply[s] EXCEPT !.status = "FULFILLED", !.delivery = d] \in SupplyRow
    BY DEF IInv, RowsGood, SupplyRow
  <2>2. supply \in [SupplyIds -> SupplyRow]
    BY DEF IInv, RowsGood
  <2> QED BY <1>1, <2>1, <2>2
<1>5. RowsGood' /\ RestOK'
  BY <1>2, <1>3, <1>4 DEF IInv, RowsGood, RestOK
<1>6. delivery[d].status = "ABSENT" /\ ~ isSomebodys(delivery[d])
  BY <1>1, NullAssumption DEF IsNextId, IInv, RowsGood, GoodDelivery, isWaiting, isSomebodys
<1>7. Grows
  BY <1>1, <1>2, <1>6 DEF Grows, IInv, RowsGood
<1>8. next \in TripJob
  BY DEF TripJob, BindJob
<1> QED BY <1>1, <1>5, <1>7, <1>8, JobStep, NothingRemembered

LEMMA FinishEditStep ==
  ASSUME IInv, NEW w \in Slots, FinishEdit(w)
  PROVE  IInv'
<1> DEFINE j == job[w]
<1>1. j \in EditJob
  BY JobShape DEF FinishEdit, IInv, JobsOK
<1> DEFINE old == delivery[j.d]
           row == [old EXCEPT !.machine = IF j.m = NoMachine THEN old.machine ELSE j.m,
                              !.type    = IF j.t = "NONE" THEN old.type ELSE j.t]
<1>2. delivery' = [delivery EXCEPT ![j.d] = row]
  <2>1. j.d \in DeliveryIds /\ delivery \in [DeliveryIds -> DeliveryRow]
    BY <1>1 DEF EditJob, IInv, RowsGood, GoodDelivery
  <2> QED BY <2>1 DEF FinishEdit, DeliveryRow
<1>3. /\ row \in GoodDelivery
      /\ row.status = old.status /\ row.op = old.op /\ row.with = old.with
  <2>1. /\ j.m \in Machines \cup {NoMachine} /\ j.t \in TaskTypes \cup {"NONE"}
        /\ old \in GoodDelivery
    BY <1>1 DEF EditJob, IInv, RowsGood
  <2> QED BY <2>1 DEF GoodDelivery, DeliveryRow, isWaiting, isSomebodys
<1> HIDE DEF row
<1>4. delivery' \in [DeliveryIds -> GoodDelivery] /\ Grows
  <2>1. j.d \in DeliveryIds /\ UNCHANGED pickup
    BY <1>1 DEF EditJob, FinishEdit
  <2>2. isSomebodys(old) => isSomebodys(row)
    BY <1>3 DEF isSomebodys
  <2> QED BY <1>2, <1>3, <2>1, <2>2, DeliveryGrows
<1>5. RowsGood' /\ RestOK' /\ Continue(w, Idle)
  BY <1>4 DEF FinishEdit, IInv, RowsGood, RestOK
<1> QED BY <1>4, <1>5, JobStep, NothingRemembered

LEMMA MarkPreparedStep ==
  ASSUME IInv, NEW w \in Slots, NEW d \in DeliveryIds, MarkPrepared(w, d)
  PROVE  IInv'
<1> DEFINE m == delivery[d].machine
           next == [kind |-> "bind", d |-> d, m |-> m, t |-> delivery[d].type,
                    then |-> [kind |-> "sync", m |-> m]]
<1>1. /\ delivery' \in [DeliveryIds -> GoodDelivery]
      /\ Grows
  <2> DEFINE old == delivery[d]
             row == [old EXCEPT !.prepared = TRUE]
  <2>1. old \in GoodDelivery
    BY DEF IInv, RowsGood
  <2>2. /\ row \in GoodDelivery
        /\ row.status = old.status /\ row.op = old.op /\ row.with = old.with
    BY <2>1 DEF GoodDelivery, DeliveryRow, isWaiting, isSomebodys
  <2>3. delivery' = [delivery EXCEPT ![d] = row] /\ UNCHANGED pickup
    BY <2>1 DEF MarkPrepared, IInv, RowsGood, GoodDelivery, DeliveryRow
  <2> HIDE DEF row
  <2>4. isSomebodys(old) => isSomebodys(row)
    BY <2>2 DEF isSomebodys
  <2> QED BY <2>2, <2>3, <2>4, DeliveryGrows
<1>2. RowsGood' /\ RestOK' /\ Continue(w, next)
  BY <1>1 DEF MarkPrepared, IInv, RowsGood, RestOK
<1>3. next \in TripJob
  BY DEF MarkPrepared, IInv, RowsGood, GoodDelivery, TripJob, BindJob, SyncJob
<1> QED BY <1>1, <1>2, <1>3, JobStep, NothingRemembered

LEMMA SupplyDeskStep ==
  ASSUME IInv, NEW w \in Slots, SupplyRequest(w) \/ SupplyStep(w)
  PROVE  IInv'
<1>1. ASSUME NEW m \in Machines, NEW t \in TaskTypes, NEW ready \in BOOLEAN,
             NEW s \in SupplyIds \cup {0}, CreateDelivery(w, m, t, ready, s)
      PROVE  IInv'
  BY <1>1, CreateDeliveryStep
<1>2. ASSUME NEW d \in DeliveryIds, NEW m \in Machines \cup {NoMachine},
             NEW t \in TaskTypes \cup {"NONE"}, BeginEdit(w, d, m, t)
      PROVE  IInv'
  <2>1. [kind |-> "edit", d |-> d, m |-> m, t |-> t] \in EditJob
    BY DEF EditJob
  <2> QED BY <1>2, <2>1, JobOnly, NothingRemembered DEF BeginEdit
<1>3. ASSUME NEW d \in DeliveryIds, MarkPrepared(w, d) PROVE IInv'
  BY <1>3, MarkPreparedStep
<1>4. ASSUME NEW m \in Machines, NEW s \in {"TRABALHANDO", "ABASTECER"},
             SetProductionStatus(w, m, s)
      PROVE  IInv'
  BY <1>4 DEF SetProductionStatus, IInv, RowsGood, RestOK, JobsOK
<1>5. CASE SupplyStep(w)
  BY <1>5, FinishEditStep DEF SupplyStep
<1> QED BY <1>1, <1>2, <1>3, <1>4, <1>5 DEF SupplyRequest
-----------------------------------------------------------------------------
(* Trip suggestions.                                                       *)

LEMMA RowByType ==
  ASSUME NEW d, NEW p
  PROVE  RowByDeliver(d) \in TripIds \cup {0} /\ RowByPickup(p) \in TripIds \cup {0}
<1> DEFINE S == {r \in TripIds : isLive(r) /\ trip[r].deliver = d}
           T == {r \in TripIds : isLive(r) /\ trip[r].pickup = p}
<1>1. S \in SUBSET (1 .. MaxTrip) /\ T \in SUBSET (1 .. MaxTrip) /\ MaxTrip \in Nat
  BY BoundsAssumption DEF TripIds
<1> HIDE DEF S, T
<1>2. Oldest(S) \in TripIds \cup {0} /\ Oldest(T) \in TripIds \cup {0}
  BY <1>1, OldestIsIn DEF TripIds
<1> QED BY <1>2 DEF RowByDeliver, RowByPickup, S, T

LEMMA ExpiredGood ==
  ASSUME IInv, NEW d, NEW p
  PROVE  OtherPairsExpired(d, p) \in [TripIds -> GoodTrip]
BY DEF OtherPairsExpired, IInv, RowsGood, GoodTrip, TripRow

LEMMA StartUpsertStep ==
  ASSUME IInv, NEW w \in Slots, NEW d \in DeliveryIds, NEW p \in PickupIds,
         NEW m \in Machines, NEW t \in TaskTypes,
         NEW then \in ListJob \cup SyncJob \cup {Idle},
         StartUpsert(w, d, p, m, t, then),
         UNCHANGED <<delivery, pickup, supply, production, mode, seen>>
  PROVE  IInv'
<1> DEFINE byD  == RowByDeliver(d)
           byP  == RowByPickup(p)
           stop == (byD # 0 /\ isTerminal(byD)) \/ (byP # 0 /\ isTerminal(byP))
           pair == [kind |-> "pair", d |-> d, p |-> p, m |-> m, t |-> t,
                    row  |-> IF byD # 0 THEN byD ELSE byP,
                    drop |-> IF byD # 0 /\ byP # 0 /\ byD # byP THEN byP ELSE 0,
                    then |-> then]
           next == IF stop THEN then ELSE pair
<1>1. trip' \in [TripIds -> GoodTrip] /\ Continue(w, next)
  BY ExpiredGood DEF StartUpsert
<1>2. byD \in TripIds \cup {0} /\ byP \in TripIds \cup {0}
  BY RowByType
<1>3. next \in TripJob \cup {Idle}
  <2>1. CASE stop
    BY <2>1 DEF TripJob
  <2>2. CASE ~ stop
    <3> HIDE DEF byD, byP, stop
    <3>1. pair \in PairJob
      BY <1>2 DEF PairJob
    <3> QED BY <2>2, <3>1 DEF TripJob
  <2> QED BY <2>1, <2>2
<1> HIDE DEF next
<1> QED BY <1>1, <1>3, TripOnly, NothingRemembered

LEMMA SyncMachineStep ==
  ASSUME IInv, NEW w \in Slots, NEW m \in Machines,
         NEW then \in ListJob \cup SyncJob \cup {Idle},
         SyncMachine(w, m, then),
         UNCHANGED <<delivery, pickup, supply, production, mode, seen>>
  PROVE  IInv'
<1>1. ASSUME NEW d \in DeliveryIds, NEW p \in PickupIds, isSyncPair(m, d, p),
             StartUpsert(w, d, p, m, delivery[d].type, then)
      PROVE  IInv'
  <2>1. delivery[d].type \in TaskTypes
    BY <1>1 DEF isSyncPair, IInv, RowsGood, GoodDelivery
  <2> QED BY <1>1, <2>1, StartUpsertStep
<1>2. CASE Continue(w, then) /\ UNCHANGED trip
  <2>1. then \in TripJob \cup {Idle}
    BY DEF TripJob
  <2> QED BY <1>2, <2>1, JobOnly, NothingRemembered
<1> QED BY <1>1, <1>2 DEF SyncMachine

LEMMA BindStep ==
  ASSUME IInv, NEW w \in Slots, Bind(w)
  PROVE  IInv'
<1> DEFINE j == job[w]
<1>1. j \in BindJob
  BY JobShape DEF Bind, IInv, JobsOK
<1>2. ASSUME NEW p \in PickupIds, StartUpsert(w, j.d, p, j.m, j.t, j.then)
      PROVE  IInv'
  <2>1. /\ j.d \in DeliveryIds /\ j.m \in Machines /\ j.t \in TaskTypes
        /\ j.then \in ListJob \cup SyncJob \cup {Idle}
    BY <1>1 DEF BindJob
  <2>2. UNCHANGED <<delivery, pickup, supply, production, mode, seen>>
    BY DEF Bind
  <2> HIDE DEF j
  <2> QED BY <1>2, <2>1, <2>2, StartUpsertStep
<1>3. CASE Continue(w, j.then) /\ UNCHANGED trip
  <2>1. j.then \in TripJob \cup {Idle}
    BY <1>1 DEF BindJob, TripJob
  <2> QED BY <1>3, <2>1, JobOnly, NothingRemembered DEF Bind
<1> QED BY <1>2, <1>3 DEF Bind

LEMMA SyncStep ==
  ASSUME IInv, NEW w \in Slots, Sync(w)
  PROVE  IInv'
<1>1. job[w].m \in Machines
  BY JobShape DEF Sync, IInv, JobsOK, SyncJob
<1> QED BY <1>1, SyncMachineStep DEF Sync

LEMMA SyncNextMachineStep ==
  ASSUME IInv, NEW w \in Slots, SyncNextMachine(w)
  PROVE  IInv'
<1>1. job[w] \in ListJob
  BY JobShape DEF SyncNextMachine, IInv, JobsOK
<1>2. PICK m \in job[w].left : SyncMachine(w, m, [job[w] EXCEPT !.left = @ \ {m}])
  BY DEF SyncNextMachine
<1>3. m \in Machines /\ [job[w] EXCEPT !.left = @ \ {m}] \in ListJob
  BY <1>1 DEF ListJob
<1> QED BY <1>2, <1>3, SyncMachineStep DEF SyncNextMachine

\* An OPEN or ACCEPTED row of a remembered pair is a good row.
LEMMA PairRowGood ==
  ASSUME NEW j, j.d \in DeliveryIds, j.p \in PickupIds, j.m \in Machines, j.t \in TaskTypes,
         NEW status \in {"OPEN", "ACCEPTED"}, NEW by \in Operators \cup {NoOp},
         status = "ACCEPTED" => by \in Operators
  PROVE  PairRow(j, status, by) \in GoodTrip
BY DEF PairRow, GoodTrip, TripRow

LEMMA NoTripGood == NoTrip \in GoodTrip /\ [NoTrip EXCEPT !.status = "DELETED"] \in GoodTrip
BY DEF NoTrip, GoodTrip, TripRow

LEMMA PairShape ==
  ASSUME IInv, NEW w \in Slots, job[w].kind = "pair"
  PROVE  LET j == job[w] IN
         /\ j.d \in DeliveryIds /\ j.p \in PickupIds /\ j.m \in Machines /\ j.t \in TaskTypes
         /\ j.row \in TripIds \cup {0} /\ j.drop \in TripIds \cup {0}
         /\ j.then \in TripJob \cup {Idle}
<1>1. job[w] \in PairJob
  BY JobShape DEF IInv, JobsOK
<1> QED BY <1>1 DEF PairJob, TripJob

\* What a repointing leaves of the suggestions: rows are deleted, and unless the pair is
\* given up one row becomes the pair's and none is left in its way.
Thinned(left) ==
  /\ left = [r \in TripIds |-> left[r]]
  /\ \A r \in TripIds : left[r] = trip[r] \/ left[r] = [NoTrip EXCEPT !.status = "DELETED"]

Repointed(j, left) ==
  /\ trip' = [left EXCEPT ![j.row] = PairRow(j, "OPEN", trip[j.row].by)]
  /\ \A r \in TripIds \ {j.row} :
       left[r].status \notin {"ABSENT", "DELETED"}
         => left[r] = trip[r] /\ trip[r].deliver # j.d /\ trip[r].pickup # j.p

LEMMA RepointedTrips ==
  ASSUME NEW w, RepointPair(w)
  PROVE  \E left : Thinned(left) /\ (trip' = left \/ Repointed(job[w], left))
<1> DEFINE j == job[w]
           final == {r \in Conflicts(j) : isTerminal(r)}
<1>1. PICK gone \in SUBSET (Conflicts(j) \ final) :
        IF final # {} THEN trip' = Without(gone \cup {j.drop})
        ELSE /\ gone = Conflicts(j)
             /\ trip' = [Without(gone \cup {j.drop})
                          EXCEPT ![j.row] = PairRow(j, "OPEN", trip[j.row].by)]
  BY DEF RepointPair
<1> DEFINE left == Without(gone \cup {j.drop})
<1>2. Thinned(left)
  BY DEF Thinned, Without
<1>3. ASSUME gone = Conflicts(j),
             NEW r \in TripIds \ {j.row}, left[r].status \notin {"ABSENT", "DELETED"}
      PROVE  left[r] = trip[r] /\ trip[r].deliver # j.d /\ trip[r].pickup # j.p
  <2>1. r \notin gone /\ r # j.drop /\ left[r] = trip[r]
    BY <1>3 DEF Without, NoTrip
  <2> QED BY <1>3, <2>1 DEF Conflicts, isLive
<1> HIDE DEF left, final
<1>4. CASE final # {}
  BY <1>1, <1>2, <1>4 DEF left
<1>5. CASE final = {}
  <2>1. gone = Conflicts(j) /\ trip' = [left EXCEPT ![j.row] = PairRow(j, "OPEN", trip[j.row].by)]
    BY <1>1, <1>5 DEF left
  <2>2. Repointed(j, left)
    BY <1>3, <2>1 DEF Repointed
  <2> QED BY <1>2, <2>2
<1> QED BY <1>4, <1>5

LEMMA RepointPairStep ==
  ASSUME IInv, NEW w \in Slots, RepointPair(w)
  PROVE  IInv'
<1> DEFINE j == job[w]
           row == PairRow(j, "OPEN", trip[j.row].by)
<1>1. /\ j.d \in DeliveryIds /\ j.p \in PickupIds /\ j.m \in Machines /\ j.t \in TaskTypes
      /\ j.row \in TripIds /\ j.then \in TripJob \cup {Idle}
  BY PairShape DEF RepointPair
<1>2. trip[j.row].by \in Operators \cup {NoOp}
  BY <1>1 DEF IInv, RowsGood, GoodTrip, TripRow
<1>3. row \in GoodTrip
  BY <1>1, <1>2, PairRowGood
<1>4. PICK left : Thinned(left) /\ (trip' = left \/ Repointed(j, left))
  BY RepointedTrips
<1>5. Continue(w, j.then)
  BY DEF RepointPair
<1>6. trip' \in [TripIds -> GoodTrip]
  <2>1. left \in [TripIds -> GoodTrip]
    <3>1. left = [r \in TripIds |-> left[r]]
      BY <1>4 DEF Thinned
    <3>2. \A r \in TripIds : left[r] \in GoodTrip
      BY <1>4, NoTripGood DEF Thinned, IInv, RowsGood
    <3> QED BY <3>1, <3>2
  <2>2. trip' = left \/ trip' = [left EXCEPT ![j.row] = row]
    BY <1>4 DEF Repointed
  <2> HIDE DEF row
  <2> QED BY <1>3, <2>1, <2>2
<1>7. UNCHANGED <<delivery, pickup, supply, production, mode, seen>>
  BY DEF RepointPair
<1> HIDE DEF j
<1> QED BY <1>1, <1>5, <1>6, <1>7, TripOnly, NothingRemembered

LEMMA CreatePairStep ==
  ASSUME IInv, NEW w \in Slots, CreatePair(w)
  PROVE  IInv'
<1> DEFINE j == job[w]
           row == PairRow(j, "OPEN", NoOp)
<1>1. /\ j.d \in DeliveryIds /\ j.p \in PickupIds /\ j.m \in Machines /\ j.t \in TaskTypes
      /\ j.then \in TripJob \cup {Idle}
  BY PairShape DEF CreatePair
<1>2. row \in GoodTrip
  BY <1>1, PairRowGood
<1>3. PICK r \in TripIds : trip' = [trip EXCEPT ![r] = row]
  BY DEF CreatePair
<1> HIDE DEF row
<1>4. trip' \in [TripIds -> GoodTrip]
  BY <1>2, <1>3 DEF IInv, RowsGood
<1>5. UNCHANGED <<delivery, pickup, supply, production, mode, seen>> /\ Continue(w, j.then)
  BY DEF CreatePair
<1> HIDE DEF j
<1> QED BY <1>1, <1>4, <1>5, TripOnly, NothingRemembered

LEMMA BeginListStep ==
  ASSUME IInv, NEW w \in Slots, NEW o \in Operators, NEW main \in BOOLEAN,
         BeginList(w, o, main)
  PROVE  IInv'
<1> DEFINE types == openPoolTypesForOperatingMode(mode[o])
           left == {m \in Machines : \E p \in OpenLinkedPickups(m) : pickup[p].type \in types}
           next == [kind |-> "list", types |-> types, main |-> main, left |-> left]
<1>1. types \in SUBSET TaskTypes /\ left \in SUBSET Machines
  BY DEF openPoolTypesForOperatingMode
<1>2. Continue(w, next) /\ UNCHANGED <<delivery, pickup, supply, production, mode, seen>>
  BY DEF BeginList
<1>3. trip' \in [TripIds -> GoodTrip]
  <2>1. trip' = [r \in TripIds |->
                  IF trip[r].status = "OPEN" /\ trip[r].type \in types /\ isStalePair(r)
                  THEN [trip[r] EXCEPT !.status = "EXPIRED"] ELSE trip[r]]
    BY DEF BeginList
  <2> HIDE DEF types
  <2> QED BY <2>1 DEF IInv, RowsGood, GoodTrip, TripRow
<1> HIDE DEF types, left
<1>4. next \in TripJob
  BY <1>1 DEF TripJob, ListJob
<1> QED BY <1>2, <1>3, <1>4, TripOnly, NothingRemembered

LEMMA FinishListStep ==
  ASSUME IInv, NEW w \in Slots, FinishList(w)
  PROVE  IInv'
<1> DEFINE types == job[w].types
<1>1. trip' \in [TripIds -> GoodTrip]
  <2>1. ReconciledTrips(types) \in [TripIds -> GoodTrip]
    BY DEF ReconciledTrips, IInv, RowsGood, GoodTrip, TripRow
  <2> QED BY <2>1 DEF FinishList, IInv, RowsGood
<1>2. seen' \in [deliver: SUBSET DeliveryIds, pickup: SUBSET PickupIds, trip: SUBSET TripIds]
  <2>1. /\ VisibleDeliveries(types) \subseteq DeliveryIds
        /\ VisiblePickups(types) \subseteq PickupIds
        /\ VisibleTrips(types) \subseteq TripIds
    BY DEF VisibleDeliveries, VisiblePickups, VisibleTrips, ValidPairs
  <2>2. seen \in [deliver: SUBSET DeliveryIds, pickup: SUBSET PickupIds, trip: SUBSET TripIds]
    BY DEF IInv, RestOK
  <2> QED BY <2>1, <2>2 DEF FinishList
<1>3. RowsGood' /\ RestOK' /\ Grows /\ Continue(w, Idle)
  BY <1>1, <1>2 DEF FinishList, IInv, RowsGood, RestOK, Grows
<1> QED BY <1>3, JobStep, NothingRemembered

LEMMA TripStepStep ==
  ASSUME IInv, NEW w \in Slots, TripStep(w)
  PROVE  IInv'
<1>1. CASE RollBackPair(w)
  BY <1>1, JobOnly, NothingRemembered DEF RollBackPair
<1> QED BY <1>1, RepointPairStep, CreatePairStep, BindStep, SyncStep, SyncNextMachineStep,
           FinishListStep DEF TripStep
-----------------------------------------------------------------------------
(* The operators at the machines.                                          *)

\* A new pickup, or a new supply request, is a good row.
LEMMA NewRowsGood ==
  ASSUME NEW m \in Machines, NEW t \in TaskTypes, NEW s \in SupplyIds \cup {0},
         NEW d \in DeliveryIds \cup {0}, NEW status \in {"OPEN", "FULFILLED"}
  PROVE  NewPickup(m, t, s) \in GoodPickup /\ NewSupply(m, status, d) \in SupplyRow
BY DEF NewPickup, GoodPickup, PickupRow, TaskStatus, ModeOrNull, isWaiting, NewSupply, SupplyRow

\* Creating a pickup row disturbs no other.
LEMMA NewPickupGrows ==
  ASSUME IInv, NEW m \in Machines, NEW t \in TaskTypes, NEW s \in SupplyIds \cup {0},
         NEW p \in PickupIds, IsNextId(p, pickup),
         pickup' = [pickup EXCEPT ![p] = NewPickup(m, t, s)], UNCHANGED delivery
  PROVE  pickup' \in [PickupIds -> GoodPickup] /\ Grows /\ pickup'[p].status = "CREATED"
<1> DEFINE row == NewPickup(m, t, s)
<1>1. row \in GoodPickup /\ row.status = "CREATED"
  BY NewRowsGood DEF NewPickup
<1>2. pickup \in [PickupIds -> GoodPickup]
  BY DEF IInv, RowsGood
<1>3. pickup[p].status = "ABSENT" /\ ~ isSomebodys(pickup[p])
  BY <1>2, NullAssumption DEF IsNextId, GoodPickup, isWaiting, isSomebodys
<1>4. pickup' = [pickup EXCEPT ![p] = row]
  OBVIOUS
<1> HIDE DEF row
<1>5. pickup' \in [PickupIds -> GoodPickup] /\ pickup'[p].status = "CREATED"
  BY <1>1, <1>2, <1>4
<1>6. Grows
  BY <1>1, <1>2, <1>3, <1>4 DEF Grows, isSomebodys
<1> QED BY <1>5, <1>6

\* Linking pickups, or clearing links, disturbs nothing that is remembered.
LEMMA RelinkGrows ==
  ASSUME IInv, NEW now \in [PickupIds -> GoodPickup], pickup' = now, UNCHANGED delivery,
         \A p \in PickupIds : /\ now[p].status = pickup[p].status
                              /\ now[p].op = pickup[p].op /\ now[p].with = pickup[p].with
  PROVE  Grows
BY DEF Grows, isSomebodys

LEMMA RequestPickupStep ==
  ASSUME IInv, NEW w \in Slots, NEW m \in Machines, NEW t \in TaskTypes, RequestPickup(w, m, t)
  PROVE  IInv'
<1>1. PICK p \in PickupIds :
        /\ IsNextId(p, pickup)
        /\ pickup' = [pickup EXCEPT ![p] = NewPickup(m, t, 0)]
        /\ Continue(w, [kind |-> "link", p |-> p, m |-> m])
  BY DEF RequestPickup
<1> DEFINE next == [kind |-> "link", p |-> p, m |-> m]
<1>2. UNCHANGED <<delivery, supply, trip, production, mode, seen>>
  BY DEF RequestPickup
<1>3. pickup' \in [PickupIds -> GoodPickup] /\ Grows /\ pickup'[p].status = "CREATED"
  BY <1>1, <1>2, NewPickupGrows
<1>4. next \in JobSet /\ Remembers(next, delivery', pickup')
  BY <1>3 DEF JobSet, MachineJob, LinkJob, Remembers, PickupKinds
<1>5. RowsGood' /\ RestOK'
  BY <1>2, <1>3 DEF IInv, RowsGood, RestOK
<1> QED BY <1>1, <1>3, <1>4, <1>5, JobStep

LEMMA RepairLinksStep ==
  ASSUME IInv, NEW w \in Slots, NEW m \in Machines, RepairLinks(w, m)
  PROVE  IInv'
<1> DEFINE S == OpenUnlinkedPickups(m)
           p == Oldest(S)
           next == [kind |-> "link", p |-> p, m |-> m]
<1>1. p \in S
  <2>1. S \in SUBSET (1 .. MaxPickup) /\ S # {} /\ MaxPickup \in Nat
    BY BoundsAssumption DEF RepairLinks, OpenUnlinkedPickups, OpenPickups, PickupIds
  <2> HIDE DEF S
  <2> QED BY <2>1, OldestIsIn
<1>2. p \in PickupIds /\ pickup[p].status # "ABSENT"
  BY <1>1 DEF OpenUnlinkedPickups, OpenPickups, OpenStatus
<1> HIDE DEF p
<1>3. next \in JobSet /\ Remembers(next, delivery, pickup)
  BY <1>2 DEF JobSet, MachineJob, LinkJob, Remembers, PickupKinds
<1> QED BY <1>3, JobOnly DEF RepairLinks, p

\* A request that goes on to link the pickup it has.
LEMMA LinkToStep ==
  ASSUME IInv, NEW w \in Slots, NEW p \in PickupIds, pickup[p].status # "ABSENT",
         NEW m \in Machines, NEW s \in SupplyIds, LinkTo(w, p, m, s),
         UNCHANGED <<delivery, pickup, supply, trip, production, mode, seen>>
  PROVE  IInv'
<1> DEFINE next == [kind |-> "linkTo", p |-> p, m |-> m, s |-> s, d |-> supply[s].delivery]
<1>1. supply[s].delivery \in DeliveryIds \cup {0}
  BY DEF IInv, RowsGood, SupplyRow
<1>2. next \in JobSet /\ Remembers(next, delivery, pickup)
  BY <1>1 DEF JobSet, MachineJob, LinkToJob, Remembers, PickupKinds
<1> QED BY <1>2, JobOnly DEF LinkTo

LEMMA SupplyOfType ==
  ASSUME NEW d
  PROVE  SupplyOf(d) \in SupplyIds \cup {0}
<1> DEFINE S == {s \in SupplyIds : supply[s].delivery = d}
<1>1. S \in SUBSET (1 .. MaxSupply) /\ MaxSupply \in Nat
  BY BoundsAssumption DEF SupplyIds
<1> HIDE DEF S
<1>2. Oldest(S) \in SupplyIds \cup {0}
  BY <1>1, OldestIsIn DEF SupplyIds
<1> QED BY <1>2 DEF SupplyOf, S

LEMMA EligibleType ==
  ASSUME NEW m \in Machines, EligibleUnclaimed(m) # {}
  PROVE  Oldest(EligibleUnclaimed(m)) \in SupplyIds
<1>1. EligibleUnclaimed(m) \in SUBSET (1 .. MaxSupply) /\ MaxSupply \in Nat
  BY BoundsAssumption DEF SupplyIds, EligibleUnclaimed
<1> QED BY <1>1, OldestIsIn DEF SupplyIds

LEMMA DeliveriesToJoinType ==
  ASSUME NEW m \in Machines, NEW d \in DeliveriesToJoin(m)
  PROVE  d \in OpenDeliveries(m)
<1> DEFINE pool == PreparedPool(m)
           waiting == {e \in OpenDeliveries(m) :
                         delivery[e].status = "CREATED" /\ delivery[e].op = NoOp}
<1>1. /\ pool \in SUBSET (1 .. MaxDelivery) /\ waiting \in SUBSET (1 .. MaxDelivery)
      /\ MaxDelivery \in Nat
      /\ pool \subseteq OpenDeliveries(m) /\ waiting \subseteq OpenDeliveries(m)
  BY BoundsAssumption DEF PreparedPool, OpenDeliveries, DeliveryIds
<1>2. d \in IF pool # {} THEN {Oldest(pool)}
            ELSE IF waiting # {} THEN {Oldest(waiting)}
            ELSE {e \in OpenDeliveries(m) : /\ delivery[e].status = "ASSIGNED"
                                            /\ delivery[e].prepared /\ delivery[e].op # NoOp}
  BY DEF DeliveriesToJoin
<1> HIDE DEF pool, waiting
<1>3. pool # {} => Oldest(pool) \in pool
  BY <1>1, OldestIsIn
<1>4. waiting # {} => Oldest(waiting) \in waiting
  BY <1>1, OldestIsIn
<1> QED BY <1>1, <1>2, <1>3, <1>4

LEMMA ResolveSupplyStep ==
  ASSUME IInv, NEW w \in Slots, ResolveSupply(w)
  PROVE  IInv'
<1> DEFINE j == job[w]
<1>1. /\ j \in LinkJob /\ j.p \in PickupIds /\ j.m \in Machines
      /\ pickup[j.p].status # "ABSENT"
  <2>1. job[w] \in JobSet /\ job[w].kind = "link" /\ Remembers(job[w], delivery, pickup)
    BY DEF ResolveSupply, IInv, JobsOK
  <2>2. job[w] \in LinkJob
    BY <2>1, JobShape
  <2> QED BY <2>1, <2>2 DEF LinkJob, Remembers, PickupKinds
<1>2. UNCHANGED <<delivery, pickup, supply, trip, production, mode, seen>>
  BY DEF ResolveSupply
<1>3. CASE Continue(w, Idle)
  BY <1>2, <1>3, JobOnly, NothingRemembered
<1>4. CASE EligibleUnclaimed(j.m) # {} /\ LinkTo(w, j.p, j.m, Oldest(EligibleUnclaimed(j.m)))
  BY <1>1, <1>2, <1>4, EligibleType, LinkToStep
<1>5. ASSUME NEW d \in DeliveriesToJoin(j.m), SupplyOf(d) = 0,
             Continue(w, [kind |-> "orphan", p |-> j.p, m |-> j.m, d |-> d,
                          dm |-> delivery[d].machine])
      PROVE  IInv'
  <2> DEFINE next == [kind |-> "orphan", p |-> j.p, m |-> j.m, d |-> d,
                      dm |-> delivery[d].machine]
  <2>1. d \in DeliveryIds /\ delivery[d].machine = j.m
    BY <1>1, DeliveriesToJoinType DEF OpenDeliveries
  <2>2. next \in JobSet /\ Remembers(next, delivery, pickup)
    BY <1>1, <2>1 DEF JobSet, MachineJob, OrphanJob, Remembers, PickupKinds
  <2> QED BY <1>2, <1>5, <2>2, JobOnly
<1>6. ASSUME NEW d \in DeliveriesToJoin(j.m), SupplyOf(d) # 0,
             LinkTo(w, j.p, j.m, SupplyOf(d))
      PROVE  IInv'
  <2>1. SupplyOf(d) \in SupplyIds
    BY <1>6, SupplyOfType
  <2> QED BY <1>1, <1>2, <1>6, <2>1, LinkToStep
<1> QED BY <1>3, <1>4, <1>5, <1>6 DEF ResolveSupply

LEMMA CreateOrphanSupplyStep ==
  ASSUME IInv, NEW w \in Slots, CreateOrphanSupply(w)
  PROVE  IInv'
<1> DEFINE j == job[w]
<1>1. /\ j.p \in PickupIds /\ j.m \in Machines /\ j.d \in DeliveryIds /\ j.dm \in Machines
      /\ pickup[j.p].status # "ABSENT"
  <2>1. job[w] \in JobSet /\ job[w].kind = "orphan" /\ Remembers(job[w], delivery, pickup)
    BY DEF CreateOrphanSupply, IInv, JobsOK
  <2>2. job[w] \in OrphanJob
    BY <2>1, JobShape
  <2> QED BY <2>1, <2>2 DEF OrphanJob, Remembers, PickupKinds
<1>2. UNCHANGED <<delivery, pickup, trip, production, mode, seen>>
  BY DEF CreateOrphanSupply
<1>3. CASE Continue(w, Idle) /\ UNCHANGED supply
  BY <1>2, <1>3, JobOnly, NothingRemembered
<1>4. ASSUME NEW s \in SupplyIds,
             supply' = [supply EXCEPT ![s] = NewSupply(j.dm, "FULFILLED", j.d)],
             Continue(w, [kind |-> "linkTo", p |-> j.p, m |-> j.m, s |-> s, d |-> j.d])
      PROVE  IInv'
  <2> DEFINE next == [kind |-> "linkTo", p |-> j.p, m |-> j.m, s |-> s, d |-> j.d]
             row == NewSupply(j.dm, "FULFILLED", j.d)
  <2>1. row \in SupplyRow
    BY <1>1 DEF NewSupply, SupplyRow
  <2>2. next \in JobSet /\ Remembers(next, delivery', pickup')
    BY <1>1, <1>2 DEF JobSet, MachineJob, LinkToJob, Remembers, PickupKinds
  <2>3. supply' = [supply EXCEPT ![s] = row]
    BY <1>4
  <2> HIDE DEF row
  <2>4. RowsGood' /\ RestOK' /\ Grows
    BY <1>2, <2>1, <2>3 DEF IInv, RowsGood, RestOK, Grows
  <2> QED BY <1>4, <2>2, <2>4, JobStep
<1> QED BY <1>3, <1>4 DEF CreateOrphanSupply

LEMMA AfterLinkGood ==
  ASSUME IInv, NEW j \in LinkToJob, pickup[j.p].status # "ABSENT",
         pickup'[j.p].status # "ABSENT", UNCHANGED delivery
  PROVE  AfterLink(j) \in JobSet /\ Remembers(AfterLink(j), delivery', pickup')
<1> DEFINE d == j.d
           bind == [kind |-> "bind", d |-> d, m |-> j.m, t |-> delivery[d].type, then |-> Idle]
           join == [kind |-> "join", p |-> j.p, m |-> j.m, d |-> d, t |-> delivery[d].type,
                    o |-> delivery[d].op, with |-> delivery[d].with]
<1>1. j.p \in PickupIds /\ j.m \in Machines /\ d \in DeliveryIds \cup {0}
  BY DEF LinkToJob
<1>2. CASE AfterLink(j) = Idle
  BY <1>2, NothingRemembered
<1>3. CASE d \in DeliveryIds /\ delivery[d].status = "CREATED" /\ AfterLink(j) = bind
  <2>1. delivery[d].type \in TaskTypes
    BY <1>3 DEF IInv, RowsGood, GoodDelivery
  <2>2. bind \in TripJob
    BY <1>1, <1>3, <2>1 DEF TripJob, BindJob
  <2> QED BY <1>3, <2>2, NothingRemembered
<1>4. CASE d \in DeliveryIds /\ delivery[d].status = "ASSIGNED" /\ AfterLink(j) = join
  <2>1. /\ delivery[d].type \in TaskTypes
        /\ delivery[d].op \in Operators /\ delivery[d].with \in OperatingModes
    BY <1>4 DEF IInv, RowsGood, GoodDelivery, isSomebodys
  <2>2. join \in JobSet /\ Remembers(join, delivery', pickup')
    BY <1>1, <1>4, <2>1 DEF JobSet, MachineJob, JoinJob, Remembers, PickupKinds
  <2> QED BY <1>4, <2>2
<1>5. \/ AfterLink(j) = Idle
      \/ d # 0 /\ delivery[d].status = "CREATED" /\ AfterLink(j) = bind
      \/ d # 0 /\ delivery[d].status = "ASSIGNED" /\ AfterLink(j) = join
  BY DEF AfterLink
<1> QED BY <1>1, <1>2, <1>3, <1>4, <1>5

LEMMA LinkPickupStep ==
  ASSUME IInv, NEW w \in Slots, LinkPickup(w)
  PROVE  IInv'
<1> DEFINE j == job[w]
           cleared == LinksCleared(j.s)
           taken == \E p \in PickupIds \ {j.p} : cleared[p].link = j.s
           old == cleared[j.p]
           row == [old EXCEPT !.link = j.s]
           next == IF taken THEN Idle ELSE AfterLink(j)
<1>1. /\ j \in LinkToJob /\ j.p \in PickupIds /\ j.s \in SupplyIds
      /\ pickup[j.p].status # "ABSENT"
  <2>1. job[w] \in JobSet /\ job[w].kind = "linkTo" /\ Remembers(job[w], delivery, pickup)
    BY DEF LinkPickup, IInv, JobsOK
  <2>2. job[w] \in LinkToJob
    BY <2>1, JobShape
  <2> QED BY <2>1, <2>2 DEF LinkToJob, Remembers, PickupKinds
<1>2. /\ cleared \in [PickupIds -> GoodPickup]
      /\ \A p \in PickupIds : /\ cleared[p].status = pickup[p].status
                              /\ cleared[p].op = pickup[p].op
                              /\ cleared[p].with = pickup[p].with
  BY DEF LinksCleared, IInv, RowsGood, GoodPickup, PickupRow, isWaiting, isSomebodys
<1>3. pickup' = IF taken THEN cleared ELSE [cleared EXCEPT ![j.p] = row]
  <2>1. pickup' = IF taken THEN cleared ELSE [cleared EXCEPT ![j.p].link = j.s]
    BY DEF LinkPickup
  <2> HIDE DEF cleared
  <2> QED BY <1>1, <1>2, <2>1 DEF GoodPickup, PickupRow
<1>4. Continue(w, next) /\ UNCHANGED <<delivery, supply, trip, production, mode, seen>>
  BY DEF LinkPickup
<1>5. /\ row \in GoodPickup
      /\ row.status = old.status /\ row.op = old.op /\ row.with = old.with
  <2>1. old \in GoodPickup
    BY <1>1, <1>2
  <2> HIDE DEF old
  <2> QED BY <1>1, <2>1 DEF GoodPickup, PickupRow, isWaiting, isSomebodys
<1> HIDE DEF row, cleared, taken
<1>6. /\ pickup' \in [PickupIds -> GoodPickup]
      /\ \A p \in PickupIds : /\ pickup'[p].status = pickup[p].status
                              /\ pickup'[p].op = pickup[p].op
                              /\ pickup'[p].with = pickup[p].with
  BY <1>1, <1>2, <1>3, <1>5
<1>7. Grows
  BY <1>4, <1>6, RelinkGrows
<1>8. RowsGood' /\ RestOK'
  BY <1>4, <1>6 DEF IInv, RowsGood, RestOK
<1> HIDE DEF j
<1>9. next \in JobSet /\ Remembers(next, delivery', pickup')
  BY <1>1, <1>4, <1>6, AfterLinkGood, NothingRemembered
<1> QED BY <1>4, <1>7, <1>8, <1>9, JobStep DEF j

LEMMA JoinDeliveryStep ==
  ASSUME IInv, NEW w \in Slots, JoinDelivery(w)
  PROVE  IInv'
<1> DEFINE j == job[w]
           old == pickup[j.p]
           row == [old EXCEPT !.status = "ASSIGNED", !.op = j.o, !.with = j.with]
           next == [j EXCEPT !.kind = "joinPair"]
<1>1. /\ j \in JoinJob /\ j.p \in PickupIds /\ j.o \in Operators /\ j.with \in OperatingModes
      /\ pickup[j.p].status # "ABSENT"
  <2>1. job[w] \in JobSet /\ job[w].kind = "join" /\ Remembers(job[w], delivery, pickup)
    BY DEF JoinDelivery, IInv, JobsOK
  <2>2. job[w] \in JoinJob
    BY <2>1, JobShape
  <2> QED BY <2>1, <2>2 DEF JoinJob, Remembers, PickupKinds
<1>2. old \in GoodPickup
  BY <1>1 DEF IInv, RowsGood
<1>3. pickup' = [pickup EXCEPT ![j.p] = row]
  BY <1>1, <1>2 DEF JoinDelivery, IInv, RowsGood, GoodPickup, PickupRow
<1>4. row \in GoodPickup /\ row.status # "ABSENT" /\ isSomebodys(row)
  BY <1>1, <1>2 DEF GoodPickup, PickupRow, TaskStatus, ModeOrNull, isSomebodys
<1>5. UNCHANGED <<delivery, supply, trip, production, mode, seen>> /\ Continue(w, next)
  BY DEF JoinDelivery
<1> HIDE DEF row
<1>6. pickup' \in [PickupIds -> GoodPickup] /\ Grows
  BY <1>1, <1>3, <1>4, <1>5 DEF IInv, RowsGood, Grows, isSomebodys
<1>7. RowsGood' /\ RestOK'
  BY <1>5, <1>6 DEF IInv, RowsGood, RestOK
<1>8. next \in JobSet /\ Remembers(next, delivery', pickup')
  BY <1>1 DEF JobSet, MachineJob, JoinJob, Remembers, PickupKinds
<1> HIDE DEF next
<1> QED BY <1>5, <1>6, <1>7, <1>8, JobStep

LEMMA JoinTripStep ==
  ASSUME IInv, NEW w \in Slots, JoinTrip(w)
  PROVE  IInv'
<1> DEFINE j == job[w]
           row == PairRow(j, "ACCEPTED", j.o)
<1>1. /\ j.d \in DeliveryIds /\ j.p \in PickupIds /\ j.m \in Machines /\ j.t \in TaskTypes
      /\ j.o \in Operators
  <2>1. job[w] \in JobSet /\ job[w].kind = "joinPair" /\ Remembers(job[w], delivery, pickup)
    BY DEF JoinTrip, IInv, JobsOK
  <2>2. job[w] \in JoinJob
    BY <2>1, JobShape
  <2> QED BY <2>1, <2>2 DEF JoinJob
<1>2. row \in GoodTrip
  BY <1>1, PairRowGood
<1>3. trip \in [TripIds -> GoodTrip]
  BY DEF IInv, RowsGood
<1>4. trip' \in [TripIds -> GoodTrip]
  <2>1. CASE trip' = OtherPairsExpired(j.d, j.p)
    BY <2>1, ExpiredGood
  <2>2. CASE UNCHANGED trip
    BY <1>3, <2>2
  <2>3. ASSUME NEW r, trip' = [trip EXCEPT ![r] = row]
        PROVE  trip' \in [TripIds -> GoodTrip]
    <3> HIDE DEF row
    <3> QED BY <1>2, <1>3, <2>3
  <2> HIDE DEF row
  <2> QED BY <2>1, <2>2, <2>3 DEF JoinTrip, row
<1>5. Continue(w, Idle) /\ UNCHANGED <<delivery, pickup, supply, production, mode, seen>>
  BY DEF JoinTrip
<1> QED BY <1>4, <1>5, TripOnly, NothingRemembered

\* Creating a supply request.
LEMMA NewSupplyStep ==
  ASSUME IInv, NEW w \in Slots, NEW m \in Machines, NEW s \in SupplyIds,
         supply' = [supply EXCEPT ![s] = NewSupply(m, "OPEN", 0)],
         NEW next \in LinkFromJob \cup {Idle}, Continue(w, next),
         UNCHANGED <<delivery, pickup, trip, production, mode, seen>>
  PROVE  IInv'
<1>1. NewSupply(m, "OPEN", 0) \in SupplyRow
  BY DEF NewSupply, SupplyRow
<1>2. RowsGood' /\ RestOK' /\ Grows
  BY <1>1 DEF IInv, RowsGood, RestOK, Grows
<1> QED BY <1>2, JobStep, NothingRemembered

LEMMA CreateSupplyStep ==
  ASSUME IInv, NEW w \in Slots, CreateSupply(w)
  PROVE  IInv'
<1> DEFINE m == job[w].m
           S == OpenUnlinkedPickups(m)
<1>1. m \in Machines
  BY JobShape DEF CreateSupply, IInv, JobsOK, NewSupplyJob
<1>2. PICK s \in SupplyIds :
        /\ supply' = [supply EXCEPT ![s] = NewSupply(m, "OPEN", 0)]
        /\ Continue(w, IF S = {} THEN Idle
                       ELSE [kind |-> "linkFrom", s |-> s, p |-> Oldest(S)])
  BY DEF CreateSupply
<1> DEFINE next == IF S = {} THEN Idle ELSE [kind |-> "linkFrom", s |-> s, p |-> Oldest(S)]
<1>3. next \in LinkFromJob \cup {Idle}
  <2>1. S \in SUBSET (1 .. MaxPickup) /\ MaxPickup \in Nat
    BY BoundsAssumption DEF OpenUnlinkedPickups, OpenPickups, PickupIds
  <2> HIDE DEF S
  <2>2. S # {} => Oldest(S) \in PickupIds
    BY <2>1, OldestIsIn DEF PickupIds
  <2> QED BY <2>2 DEF LinkFromJob
<1> HIDE DEF m, S
<1> QED BY <1>1, <1>2, <1>3, NewSupplyStep DEF CreateSupply

LEMMA LinkSupplyStep ==
  ASSUME IInv, NEW w \in Slots, LinkSupply(w)
  PROVE  IInv'
<1> DEFINE j == job[w]
           old == pickup[j.p]
           row == [old EXCEPT !.link = j.s]
<1>1. j.p \in PickupIds /\ j.s \in SupplyIds
  BY JobShape DEF LinkSupply, IInv, JobsOK, LinkFromJob
<1>2. old \in GoodPickup
  BY <1>1 DEF IInv, RowsGood
<1>3. pickup' = pickup \/ pickup' = [pickup EXCEPT ![j.p] = row]
  BY <1>1, <1>2 DEF LinkSupply, IInv, RowsGood, GoodPickup, PickupRow
<1>4. /\ row \in GoodPickup
      /\ row.status = old.status /\ row.op = old.op /\ row.with = old.with
  BY <1>1, <1>2 DEF GoodPickup, PickupRow, isWaiting, isSomebodys
<1> HIDE DEF row
<1>5. UNCHANGED <<delivery, supply, trip, production, mode, seen>> /\ Continue(w, Idle)
  BY DEF LinkSupply
<1>6. /\ pickup' \in [PickupIds -> GoodPickup]
      /\ \A p \in PickupIds : /\ pickup'[p].status = pickup[p].status
                              /\ pickup'[p].op = pickup[p].op
                              /\ pickup'[p].with = pickup[p].with
  BY <1>1, <1>3, <1>4 DEF IInv, RowsGood
<1>7. Grows
  BY <1>5, <1>6, RelinkGrows
<1>8. RowsGood' /\ RestOK'
  BY <1>5, <1>6 DEF IInv, RowsGood, RestOK
<1> QED BY <1>5, <1>7, <1>8, JobStep, NothingRemembered

LEMMA CreateBothStep ==
  ASSUME IInv, NEW w \in Slots, CreateBoth(w)
  PROVE  IInv'
<1> DEFINE j == job[w]
<1>1. j.m \in Machines /\ j.t \in TaskTypes
  BY JobShape DEF CreateBoth, IInv, JobsOK, NewPairJob
<1>2. PICK s \in SupplyIds, p \in PickupIds :
        /\ IsNextId(p, pickup)
        /\ supply' = [supply EXCEPT ![s] = NewSupply(j.m, "OPEN", 0)]
        /\ pickup' = [pickup EXCEPT ![p] = NewPickup(j.m, j.t, s)]
  BY DEF CreateBoth
<1>3. UNCHANGED <<delivery, trip, production, mode, seen>> /\ Continue(w, Idle)
  BY DEF CreateBoth
<1> HIDE DEF j
<1>4. pickup' \in [PickupIds -> GoodPickup] /\ Grows
  BY <1>1, <1>2, <1>3, NewPickupGrows
<1>5. NewSupply(j.m, "OPEN", 0) \in SupplyRow
  BY <1>1 DEF NewSupply, SupplyRow
<1>6. RowsGood' /\ RestOK'
  BY <1>2, <1>3, <1>4, <1>5 DEF IInv, RowsGood, RestOK
<1> QED BY <1>3, <1>4, <1>6, JobStep, NothingRemembered

LEMMA ReadCancelStep ==
  ASSUME IInv, NEW w \in Slots, ReadCancel(w)
  PROVE  IInv'
<1> DEFINE j == job[w]
           d == IF j.s # 0 /\ supply[j.s].status = "FULFILLED" THEN supply[j.s].delivery ELSE 0
           goes == j.s # 0 /\ (supply[j.s].status = "OPEN" \/ isCancelableDelivery(d))
           next == [kind |-> "cancelTx", p |-> j.p, s |-> IF goes THEN j.s ELSE 0,
                    d |-> IF isCancelableDelivery(d) THEN d ELSE 0]
<1>1. /\ j.p \in PickupIds /\ j.s \in SupplyIds \cup {0}
      /\ pickup[j.p].status # "ABSENT"
  <2>1. j \in JobSet /\ j.kind = "cancel" /\ Remembers(j, delivery, pickup)
    BY DEF ReadCancel, IInv, JobsOK
  <2>2. j \in CancelJob
    BY <2>1, JobShape
  <2> QED BY <2>1, <2>2 DEF CancelJob, Remembers, PickupKinds
<1>2. d \in DeliveryIds \cup {0}
  BY <1>1 DEF IInv, RowsGood, SupplyRow
<1>3. Continue(w, next) /\ UNCHANGED <<delivery, pickup, supply, trip, production, mode, seen>>
  BY DEF ReadCancel
<1> HIDE DEF d, goes
<1>4. next \in JobSet /\ Remembers(next, delivery, pickup)
  BY <1>1, <1>2
     DEF JobSet, MachineJob, CancelTxJob, Remembers, PickupKinds, isCancelableDelivery
<1> HIDE DEF next
<1> QED BY <1>3, <1>4, JobOnly

LEMMA FinishCancelStep ==
  ASSUME IInv, NEW w \in Slots, FinishCancel(w)
  PROVE  IInv'
<1> DEFINE j == job[w]
           oldP == pickup[j.p]
           rowP == [oldP EXCEPT !.status = "CANCELED", !.link = 0]
           oldD == delivery[j.d]
           rowD == [oldD EXCEPT !.status = "CANCELED"]
<1>1. /\ j.p \in PickupIds /\ j.s \in SupplyIds \cup {0} /\ j.d \in DeliveryIds \cup {0}
      /\ pickup[j.p].status # "ABSENT"
      /\ j.d # 0 => delivery[j.d].status # "ABSENT"
  <2>1. job[w] \in JobSet /\ job[w].kind = "cancelTx" /\ Remembers(job[w], delivery, pickup)
    BY DEF FinishCancel, IInv, JobsOK
  <2>2. job[w] \in CancelTxJob
    BY <2>1, JobShape
  <2> QED BY <2>1, <2>2 DEF CancelTxJob, Remembers, PickupKinds
<1>2. trip' \in [TripIds -> GoodTrip]
  <2>1. ASSUME NEW r \in TripIds
        PROVE  /\ trip[r] \in GoodTrip
               /\ trip[r].status = "OPEN" =>
                    [trip[r] EXCEPT !.status = "EXPIRED"] \in GoodTrip
    BY DEF IInv, RowsGood, GoodTrip, TripRow
  <2>2. trip' = [r \in TripIds |->
                  IF trip[r].status = "OPEN" /\ trip[r].pickup = j.p
                  THEN [trip[r] EXCEPT !.status = "EXPIRED"] ELSE trip[r]]
    BY DEF FinishCancel
  <2> QED BY <2>1, <2>2
<1>3. supply' \in [SupplyIds -> SupplyRow]
  <2>1. supply \in [SupplyIds -> SupplyRow]
    BY DEF IInv, RowsGood
  <2>2. ASSUME NEW s \in SupplyIds
        PROVE  [supply[s] EXCEPT !.status = "CANCELLED"] \in SupplyRow
    BY <2>1 DEF SupplyRow
  <2>3. supply' = IF j.s = 0 THEN supply ELSE [supply EXCEPT ![j.s].status = "CANCELLED"]
    BY DEF FinishCancel
  <2> QED BY <1>1, <2>1, <2>2, <2>3
<1>4. /\ pickup' \in [PickupIds -> GoodPickup]
      /\ \A p \in PickupIds : /\ pickup[p].status # "ABSENT" => pickup'[p].status # "ABSENT"
                              /\ isSomebodys(pickup[p]) => isSomebodys(pickup'[p])
  <2>1. oldP \in GoodPickup
    BY <1>1 DEF IInv, RowsGood
  <2>2. pickup' = [pickup EXCEPT ![j.p] = rowP]
    BY <1>1, <2>1 DEF FinishCancel, IInv, RowsGood, GoodPickup, PickupRow
  <2>3. /\ rowP \in GoodPickup /\ rowP.status # "ABSENT"
        /\ rowP.op = oldP.op /\ rowP.with = oldP.with
    BY <1>1, <2>1 DEF GoodPickup, PickupRow, TaskStatus, isWaiting, isSomebodys
  <2> HIDE DEF rowP
  <2> QED BY <1>1, <2>2, <2>3 DEF IInv, RowsGood, isSomebodys
<1>5. /\ delivery' \in [DeliveryIds -> GoodDelivery]
      /\ \A d \in DeliveryIds :
           /\ delivery[d].status # "ABSENT" => delivery'[d].status # "ABSENT"
           /\ isSomebodys(delivery[d]) => isSomebodys(delivery'[d])
  <2>1. CASE j.d = 0
    BY <2>1 DEF FinishCancel, IInv, RowsGood
  <2>2. CASE j.d # 0
    <3>1. oldD \in GoodDelivery
      BY <1>1, <2>2 DEF IInv, RowsGood
    <3>2. delivery' = [delivery EXCEPT ![j.d] = rowD]
      BY <1>1, <2>2, <3>1 DEF FinishCancel, IInv, RowsGood, GoodDelivery, DeliveryRow
    <3>3. /\ rowD \in GoodDelivery /\ rowD.status # "ABSENT"
          /\ rowD.op = oldD.op /\ rowD.with = oldD.with
      BY <1>1, <2>2, <3>1 DEF GoodDelivery, DeliveryRow, TaskStatus, isWaiting, isSomebodys
    <3> HIDE DEF rowD
    <3> QED BY <1>1, <2>2, <3>2, <3>3 DEF IInv, RowsGood, isSomebodys
  <2> QED BY <2>1, <2>2
<1>6. UNCHANGED <<production, mode, seen>> /\ Continue(w, Idle)
  BY DEF FinishCancel
<1> HIDE DEF j
<1>7. RowsGood' /\ RestOK' /\ Grows
  BY <1>2, <1>3, <1>4, <1>5, <1>6 DEF IInv, RowsGood, RestOK, Grows
<1> QED BY <1>6, <1>7, JobStep, NothingRemembered

LEMMA MachineDeskStep ==
  ASSUME IInv, NEW w \in Slots, MachineRequest(w) \/ MachineStep(w)
  PROVE  IInv'
<1>1. ASSUME NEW m \in Machines, NEW t \in TaskTypes, RequestPickup(w, m, t)
      PROVE  IInv'
  BY <1>1, RequestPickupStep
<1>2. ASSUME NEW m \in Machines, NEW t \in TaskTypes, BeginRequestBoth(w, m, t)
      PROVE  IInv'
  <2>1. [kind |-> "newPair", m |-> m, t |-> t] \in NewPairJob
    BY DEF NewPairJob
  <2> QED BY <1>2, <2>1, JobOnly, NothingRemembered DEF BeginRequestBoth
<1>3. ASSUME NEW m \in Machines, RepairLinks(w, m)
      PROVE  IInv'
  BY <1>3, RepairLinksStep
<1>4. ASSUME NEW m \in Machines, BeginRequestSupply(w, m)
      PROVE  IInv'
  <2>1. [kind |-> "newSupply", m |-> m] \in NewSupplyJob
    BY DEF NewSupplyJob
  <2> QED BY <1>4, <2>1, JobOnly, NothingRemembered DEF BeginRequestSupply
<1>5. ASSUME NEW p \in PickupIds, BeginCancel(w, p)
      PROVE  IInv'
  <2> DEFINE next == [kind |-> "cancel", p |-> p, s |-> pickup[p].link]
  <2>1. pickup[p].link \in SupplyIds \cup {0}
    BY DEF IInv, RowsGood, GoodPickup, PickupRow
  <2>2. next \in JobSet /\ Remembers(next, delivery, pickup)
    BY <1>5, <2>1 DEF BeginCancel, JobSet, MachineJob, CancelJob, Remembers, PickupKinds
  <2> QED BY <1>5, <2>2, JobOnly DEF BeginCancel
<1>6. CASE MachineRequest(w)
  BY <1>1, <1>2, <1>3, <1>4, <1>5, <1>6 DEF MachineRequest
<1>7. CASE MachineStep(w)
  BY <1>7, ResolveSupplyStep, CreateOrphanSupplyStep, LinkPickupStep, JoinDeliveryStep,
     JoinTripStep, CreateSupplyStep, LinkSupplyStep, CreateBothStep, ReadCancelStep,
     FinishCancelStep DEF MachineStep
<1> QED BY <1>6, <1>7
-----------------------------------------------------------------------------
(* The transporters.                                                       *)

\* Writing one good delivery that keeps, or gets, a name.
LEMMA DeliveryWrite ==
  ASSUME IInv, NEW w \in Slots, NEW d \in DeliveryIds, NEW row \in GoodDelivery,
         row.status # "ABSENT", isSomebodys(delivery[d]) => isSomebodys(row),
         delivery' = [delivery EXCEPT ![d] = row],
         NEW next \in AfterwardsJob \cup {Idle}, Continue(w, next),
         UNCHANGED <<pickup, supply, trip, production, mode, seen>>
  PROVE  IInv'
<1>1. delivery' \in [DeliveryIds -> GoodDelivery] /\ Grows
  BY DEF IInv, RowsGood, Grows, isSomebodys
<1>2. RowsGood' /\ RestOK'
  BY <1>1 DEF IInv, RowsGood, RestOK
<1> QED BY <1>1, <1>2, JobStep, NothingRemembered

\* The same for a pickup.
LEMMA PickupWrite ==
  ASSUME IInv, NEW w \in Slots, NEW p \in PickupIds, NEW row \in GoodPickup,
         row.status # "ABSENT", isSomebodys(pickup[p]) => isSomebodys(row),
         pickup' = [pickup EXCEPT ![p] = row],
         NEW next \in AfterwardsJob \cup {Idle}, Continue(w, next),
         UNCHANGED <<delivery, supply, trip, production, mode, seen>>
  PROVE  IInv'
<1>1. pickup' \in [PickupIds -> GoodPickup] /\ Grows
  BY DEF IInv, RowsGood, Grows, isSomebodys
<1>2. RowsGood' /\ RestOK'
  BY <1>1 DEF IInv, RowsGood, RestOK
<1> QED BY <1>1, <1>2, JobStep, NothingRemembered

\* What an accept writes is a good row with a name.
LEMMA AssignedDelivery ==
  ASSUME NEW row \in GoodDelivery, row.status # "ABSENT",
         NEW o \in Operators, NEW m \in OperatingModes
  PROVE  /\ Assigned(row, o, m) \in GoodDelivery /\ Assigned(row, o, m).status # "ABSENT"
         /\ isSomebodys(Assigned(row, o, m))
BY DEF Assigned, GoodDelivery, DeliveryRow, TaskStatus, ModeOrNull, isSomebodys

LEMMA AssignedPickup ==
  ASSUME NEW row \in GoodPickup, row.status # "ABSENT",
         NEW o \in Operators, NEW m \in OperatingModes
  PROVE  /\ Assigned(row, o, m) \in GoodPickup /\ Assigned(row, o, m).status # "ABSENT"
         /\ isSomebodys(Assigned(row, o, m))
BY DEF Assigned, GoodPickup, PickupRow, TaskStatus, ModeOrNull, isSomebodys

\* The mode of a transporter who chose one.
LEMMA ModeIsSet ==
  ASSUME IInv, NEW o \in Operators, mode[o] # "NONE"
  PROVE  mode[o] \in OperatingModes
BY DEF IInv, RestOK, ModeOrNull

LEMMA BeginAcceptDeliverStep ==
  ASSUME IInv, NEW w \in Slots, NEW o \in Operators, NEW d \in DeliveryIds,
         BeginAcceptDeliver(w, o, d)
  PROVE  IInv'
<1> DEFINE next == [kind |-> "acceptDeliver", o |-> o, d |-> d, with |-> mode[o]]
<1>1. mode[o] \in OperatingModes
  BY ModeIsSet DEF BeginAcceptDeliver, mayAccept
<1>2. next \in JobSet /\ Remembers(next, delivery, pickup)
  BY <1>1 DEF JobSet, TransportJob, AcceptJob, Remembers, PickupKinds, BeginAcceptDeliver
<1> QED BY <1>2, JobOnly DEF BeginAcceptDeliver

LEMMA BeginAcceptPickupStep ==
  ASSUME IInv, NEW w \in Slots, NEW o \in Operators, NEW p \in PickupIds,
         BeginAcceptPickup(w, o, p)
  PROVE  IInv'
<1> DEFINE next == [kind |-> "acceptPickup", o |-> o, p |-> p, with |-> mode[o]]
<1>1. mode[o] \in OperatingModes
  BY ModeIsSet DEF BeginAcceptPickup, mayAccept
<1>2. next \in JobSet /\ Remembers(next, delivery, pickup)
  BY <1>1 DEF JobSet, TransportJob, AcceptJob, Remembers, PickupKinds, BeginAcceptPickup
<1> QED BY <1>2, JobOnly DEF BeginAcceptPickup

LEMMA BeginAcceptTripStep ==
  ASSUME IInv, NEW w \in Slots, NEW o \in Operators, NEW r \in TripIds,
         BeginAcceptTrip(w, o, r)
  PROVE  IInv'
<1> DEFINE next == [kind |-> "acceptTrip", o |-> o, r |-> r, d |-> trip[r].deliver,
                    p |-> trip[r].pickup, with |-> mode[o]]
<1>1. mode[o] \in OperatingModes
  BY ModeIsSet DEF BeginAcceptTrip, mayAccept
<1>2. trip[r].deliver \in DeliveryIds /\ trip[r].pickup \in PickupIds
  BY DEF BeginAcceptTrip, IInv, RowsGood, GoodTrip
<1>3. next \in JobSet /\ Remembers(next, delivery, pickup)
  BY <1>1, <1>2 DEF JobSet, TransportJob, AcceptJob, Remembers, PickupKinds
<1> QED BY <1>3, JobOnly DEF BeginAcceptTrip

LEMMA FinishAcceptDeliverStep ==
  ASSUME IInv, NEW w \in Slots, FinishAcceptDeliver(w)
  PROVE  IInv'
<1> DEFINE j == job[w]
           row == Assigned(delivery[j.d], j.o, j.with)
<1>1. /\ j.d \in DeliveryIds /\ j.o \in Operators /\ j.with \in OperatingModes
      /\ delivery[j.d].status # "ABSENT"
  <2>1. job[w] \in JobSet /\ job[w].kind = "acceptDeliver" /\ Remembers(job[w], delivery, pickup)
    BY DEF FinishAcceptDeliver, IInv, JobsOK
  <2>2. job[w] \in AcceptJob
    BY <2>1, JobShape
  <2> QED BY <2>1, <2>2 DEF AcceptJob, Remembers
<1>2. row \in GoodDelivery /\ row.status # "ABSENT" /\ isSomebodys(row)
  BY <1>1, AssignedDelivery DEF IInv, RowsGood
<1>3. delivery' = [delivery EXCEPT ![j.d] = row]
  BY <1>1 DEF FinishAcceptDeliver, IInv, RowsGood
<1> HIDE DEF row
<1> QED BY <1>1, <1>2, <1>3, DeliveryWrite DEF FinishAcceptDeliver

LEMMA FinishAcceptPickupStep ==
  ASSUME IInv, NEW w \in Slots, FinishAcceptPickup(w)
  PROVE  IInv'
<1> DEFINE j == job[w]
           row == Assigned(pickup[j.p], j.o, j.with)
<1>1. /\ j.p \in PickupIds /\ j.o \in Operators /\ j.with \in OperatingModes
      /\ pickup[j.p].status # "ABSENT"
  <2>1. job[w] \in JobSet /\ job[w].kind = "acceptPickup" /\ Remembers(job[w], delivery, pickup)
    BY DEF FinishAcceptPickup, IInv, JobsOK
  <2>2. job[w] \in AcceptJob
    BY <2>1, JobShape
  <2> QED BY <2>1, <2>2 DEF AcceptJob, Remembers, PickupKinds
<1>2. row \in GoodPickup /\ row.status # "ABSENT" /\ isSomebodys(row)
  BY <1>1, AssignedPickup DEF IInv, RowsGood
<1>3. pickup' = [pickup EXCEPT ![j.p] = row]
  BY <1>1 DEF FinishAcceptPickup, IInv, RowsGood
<1> HIDE DEF row
<1> QED BY <1>1, <1>2, <1>3, PickupWrite DEF FinishAcceptPickup

LEMMA FinishAcceptTripStep ==
  ASSUME IInv, NEW w \in Slots, FinishAcceptTrip(w)
  PROVE  IInv'
<1> DEFINE j == job[w]
           rowT == [trip[j.r] EXCEPT !.status = "ACCEPTED", !.by = j.o]
           rowD == IF delivery[j.d].status = "CREATED"
                   THEN Assigned(delivery[j.d], j.o, j.with) ELSE delivery[j.d]
           rowP == IF pickup[j.p].status = "CREATED"
                   THEN Assigned(pickup[j.p], j.o, j.with) ELSE pickup[j.p]
<1>1. /\ j.d \in DeliveryIds /\ j.p \in PickupIds /\ j.r \in TripIds
      /\ j.o \in Operators /\ j.with \in OperatingModes
  <2>1. job[w] \in JobSet /\ job[w].kind = "acceptTrip" /\ Remembers(job[w], delivery, pickup)
    BY DEF FinishAcceptTrip, IInv, JobsOK
  <2>2. job[w] \in AcceptJob
    BY <2>1, JobShape
  <2> QED BY <2>1, <2>2 DEF AcceptJob
<1>2. Continue(w, Idle) /\ UNCHANGED <<supply, production, mode, seen>>
  BY DEF FinishAcceptTrip
<1>3. CASE UNCHANGED <<delivery, pickup, trip>>
  BY <1>2, <1>3, JobOnly, NothingRemembered
<1>4. CASE /\ trip[j.r].status = "OPEN"
           /\ trip' = [trip EXCEPT ![j.r].status = "ACCEPTED", ![j.r].by = j.o]
           /\ delivery' = [delivery EXCEPT ![j.d] = rowD]
           /\ pickup' = [pickup EXCEPT ![j.p] = rowP]
  <2> DEFINE oldT == trip[j.r]
  <2>0. oldT \in GoodTrip /\ oldT.status = "OPEN"
    BY <1>1, <1>4 DEF IInv, RowsGood
  <2>1. rowT \in GoodTrip
    BY <1>1, <2>0 DEF GoodTrip, TripRow
  <2>2. trip' = [trip EXCEPT ![j.r] = rowT]
    BY <1>1, <1>4, <2>0 DEF IInv, RowsGood, GoodTrip, TripRow
  <2>3. /\ rowD \in GoodDelivery
        /\ delivery[j.d].status # "ABSENT" => rowD.status # "ABSENT"
        /\ isSomebodys(delivery[j.d]) => isSomebodys(rowD)
    BY <1>1, AssignedDelivery DEF IInv, RowsGood
  <2>4. /\ rowP \in GoodPickup
        /\ pickup[j.p].status # "ABSENT" => rowP.status # "ABSENT"
        /\ isSomebodys(pickup[j.p]) => isSomebodys(rowP)
    BY <1>1, AssignedPickup DEF IInv, RowsGood
  <2>5. delivery' = [delivery EXCEPT ![j.d] = rowD] /\ pickup' = [pickup EXCEPT ![j.p] = rowP]
    BY <1>4
  <2> HIDE DEF rowT, rowD, rowP
  <2>6. /\ trip' \in [TripIds -> GoodTrip] /\ delivery' \in [DeliveryIds -> GoodDelivery]
        /\ pickup' \in [PickupIds -> GoodPickup]
    BY <1>1, <2>1, <2>2, <2>3, <2>4, <2>5 DEF IInv, RowsGood
  <2>7. Grows
    BY <1>1, <2>3, <2>4, <2>5 DEF IInv, RowsGood, Grows, isSomebodys
  <2>8. RowsGood' /\ RestOK'
    BY <1>2, <2>6 DEF IInv, RowsGood, RestOK
  <2> QED BY <1>2, <2>7, <2>8, JobStep, NothingRemembered
<1> QED BY <1>3, <1>4 DEF FinishAcceptTrip

LEMMA BeginCompleteDeliverStep ==
  ASSUME IInv, NEW w \in Slots, NEW o \in Operators, NEW d \in DeliveryIds,
         BeginCompleteDeliver(w, o, d)
  PROVE  IInv'
<1> DEFINE next == [kind |-> "completeDeliver", d |-> d]
<1>1. delivery[d].status # "ABSENT" /\ isSomebodys(delivery[d])
  BY NullAssumption
     DEF BeginCompleteDeliver, OpenStatus, IInv, RowsGood, GoodDelivery, isWaiting
<1>2. next \in JobSet /\ Remembers(next, delivery, pickup)
  BY <1>1 DEF JobSet, TransportJob, CompleteJob, Remembers, PickupKinds
<1> QED BY <1>2, JobOnly DEF BeginCompleteDeliver

LEMMA FinishCompleteDeliverStep ==
  ASSUME IInv, NEW w \in Slots, FinishCompleteDeliver(w)
  PROVE  IInv'
<1> DEFINE d == job[w].d
           old == delivery[d]
           row == [old EXCEPT !.status = "COMPLETED"]
           next == IF production[old.machine] = "TRABALHANDO" THEN Idle
                   ELSE [kind |-> "resume", m |-> old.machine]
<1>1. d \in DeliveryIds /\ old.status # "ABSENT" /\ isSomebodys(old)
  <2>1. job[w] \in JobSet /\ job[w].kind = "completeDeliver" /\ Remembers(job[w], delivery, pickup)
    BY DEF FinishCompleteDeliver, IInv, JobsOK
  <2>2. job[w] \in CompleteJob
    BY <2>1, JobShape
  <2> QED BY <2>1, <2>2 DEF CompleteJob, Remembers
<1>2. old \in GoodDelivery
  BY <1>1 DEF IInv, RowsGood
<1>3. row \in GoodDelivery /\ row.status # "ABSENT" /\ isSomebodys(row)
  BY <1>1, <1>2 DEF GoodDelivery, DeliveryRow, TaskStatus, isSomebodys
<1>4. delivery' = [delivery EXCEPT ![d] = row]
  BY <1>1, <1>2 DEF FinishCompleteDeliver, IInv, RowsGood, GoodDelivery, DeliveryRow
<1>5. next \in AfterwardsJob \cup {Idle}
  BY <1>1, <1>2 DEF GoodDelivery, AfterwardsJob
<1>6. Continue(w, next) /\ UNCHANGED <<pickup, supply, trip, production, mode, seen>>
  BY DEF FinishCompleteDeliver
<1> HIDE DEF row, next
<1> QED BY <1>1, <1>3, <1>4, <1>5, <1>6, DeliveryWrite

LEMMA BeginCompletePickupStep ==
  ASSUME IInv, NEW w \in Slots, NEW o \in Operators, NEW p \in PickupIds,
         BeginCompletePickup(w, o, p)
  PROVE  IInv'
<1> DEFINE next == [kind |-> "completePickup", o |-> o, p |-> p, with |-> mode[o],
                    first |-> pickup[p].op = NoOp]
<1>1. mode[o] \in OperatingModes
  BY ModeIsSet DEF BeginCompletePickup
<1>2. pickup[p].status # "ABSENT" /\ (pickup[p].op # NoOp => isSomebodys(pickup[p]))
  BY DEF BeginCompletePickup, OpenStatus, IInv, RowsGood, GoodPickup, isWaiting
<1>3. (pickup[p].op = NoOp) \in BOOLEAN
  OBVIOUS
<1>4. next \in CompleteJob
  BY <1>1, <1>3 DEF CompleteJob
<1>5. next \in JobSet /\ Remembers(next, delivery, pickup)
  BY <1>2, <1>4 DEF JobSet, TransportJob, Remembers, PickupKinds
<1> HIDE DEF next
<1>6. /\ Continue(w, next)
      /\ UNCHANGED <<delivery, pickup, supply, trip, production, mode, seen>>
  BY DEF BeginCompletePickup, next
<1> QED BY <1>5, <1>6, JobOnly

LEMMA FinishCompletePickupStep ==
  ASSUME IInv, NEW w \in Slots, FinishCompletePickup(w)
  PROVE  IInv'
<1> DEFINE j == job[w]
           S == {i \in TripIds : trip[i].status = "ACCEPTED" /\ trip[i].pickup = j.p}
           old == pickup[j.p]
           row == [old EXCEPT !.status = "COMPLETED", !.op = j.o,
                              !.with = IF j.first THEN j.with ELSE old.with]
           next == IF Oldest(S) = 0 THEN Idle ELSE [kind |-> "closeTrip", r |-> Oldest(S)]
<1>1. /\ j.p \in PickupIds /\ j.o \in Operators /\ j.with \in OperatingModes
      /\ j.first \in BOOLEAN /\ old.status # "ABSENT"
      /\ j.first \/ isSomebodys(old)
  <2>1. job[w] \in JobSet /\ job[w].kind = "completePickup" /\ Remembers(job[w], delivery, pickup)
    BY DEF FinishCompletePickup, IInv, JobsOK
  <2>2. job[w] \in CompleteJob
    BY <2>1, JobShape
  <2> QED BY <2>1, <2>2 DEF CompleteJob, Remembers, PickupKinds
<1>2. old \in GoodPickup
  BY <1>1 DEF IInv, RowsGood
<1>3. row \in GoodPickup /\ row.status # "ABSENT" /\ isSomebodys(row)
  <2>1. (IF j.first THEN j.with ELSE old.with) \in OperatingModes
    BY <1>1 DEF isSomebodys
  <2> QED BY <1>1, <1>2, <2>1 DEF GoodPickup, PickupRow, TaskStatus, ModeOrNull, isSomebodys
<1>4. pickup' = [pickup EXCEPT ![j.p] = row]
  BY <1>1, <1>2 DEF FinishCompletePickup, IInv, RowsGood, GoodPickup, PickupRow
<1>5. next \in AfterwardsJob \cup {Idle}
  <2>1. S \in SUBSET (1 .. MaxTrip) /\ MaxTrip \in Nat
    BY BoundsAssumption DEF TripIds
  <2> HIDE DEF S
  <2>2. Oldest(S) # 0 => Oldest(S) \in TripIds
    BY <2>1, OldestIsIn DEF TripIds
  <2> QED BY <2>2 DEF AfterwardsJob
<1>6. Continue(w, next) /\ UNCHANGED <<delivery, supply, trip, production, mode, seen>>
  BY DEF FinishCompletePickup
<1> HIDE DEF row, next
<1> QED BY <1>1, <1>3, <1>4, <1>5, <1>6, PickupWrite

LEMMA CloseTripStep ==
  ASSUME IInv, NEW w \in Slots, CloseTrip(w)
  PROVE  IInv'
<1>1. job[w].r \in TripIds
  BY JobShape DEF CloseTrip, IInv, JobsOK, AfterwardsJob
<1> DEFINE old == trip[job[w].r]
           status == IF old.status = "ACCEPTED" THEN "COMPLETED" ELSE old.status
           row == [old EXCEPT !.status = status]
<1>2. old \in GoodTrip
  BY <1>1 DEF IInv, RowsGood
<1>3. row \in GoodTrip
  BY <1>2 DEF GoodTrip, TripRow
<1>4. trip' = [trip EXCEPT ![job[w].r] = row]
  BY DEF CloseTrip
<1> HIDE DEF row
<1>5. trip' \in [TripIds -> GoodTrip]
  BY <1>1, <1>3, <1>4 DEF IInv, RowsGood
<1> QED BY <1>5, TripOnly, NothingRemembered DEF CloseTrip

\* Machines and modes: no row is written.
LEMMA SettingsStep ==
  ASSUME IInv, NEW w \in Slots, UNCHANGED tables, RestOK', Continue(w, Idle)
  PROVE  IInv'
<1>1. RowsGood' /\ Grows
  BY DEF IInv, RowsGood, tables, Grows
<1> QED BY <1>1, JobStep, NothingRemembered

LEMMA TransportRequestStep ==
  ASSUME IInv, NEW w \in Slots, TransportRequest(w)
  PROVE  IInv'
<1>1. ASSUME NEW o \in Operators, NEW m \in OperatingModes, SetMode(w, o, m)
      PROVE  IInv'
  BY <1>1 DEF SetMode, IInv, RowsGood, RestOK, ModeOrNull, JobsOK
<1>2. ASSUME NEW o \in Operators, BeginClearMode(w, o)
      PROVE  IInv'
  <2>1. [kind |-> "clearMode", o |-> o] \in ClearModeJob
    BY DEF ClearModeJob
  <2> QED BY <1>2, <2>1, JobOnly, NothingRemembered DEF BeginClearMode
<1> QED BY <1>1, <1>2, BeginListStep, BeginAcceptDeliverStep, BeginAcceptPickupStep,
           BeginAcceptTripStep, BeginCompleteDeliverStep, BeginCompletePickupStep
        DEF TransportRequest

LEMMA TransportStepStep ==
  ASSUME IInv, NEW w \in Slots, TransportStep(w)
  PROVE  IInv'
<1>1. CASE ResumeMachine(w)
  <2>1. RestOK' /\ UNCHANGED tables /\ Continue(w, Idle)
    BY <1>1 DEF ResumeMachine, IInv, RestOK, tables
  <2> QED BY <2>1, SettingsStep
<1>2. CASE FinishClearMode(w)
  <2>1. RestOK' /\ UNCHANGED tables /\ Continue(w, Idle)
    BY <1>2 DEF FinishClearMode, IInv, RestOK, tables, ModeOrNull
  <2> QED BY <2>1, SettingsStep
<1> QED BY <1>1, <1>2, FinishAcceptDeliverStep, FinishAcceptPickupStep, FinishAcceptTripStep,
           FinishCompleteDeliverStep, FinishCompletePickupStep, CloseTripStep
        DEF TransportStep
-----------------------------------------------------------------------------
(* The theorems.                                                           *)

LEMMA InitIInv == Init => IInv
<1> SUFFICES ASSUME Init PROVE IInv
  OBVIOUS
<1>1. NoDelivery \in GoodDelivery /\ NoPickup \in GoodPickup
  BY DEF NoDelivery, NoPickup, GoodDelivery, GoodPickup, DeliveryRow, PickupRow, TaskStatus,
         ModeOrNull, isWaiting
<1>2. NoSupply \in SupplyRow
  BY DEF NoSupply, SupplyRow
<1>3. RowsGood /\ RestOK
  BY <1>1, <1>2, NoTripGood DEF Init, RowsGood, RestOK, ModeOrNull
<1>4. JobsOK
  BY NothingRemembered DEF Init, JobsOK
<1> QED BY <1>3, <1>4 DEF IInv

LEMMA NextIInv == IInv /\ [Next]_vars => IInv'
<1> SUFFICES ASSUME IInv, [Next]_vars PROVE IInv'
  OBVIOUS
<1>1. CASE UNCHANGED vars
  BY <1>1 DEF vars, IInv, RowsGood, RestOK, JobsOK, Remembers, PickupKinds, isSomebodys
<1>2. ASSUME NEW w \in Slots, Fail(w)
      PROVE  IInv'
  BY <1>2, JobOnly, NothingRemembered DEF Fail
<1> QED BY <1>1, <1>2, SupplyDeskStep, MachineDeskStep, TransportRequestStep,
           TransportStepStep, TripStepStep DEF Next

LEMMA IInvImplies == IInv => TypeOK /\ AssignmentCoherent
<1> SUFFICES ASSUME IInv PROVE TypeOK /\ AssignmentCoherent
  OBVIOUS
<1>1. TypeOK
  BY DEF IInv, RowsGood, RestOK, JobsOK, GoodDelivery, GoodPickup, GoodTrip, TypeOK
<1>2. AssignmentCoherent
  BY DEF IInv, RowsGood, GoodDelivery, GoodPickup, GoodTrip, AssignmentCoherent,
         DeliveryCoherent, PickupCoherent, TripCoherent
<1> QED BY <1>1, <1>2

\* IInv holds in every state, whatever requests interleave or fail.
THEOREM AlwaysIInv == Spec => []IInv
BY InitIInv, NextIInv, PTL DEF Spec

\* Every table keeps its types, and every request in execution the shape its
\* continuation expects.
THEOREM TypeCorrect == Spec => []TypeOK
BY AlwaysIInv, IInvImplies, PTL

\* For any number of machines, transporters, rows and interleaved requests: a task in
\* hand or done names its transporter and equipment, a waiting one names nobody.
THEOREM AssignmentsCoherent == Spec => []AssignmentCoherent
BY AlwaysIInv, IInvImplies, PTL
-----------------------------------------------------------------------------
(* OnePairPerTask is inductive once the rows are known to be good: the      *)
(* transactions look the other rows up, and the unique columns refuse what *)
(* was read too early.                                                     *)

\* No row comes to life and no live row changes its pair.
KeepsPairs ==
  \A r \in TripIds : isLive(r)' =>
    isLive(r) /\ trip'[r].deliver = trip[r].deliver /\ trip'[r].pickup = trip[r].pickup

LEMMA KeptPairs ==
  ASSUME OnePairPerTask, KeepsPairs
  PROVE  OnePairPerTask'
BY DEF OnePairPerTask, KeepsPairs

\* One row gets the pair d, p, which no other live row has a part of.
LEMMA PairWritten ==
  ASSUME OnePairPerTask, NEW row \in TripIds, NEW d, NEW p,
         trip'[row].deliver = d, trip'[row].pickup = p,
         \A r \in TripIds \ {row} : isLive(r)' =>
           /\ isLive(r) /\ trip'[r].deliver = trip[r].deliver /\ trip'[r].pickup = trip[r].pickup
           /\ trip[r].deliver # d /\ trip[r].pickup # p
  PROVE  OnePairPerTask'
<1> SUFFICES ASSUME NEW r \in TripIds, NEW k \in TripIds, isLive(r)', isLive(k)', r # k
             PROVE  trip'[r].deliver # trip'[k].deliver /\ trip'[r].pickup # trip'[k].pickup
  BY DEF OnePairPerTask
<1>1. CASE r = row
  BY <1>1
<1>2. CASE k = row
  BY <1>2
<1>3. CASE r # row /\ k # row
  BY <1>3 DEF OnePairPerTask
<1> QED BY <1>1, <1>2, <1>3

\* The lookups find the only live row of a delivery, and of a pickup.
LEMMA RowByFinds ==
  ASSUME OnePairPerTask, NEW d, NEW p, NEW r \in TripIds, isLive(r)
  PROVE  /\ trip[r].deliver = d => r = RowByDeliver(d) /\ r # 0
         /\ trip[r].pickup = p => r = RowByPickup(p) /\ r # 0
<1> DEFINE S == {k \in TripIds : isLive(k) /\ trip[k].deliver = d}
           T == {k \in TripIds : isLive(k) /\ trip[k].pickup = p}
<1>1. S \in SUBSET (1 .. MaxTrip) /\ T \in SUBSET (1 .. MaxTrip) /\ MaxTrip \in Nat
  BY BoundsAssumption DEF TripIds
<1>2. r # 0
  BY BoundsAssumption DEF TripIds
<1>3. trip[r].deliver = d => r = Oldest(S)
  <2>1. trip[r].deliver = d => r \in S /\ \A k \in S : k = r
    BY DEF OnePairPerTask
  <2> HIDE DEF S
  <2>2. S # {} => Oldest(S) \in S
    BY <1>1, OldestIsIn
  <2> QED BY <2>1, <2>2
<1>4. trip[r].pickup = p => r = Oldest(T)
  <2>1. trip[r].pickup = p => r \in T /\ \A k \in T : k = r
    BY DEF OnePairPerTask
  <2> HIDE DEF T
  <2>2. T # {} => Oldest(T) \in T
    BY <1>1, OldestIsIn
  <2> QED BY <2>1, <2>2
<1> QED BY <1>2, <1>3, <1>4 DEF RowByDeliver, RowByPickup

\* Expiring rows, under whatever condition.
LEMMA ExpiringKeeps ==
  ASSUME IInv,
         \A r \in TripIds : \/ trip'[r] = trip[r]
                            \/ /\ isLive(r)
                               /\ \E s \in {"EXPIRED", "ACCEPTED", "COMPLETED"} :
                                    trip'[r] = [trip[r] EXCEPT !.status = s]
  PROVE  KeepsPairs
<1> SUFFICES ASSUME NEW r \in TripIds, isLive(r)'
             PROVE  /\ isLive(r) /\ trip'[r].deliver = trip[r].deliver
                    /\ trip'[r].pickup = trip[r].pickup
  BY DEF KeepsPairs
<1>1. CASE trip'[r] = trip[r]
  BY <1>1 DEF isLive
<1>2. ASSUME isLive(r), NEW s, trip'[r] = [trip[r] EXCEPT !.status = s]
      PROVE  /\ isLive(r) /\ trip'[r].deliver = trip[r].deliver
             /\ trip'[r].pickup = trip[r].pickup
  <2>1. trip[r] \in TripRow
    BY DEF IInv, RowsGood, GoodTrip
  <2> QED BY <1>2, <2>1 DEF TripRow
<1> QED BY <1>1, <1>2

LEMMA OtherPairsExpiredKeeps ==
  ASSUME IInv, NEW d, NEW p, trip' = OtherPairsExpired(d, p)
  PROVE  KeepsPairs
BY ExpiringKeeps DEF OtherPairsExpired, isLive

LEMMA RepointPairUnique ==
  ASSUME IInv, OnePairPerTask, NEW w \in Slots, RepointPair(w)
  PROVE  OnePairPerTask'
<1> DEFINE j == job[w]
           row == PairRow(j, "OPEN", trip[j.row].by)
<1>1. j.row \in TripIds
  BY PairShape DEF RepointPair
<1>2. PICK left : Thinned(left) /\ (trip' = left \/ Repointed(j, left))
  BY RepointedTrips
<1>5. CASE trip' = left
  <2>1. ASSUME NEW r \in TripIds, isLive(r)' PROVE isLive(r) /\ trip'[r] = trip[r]
    BY <1>2, <1>5, <2>1 DEF Thinned, isLive, NoTrip
  <2> QED BY <2>1, KeptPairs DEF KeepsPairs
<1> SUFFICES ASSUME Repointed(j, left) PROVE OnePairPerTask'
  BY <1>2, <1>5
<1>6. DOMAIN left = TripIds /\ trip' = [left EXCEPT ![j.row] = row]
  BY <1>2 DEF Thinned, Repointed
<1>3. trip'[j.row].deliver = j.d /\ trip'[j.row].pickup = j.p
  <2>1. row.deliver = j.d /\ row.pickup = j.p
    BY DEF PairRow
  <2> HIDE DEF row
  <2> QED BY <1>1, <1>6, <2>1
<1>4. ASSUME NEW r \in TripIds \ {j.row}, isLive(r)'
      PROVE  /\ isLive(r) /\ trip'[r] = trip[r]
             /\ trip[r].deliver # j.d /\ trip[r].pickup # j.p
  <2>1. trip'[r] = left[r]
    <3> HIDE DEF row
    <3> QED BY <1>1, <1>6
  <2>2. left[r].status \notin {"ABSENT", "DELETED"}
    BY <1>4, <2>1 DEF isLive
  <2> QED BY <2>1, <2>2 DEF Repointed, isLive
<1> HIDE DEF j
<1> QED BY <1>1, <1>3, <1>4, PairWritten

LEMMA CreatePairUnique ==
  ASSUME IInv, OnePairPerTask, NEW w \in Slots, CreatePair(w)
  PROVE  OnePairPerTask'
<1> DEFINE j == job[w]
           row == PairRow(j, "OPEN", NoOp)
<1>1. PICK k \in TripIds : IsNextId(k, trip) /\ trip' = [trip EXCEPT ![k] = row]
  BY DEF CreatePair
<1>2. row.deliver = j.d /\ row.pickup = j.p
  BY DEF PairRow
<1>3. trip'[k].deliver = j.d /\ trip'[k].pickup = j.p
  <2> HIDE DEF row
  <2> QED BY <1>1, <1>2 DEF IInv, RowsGood
<1>4. j.row = 0 /\ j.drop = 0
  BY JobShape DEF CreatePair, IInv, JobsOK, PairJob
<1>5. ASSUME NEW r \in TripIds \ {k}, isLive(r)'
      PROVE  /\ isLive(r) /\ trip'[r] = trip[r]
             /\ trip[r].deliver # j.d /\ trip[r].pickup # j.p
  <2>1. isLive(r) /\ trip'[r] = trip[r]
    <3> HIDE DEF row
    <3> QED BY <1>1, <1>5 DEF isLive
  <2>2. r # 0
    BY BoundsAssumption DEF TripIds
  <2> QED BY <1>4, <2>1, <2>2 DEF CreatePair, CanWritePair, Conflicts
<1> HIDE DEF j, row
<1> QED BY <1>1, <1>3, <1>5, PairWritten

LEMMA JoinTripUnique ==
  ASSUME IInv, OnePairPerTask, NEW w \in Slots, JoinTrip(w)
  PROVE  OnePairPerTask'
<1> DEFINE j   == job[w]
           byD == RowByDeliver(j.d)
           byP == RowByPickup(j.p)
           k   == IF byD # 0 THEN byD ELSE byP
           row == PairRow(j, "ACCEPTED", j.o)
           split == byD # 0 /\ byP # 0 /\ byD # byP
<1>1. CASE trip' = OtherPairsExpired(j.d, j.p)
  BY <1>1, OtherPairsExpiredKeeps, KeptPairs
<1>2. CASE UNCHANGED trip
  BY <1>2 DEF OnePairPerTask, isLive
<1>3. row.deliver = j.d /\ row.pickup = j.p
  BY DEF PairRow
<1>4. ASSUME NEW i \in TripIds, trip' = [trip EXCEPT ![i] = row],
             \A r \in TripIds \ {i} : isLive(r) => r # byD /\ r # byP
      PROVE  OnePairPerTask'
  <2>1. trip'[i].deliver = j.d /\ trip'[i].pickup = j.p
    <3> HIDE DEF row
    <3> QED BY <1>3, <1>4 DEF IInv, RowsGood
  <2>2. ASSUME NEW r \in TripIds \ {i}, isLive(r)'
        PROVE  /\ isLive(r) /\ trip'[r] = trip[r]
               /\ trip[r].deliver # j.d /\ trip[r].pickup # j.p
    <3>1. isLive(r) /\ trip'[r] = trip[r]
      <4> HIDE DEF row
      <4> QED BY <1>4, <2>2 DEF isLive
    <3> QED BY <1>4, <3>1, RowByFinds
  <2> HIDE DEF j, row
  <2> QED BY <2>1, <2>2, PairWritten
<1>5. byD \in TripIds \cup {0} /\ byP \in TripIds \cup {0} /\ 0 \notin TripIds
  BY RowByType, BoundsAssumption DEF TripIds
<1>6. CASE ~ split /\ k # 0 /\ trip' = [trip EXCEPT ![k] = row]
  <2> HIDE DEF row, byD, byP
  <2> QED BY <1>4, <1>5, <1>6
<1>7. ASSUME NEW i \in TripIds, k = 0, trip' = [trip EXCEPT ![i] = row]
      PROVE  OnePairPerTask'
  <2> HIDE DEF row, byD, byP
  <2> QED BY <1>4, <1>5, <1>7
<1> HIDE DEF row, byD, byP
<1> QED BY <1>1, <1>2, <1>6, <1>7 DEF JoinTrip, row, byD, byP

LEMMA StartUpsertKeeps ==
  ASSUME IInv, NEW w, NEW d, NEW p, NEW m, NEW t, NEW then, StartUpsert(w, d, p, m, t, then)
  PROVE  KeepsPairs
BY OtherPairsExpiredKeeps DEF StartUpsert

LEMMA SyncMachineKeeps ==
  ASSUME IInv, NEW w, NEW m, NEW then, SyncMachine(w, m, then)
  PROVE  KeepsPairs
<1>1. CASE UNCHANGED trip
  BY <1>1 DEF KeepsPairs, isLive
<1> QED BY <1>1, StartUpsertKeeps DEF SyncMachine

LEMMA TripStepUnique ==
  ASSUME IInv, OnePairPerTask, NEW w \in Slots, TripStep(w)
  PROVE  OnePairPerTask'
<1>1. CASE RollBackPair(w)
  BY <1>1 DEF RollBackPair, OnePairPerTask, isLive
<1>2. CASE Bind(w)
  <2>1. CASE UNCHANGED trip
    BY <2>1 DEF OnePairPerTask, isLive
  <2> QED BY <1>2, <2>1, StartUpsertKeeps, KeptPairs DEF Bind
<1>3. CASE Sync(w)
  BY <1>3, SyncMachineKeeps, KeptPairs DEF Sync
<1>4. CASE SyncNextMachine(w)
  BY <1>4, SyncMachineKeeps, KeptPairs DEF SyncNextMachine
<1>5. CASE FinishList(w)
  <2>1. CASE trip' = ReconciledTrips(job[w].types)
    BY <2>1, ExpiringKeeps, KeptPairs DEF ReconciledTrips, isLive
  <2>2. CASE UNCHANGED trip
    BY <2>2 DEF OnePairPerTask, isLive
  <2> QED BY <1>5, <2>1, <2>2 DEF FinishList
<1> QED BY <1>1, <1>2, <1>3, <1>4, <1>5, RepointPairUnique, CreatePairUnique DEF TripStep

LEMMA MachineDeskUnique ==
  ASSUME IInv, OnePairPerTask, NEW w \in Slots, MachineRequest(w) \/ MachineStep(w)
  PROVE  OnePairPerTask'
<1>1. CASE JoinTrip(w)
  BY <1>1, JoinTripUnique
<1>2. CASE FinishCancel(w)
  <2>1. \A r \in TripIds :
          \/ trip'[r] = trip[r]
          \/ isLive(r) /\ trip'[r] = [trip[r] EXCEPT !.status = "EXPIRED"]
    BY <1>2 DEF FinishCancel, isLive
  <2> QED BY <2>1, ExpiringKeeps, KeptPairs
<1>3. CASE UNCHANGED trip
  BY <1>3 DEF OnePairPerTask, isLive
<1>4. CASE MachineRequest(w)
  BY <1>3, <1>4 DEF MachineRequest, RequestPickup, BeginRequestBoth, RepairLinks,
                    BeginRequestSupply, BeginCancel
<1>5. CASE MachineStep(w)
  BY <1>1, <1>2, <1>3, <1>5
     DEF MachineStep, ResolveSupply, CreateOrphanSupply, LinkPickup, JoinDelivery,
         CreateSupply, LinkSupply, CreateBoth, ReadCancel
<1> QED BY <1>4, <1>5

LEMMA TransportUnique ==
  ASSUME IInv, OnePairPerTask, NEW w \in Slots, TransportRequest(w) \/ TransportStep(w)
  PROVE  OnePairPerTask'
<1>1. CASE UNCHANGED trip
  BY <1>1 DEF OnePairPerTask, isLive
<1>2. ASSUME NEW o \in Operators, NEW main \in BOOLEAN, BeginList(w, o, main)
      PROVE  OnePairPerTask'
  <2>1. \A r \in TripIds :
          \/ trip'[r] = trip[r]
          \/ isLive(r) /\ trip'[r] = [trip[r] EXCEPT !.status = "EXPIRED"]
    BY <1>2 DEF BeginList, isLive
  <2> QED BY <2>1, ExpiringKeeps, KeptPairs
<1>3. CASE FinishAcceptTrip(w)
  <2> DEFINE k == job[w].r
             o == job[w].o
  <2>1. k \in TripIds
    <3>1. job[w] \in JobSet /\ job[w].kind = "acceptTrip"
      BY <1>3 DEF FinishAcceptTrip, IInv, JobsOK
    <3>2. job[w] \in AcceptJob
      BY <3>1, JobShape
    <3> QED BY <3>1, <3>2 DEF AcceptJob
  <2>2. CASE trip[k].status = "OPEN" /\
             trip' = [trip EXCEPT ![k].status = "ACCEPTED", ![k].by = o]
    <3>1. KeepsPairs
      BY <2>1, <2>2 DEF KeepsPairs, isLive, IInv, RowsGood, GoodTrip, TripRow
    <3> QED BY <3>1, KeptPairs
  <2> QED BY <1>1, <1>3, <2>2 DEF FinishAcceptTrip
<1>4. CASE CloseTrip(w)
  <2> DEFINE k == job[w].r
  <2>1. k \in TripIds
    <3>1. job[w] \in JobSet /\ job[w].kind = "closeTrip"
      BY <1>4 DEF CloseTrip, IInv, JobsOK
    <3>2. job[w] \in AfterwardsJob
      BY <3>1, JobShape
    <3> QED BY <3>1, <3>2 DEF AfterwardsJob
  <2>2. KeepsPairs
    BY <1>4, <2>1 DEF CloseTrip, KeepsPairs, isLive, IInv, RowsGood, GoodTrip, TripRow
  <2> QED BY <2>2, KeptPairs
<1>5. CASE TransportRequest(w)
  BY <1>1, <1>2, <1>5
     DEF TransportRequest, SetMode, BeginClearMode, BeginAcceptDeliver, BeginCompleteDeliver,
         BeginAcceptPickup, BeginCompletePickup, BeginAcceptTrip
<1>6. CASE TransportStep(w)
  BY <1>1, <1>3, <1>4, <1>6
     DEF TransportStep, FinishAcceptDeliver, FinishAcceptPickup, FinishCompleteDeliver,
         ResumeMachine, FinishCompletePickup, FinishClearMode
<1> QED BY <1>5, <1>6

LEMMA NextUnique ==
  ASSUME IInv, OnePairPerTask, [Next]_vars
  PROVE  OnePairPerTask'
<1>1. CASE UNCHANGED trip
  BY <1>1 DEF OnePairPerTask, isLive
<1>2. ASSUME NEW w \in Slots, SupplyRequest(w) \/ SupplyStep(w) \/ Fail(w)
      PROVE  OnePairPerTask'
  BY <1>1, <1>2 DEF SupplyRequest, SupplyStep, Fail, CreateDelivery, BeginEdit, FinishEdit,
                    MarkPrepared, SetProductionStatus
<1> QED BY <1>1, <1>2, TripStepUnique, MachineDeskUnique, TransportUnique DEF Next, vars

\* For any number of rows and interleaved requests, no delivery and no pickup is in
\* two trip suggestions, although a suggestion is written by a transaction that read
\* the other rows before.
THEOREM PairsAreUnique == Spec => []OnePairPerTask
<1>1. Init => OnePairPerTask
  BY DEF Init, OnePairPerTask, isLive, NoTrip
<1>2. IInv /\ OnePairPerTask /\ [Next]_vars => OnePairPerTask'
  BY NextUnique
<1> QED BY <1>1, <1>2, AlwaysIInv, PTL DEF Spec
=============================================================================
