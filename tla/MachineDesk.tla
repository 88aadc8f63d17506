----------------------------- MODULE MachineDesk -----------------------------
(***************************************************************************)
(* operator-machine.service.ts and pickup-supply-link.service.ts: the      *)
(* operator bound to machine m asks for a pickup, for a new pallet or for  *)
(* both, cancels a pickup, and lists the machine's tasks (which repairs    *)
(* missing links).  Who is bound to m is not modelled here.                *)
(***************************************************************************)
EXTENDS TripSuggestions

LinkJob      == [kind: {"link"}, p: PickupIds, m: Machines]
OrphanJob    == [kind: {"orphan"}, p: PickupIds, m: Machines, d: DeliveryIds, dm: Machines]
LinkToJob    == [kind: {"linkTo"}, p: PickupIds, m: Machines, s: SupplyIds,
                 d: DeliveryIds \cup {0}]
JoinJob      == [kind: {"join", "joinPair"}, p: PickupIds, m: Machines, d: DeliveryIds,
                 t: TaskTypes, o: Operators, with: OperatingModes]
NewSupplyJob == [kind: {"newSupply"}, m: Machines]
LinkFromJob  == [kind: {"linkFrom"}, s: SupplyIds, p: PickupIds]
NewPairJob   == [kind: {"newPair"}, m: Machines, t: TaskTypes]
CancelJob    == [kind: {"cancel"}, p: PickupIds, s: SupplyIds \cup {0}]
CancelTxJob  == [kind: {"cancelTx"}, p: PickupIds, s: SupplyIds \cup {0},
                 d: DeliveryIds \cup {0}]

MachineJob == LinkJob \cup OrphanJob \cup LinkToJob \cup JoinJob \cup NewSupplyJob
                \cup LinkFromJob \cup NewPairJob \cup CancelJob \cup CancelTxJob

NewPickup(m, t, s) ==
  [status |-> "CREATED", machine |-> m, type |-> t, link |-> s, op |-> NoOp, with |-> "NONE"]

NewSupply(m, status, d) == [status |-> status, machine |-> m, delivery |-> d]
-----------------------------------------------------------------------------
(* linkNewPickupToEligibleSupplyRequest                                    *)

\* requestPickupOnly creates the pickup and goes on to link it.
RequestPickup(w, m, t) ==
  /\ isFree(w)
  /\ \E p \in PickupIds :
       /\ IsNextId(p, pickup)
       /\ pickup' = [pickup EXCEPT ![p] = NewPickup(m, t, 0)]
       /\ Continue(w, [kind |-> "link", p |-> p, m |-> m])
  /\ UNCHANGED <<delivery, supply, trip, production, mode, seen>>

\* listMachineTasksForOperator: the oldest open pickup without a link, accepted or
\* not, goes the way of a new one.
RepairLinks(w, m) ==
  /\ isFree(w)
  /\ OpenLinkedPickups(m) = {} /\ OpenUnlinkedPickups(m) # {}
  /\ Continue(w, [kind |-> "link", p |-> Oldest(OpenUnlinkedPickups(m)), m |-> m])
  /\ UNCHANGED <<delivery, pickup, supply, trip, production, mode, seen>>

\* The delivery whose request a pickup may join: one that waits (prepared ones
\* first), else one on its way (the last assigned; that order is not kept).
DeliveriesToJoin(m) ==
  LET waiting == {d \in OpenDeliveries(m) :
                    delivery[d].status = "CREATED" /\ delivery[d].op = NoOp}
  IN  IF PreparedPool(m) # {} THEN {Oldest(PreparedPool(m))}
      ELSE IF waiting # {} THEN {Oldest(waiting)}
      ELSE {d \in OpenDeliveries(m) : /\ delivery[d].status = "ASSIGNED"
                                      /\ delivery[d].prepared /\ delivery[d].op # NoOp}

LinkTo(w, p, m, s) ==
  Continue(w, [kind |-> "linkTo", p |-> p, m |-> m, s |-> s, d |-> supply[s].delivery])

\* resolveSupplyForNewPickupLink
ResolveSupply(w) ==
  LET j == job[w] IN
  /\ j.kind = "link"
  /\ \/ /\ OpenLinkedPickups(j.m) # {}
        /\ Continue(w, Idle)
     \/ /\ OpenLinkedPickups(j.m) = {} /\ EligibleUnclaimed(j.m) # {}
        /\ LinkTo(w, j.p, j.m, Oldest(EligibleUnclaimed(j.m)))
     \/ /\ OpenLinkedPickups(j.m) = {} /\ EligibleUnclaimed(j.m) = {}
        /\ DeliveriesToJoin(j.m) = {}
        /\ Continue(w, Idle)
     \/ /\ OpenLinkedPickups(j.m) = {} /\ EligibleUnclaimed(j.m) = {}
        /\ \E d \in DeliveriesToJoin(j.m) :
             \/ /\ SupplyOf(d) = 0
                /\ Continue(w, [kind |-> "orphan", p |-> j.p, m |-> j.m, d |-> d,
                                dm |-> delivery[d].machine])
             \/ /\ SupplyOf(d) # 0 /\ ~ isUnclaimed(SupplyOf(d))
                /\ Continue(w, Idle)
             \/ /\ SupplyOf(d) # 0 /\ isUnclaimed(SupplyOf(d))
                /\ LinkTo(w, j.p, j.m, SupplyOf(d))
  /\ UNCHANGED <<delivery, pickup, supply, trip, production, mode, seen>>

\* ensureFulfilledForOrphanDelivery: a request is made up for a delivery that has
\* none; if it got one meanwhile the unique column makes the create fail.
CreateOrphanSupply(w) ==
  LET j == job[w] IN
  /\ j.kind = "orphan"
  /\ \/ /\ SupplyOf(j.d) # 0
        /\ Continue(w, Idle) /\ UNCHANGED supply
     \/ /\ SupplyOf(j.d) = 0
        /\ \E s \in SupplyIds :
             /\ IsNextId(s, supply)
             /\ supply' = [supply EXCEPT ![s] = NewSupply(j.dm, "FULFILLED", j.d)]
             /\ Continue(w, [kind |-> "linkTo", p |-> j.p, m |-> j.m, s |-> s, d |-> j.d])
  /\ UNCHANGED <<delivery, pickup, trip, production, mode, seen>>

\* clearTerminalPickupLinksForSupply
LinksCleared(s) ==
  [p \in PickupIds |->
     IF pickup[p].link = s /\ pickup[p].status \in {"CANCELED", "COMPLETED"}
     THEN [pickup[p] EXCEPT !.link = 0] ELSE pickup[p]]

\* What is left to do once the pickup is linked, from the delivery as read then.
AfterLink(j) ==
  IF j.d = 0 THEN Idle
  ELSE IF delivery[j.d].status = "CREATED"
  THEN [kind |-> "bind", d |-> j.d, m |-> j.m, t |-> delivery[j.d].type, then |-> Idle]
  ELSE IF delivery[j.d].status = "ASSIGNED" /\ delivery[j.d].op # NoOp
  THEN [kind |-> "join", p |-> j.p, m |-> j.m, d |-> j.d, t |-> delivery[j.d].type,
        o |-> delivery[j.d].op, with |-> delivery[j.d].with]
  ELSE Idle

\* The link is written unless another pickup has it (P2002: "not linked").
LinkPickup(w) ==
  LET j == job[w]
      cleared == LinksCleared(j.s)
      taken == \E p \in PickupIds \ {j.p} : cleared[p].link = j.s
  IN  /\ j.kind = "linkTo"
      /\ pickup' = IF taken THEN cleared ELSE [cleared EXCEPT ![j.p].link = j.s]
      /\ Continue(w, IF taken THEN Idle ELSE AfterLink(j))
      /\ UNCHANGED <<delivery, supply, trip, production, mode, seen>>

\* The delivery was on its way: the pickup becomes its operator's, whatever the
\* pickup has become since it was read.
JoinDelivery(w) ==
  LET j == job[w] IN
  /\ j.kind = "join"
  /\ pickup' = [pickup EXCEPT ![j.p].status = "ASSIGNED", ![j.p].op = j.o,
                              ![j.p].with = j.with]
  /\ Continue(w, [j EXCEPT !.kind = "joinPair"])
  /\ UNCHANGED <<delivery, supply, trip, production, mode, seen>>

\* upsertAcceptedPair: a completed row stays; an accepted row of the pickup with
\* another delivery stays; any other foreign row of the pickup makes the update of
\* the delivery's row fail on the unique column.
JoinTrip(w) ==
  LET j   == job[w]
      byD == RowByDeliver(j.d)
      byP == RowByPickup(j.p)
      row == IF byD # 0 THEN byD ELSE byP
      done(r) == r # 0 /\ trip[r].status = "COMPLETED"
      split == byD # 0 /\ byP # 0 /\ byD # byP
  IN  /\ j.kind = "joinPair"
      /\ \/ /\ done(byD) \/ done(byP) \/ (split /\ trip[byP].status = "ACCEPTED")
            /\ trip' = OtherPairsExpired(j.d, j.p)
         \/ /\ ~ done(byD) /\ split /\ trip[byP].status \in {"OPEN", "EXPIRED"}
            /\ UNCHANGED trip
         \/ /\ ~ done(byD) /\ ~ done(byP) /\ ~ split /\ row # 0
            /\ trip' = [trip EXCEPT ![row] = PairRow(j, "ACCEPTED", j.o)]
         \/ /\ row = 0
            /\ \E r \in TripIds : /\ IsNextId(r, trip)
                                  /\ trip' = [trip EXCEPT ![r] = PairRow(j, "ACCEPTED", j.o)]
      /\ Continue(w, Idle)
      /\ UNCHANGED <<delivery, pickup, supply, production, mode, seen>>
-----------------------------------------------------------------------------
(* Requests for a pallet.                                                  *)

\* Faulty: does not look for an open delivery.
FaultyBeginRequestSupply(w, m) ==
  /\ isFree(w)
  /\ OpenSupplies(m) = {}
  /\ Continue(w, [kind |-> "newSupply", m |-> m])
  /\ UNCHANGED <<delivery, pickup, supply, trip, production, mode, seen>>

\* requestSupplyOnly: refused while a delivery is open; an OPEN request is returned
\* as it is; else one is created ...
BeginRequestSupply(w, m) ==
  /\ isFree(w)
  /\ OpenDeliveries(m) = {} /\ OpenSupplies(m) = {}
  /\ Continue(w, [kind |-> "newSupply", m |-> m])
  /\ UNCHANGED <<delivery, pickup, supply, trip, production, mode, seen>>

\* ... and linked to the oldest open pickup without a link (linkNewSupplyRequest-
\* ToEligiblePickup).
CreateSupply(w) ==
  LET m == job[w].m IN
  /\ job[w].kind = "newSupply"
  /\ \E s \in SupplyIds :
       /\ IsNextId(s, supply)
       /\ supply' = [supply EXCEPT ![s] = NewSupply(m, "OPEN", 0)]
       /\ Continue(w, IF OpenUnlinkedPickups(m) = {} THEN Idle
                      ELSE [kind |-> "linkFrom", s |-> s, p |-> Oldest(OpenUnlinkedPickups(m))])
  /\ UNCHANGED <<delivery, pickup, trip, production, mode, seen>>

LinkSupply(w) ==
  LET j == job[w] IN
  /\ j.kind = "linkFrom"
  /\ pickup' = IF \E p \in PickupIds \ {j.p} : pickup[p].link = j.s
               THEN pickup ELSE [pickup EXCEPT ![j.p].link = j.s]
  /\ Continue(w, Idle)
  /\ UNCHANGED <<delivery, supply, trip, production, mode, seen>>

\* requestPickupWithReplenishment: refused while a delivery is open or a request is
\* eligible and unclaimed; else both rows are created in one transaction.
BeginRequestBoth(w, m, t) ==
  /\ isFree(w)
  /\ OpenDeliveries(m) = {} /\ EligibleUnclaimed(m) = {}
  /\ Continue(w, [kind |-> "newPair", m |-> m, t |-> t])
  /\ UNCHANGED <<delivery, pickup, supply, trip, production, mode, seen>>

CreateBoth(w) ==
  LET j == job[w] IN
  /\ j.kind = "newPair"
  /\ \E s \in SupplyIds, p \in PickupIds :
       /\ IsNextId(s, supply) /\ IsNextId(p, pickup)
       /\ supply' = [supply EXCEPT ![s] = NewSupply(j.m, "OPEN", 0)]
       /\ pickup' = [pickup EXCEPT ![p] = NewPickup(j.m, j.t, s)]
  /\ Continue(w, Idle)
  /\ UNCHANGED <<delivery, trip, production, mode, seen>>
-----------------------------------------------------------------------------
(* cancelPickupRequestByOperator                                           *)

\* The linked pallet is ready and waits for transport.
LinkedPalletWaits(p) ==
  LET d == IF pickup[p].link = 0 THEN 0 ELSE supply[pickup[p].link].delivery
  IN  d # 0 /\ delivery[d].status = "CREATED" /\ delivery[d].prepared

\* Faulty: forgets that only a waiting pickup can be cancelled.
FaultyBeginCancel(w, p) ==
  /\ isFree(w)
  /\ pickup[p].status # "ABSENT" /\ ~ LinkedPalletWaits(p)
  /\ Continue(w, [kind |-> "cancel", p |-> p, s |-> pickup[p].link])
  /\ UNCHANGED <<delivery, pickup, supply, trip, production, mode, seen>>

BeginCancel(w, p) ==
  /\ isFree(w)
  /\ pickup[p].status = "CREATED" /\ ~ LinkedPalletWaits(p)
  /\ Continue(w, [kind |-> "cancel", p |-> p, s |-> pickup[p].link])
  /\ UNCHANGED <<delivery, pickup, supply, trip, production, mode, seen>>

\* Faulty: any open delivery may be discarded.
FaultyCancelableDelivery(d) == d # 0 /\ delivery[d].status \in OpenStatus

isCancelableDelivery(d) ==
  d # 0 /\ delivery[d].status = "CREATED" /\ delivery[d].op = NoOp /\ ~ delivery[d].prepared

\* Faulty: leaves the request of a cancelled delivery FULFILLED.
FaultyReadCancel(w) ==
  LET j == job[w]
      d == IF j.s # 0 /\ supply[j.s].status = "FULFILLED" THEN supply[j.s].delivery ELSE 0
  IN  /\ j.kind = "cancel"
      /\ Continue(w, [kind |-> "cancelTx", p |-> j.p,
                      s |-> IF j.s # 0 /\ supply[j.s].status = "OPEN" THEN j.s ELSE 0,
                      d |-> IF isCancelableDelivery(d) THEN d ELSE 0])
      /\ UNCHANGED <<delivery, pickup, supply, trip, production, mode, seen>>

\* The reads of the transaction: which request and which delivery go with the
\* pickup (0: none).
ReadCancel(w) ==
  LET j == job[w]
      d == IF j.s # 0 /\ supply[j.s].status = "FULFILLED" THEN supply[j.s].delivery ELSE 0
      goes == j.s # 0 /\ (supply[j.s].status = "OPEN" \/ isCancelableDelivery(d))
  IN  /\ j.kind = "cancel"
      /\ Continue(w, [kind |-> "cancelTx", p |-> j.p, s |-> IF goes THEN j.s ELSE 0,
                      d |-> IF isCancelableDelivery(d) THEN d ELSE 0])
      /\ UNCHANGED <<delivery, pickup, supply, trip, production, mode, seen>>

FinishCancel(w) ==
  LET j == job[w] IN
  /\ j.kind = "cancelTx"
  /\ trip' = [r \in TripIds |->
                IF trip[r].status = "OPEN" /\ trip[r].pickup = j.p
                THEN [trip[r] EXCEPT !.status = "EXPIRED"] ELSE trip[r]]
  /\ supply' = IF j.s = 0 THEN supply ELSE [supply EXCEPT ![j.s].status = "CANCELLED"]
  /\ delivery' = IF j.d = 0 THEN delivery ELSE [delivery EXCEPT ![j.d].status = "CANCELED"]
  /\ pickup' = [pickup EXCEPT ![j.p].status = "CANCELED", ![j.p].link = 0]
  /\ Continue(w, Idle)
  /\ UNCHANGED <<production, mode, seen>>
-----------------------------------------------------------------------------
MachineRequest(w) ==
  \/ \E m \in Machines, t \in TaskTypes : RequestPickup(w, m, t) \/ BeginRequestBoth(w, m, t)
  \/ \E m \in Machines : RepairLinks(w, m) \/ BeginRequestSupply(w, m)
  \/ \E p \in PickupIds : BeginCancel(w, p)

MachineStep(w) ==
  \/ ResolveSupply(w) \/ CreateOrphanSupply(w) \/ LinkPickup(w)
  \/ JoinDelivery(w) \/ JoinTrip(w)
  \/ CreateSupply(w) \/ LinkSupply(w) \/ CreateBoth(w)
  \/ ReadCancel(w) \/ FinishCancel(w)
=============================================================================
