--------------------------- MODULE TripSuggestions ---------------------------
(***************************************************************************)
(* trip-suggestion-sync.service.ts and the transactions of                 *)
(* moviment-pallet-trip-suggestion.repository.ts: the combined trips       *)
(* "deliver this pallet and take that one away" kept for one machine, and  *)
(* the listings, which repair them before they answer.                     *)
(***************************************************************************)
EXTENDS ForkTables

isLive(r)     == trip[r].status \notin {"ABSENT", "DELETED"}
isTerminal(r) == trip[r].status \in {"ACCEPTED", "COMPLETED"}

\* findUnique by deliverTaskId and by pickupTaskId; 0 when there is no row.
RowByDeliver(d) == Oldest({r \in TripIds : isLive(r) /\ trip[r].deliver = d})
RowByPickup(p)  == Oldest({r \in TripIds : isLive(r) /\ trip[r].pickup = p})

-----------------------------------------------------------------------------
(* What is left of a request: the rest of a listing, of a synchronisation, *)
(* of a binding, or the writes of upsertOpenPair.                          *)

ListJob == [kind: {"list"}, types: SUBSET TaskTypes, main: BOOLEAN, left: SUBSET Machines]
SyncJob == [kind: {"sync"}, m: Machines]
BindJob == [kind: {"bind"}, d: DeliveryIds, m: Machines, t: TaskTypes,
            then: SyncJob \cup {Idle}]
\* A row is dropped only when another one is kept.
PairJob == {j \in [kind: {"pair"}, d: DeliveryIds, p: PickupIds, m: Machines, t: TaskTypes,
                   row: TripIds \cup {0}, drop: TripIds \cup {0},
                   then: ListJob \cup SyncJob \cup {Idle}] : j.row = 0 => j.drop = 0}

TripJob == ListJob \cup SyncJob \cup BindJob \cup PairJob
-----------------------------------------------------------------------------
(* upsertOpenPair(d, p): one transaction, at READ COMMITTED two steps.     *)

OtherPairsExpired(d, p) ==
  [r \in TripIds |->
     IF trip[r].status = "OPEN" /\ trip[r].pickup = p /\ trip[r].deliver # d
     THEN [trip[r] EXCEPT !.status = "EXPIRED"] ELSE trip[r]]

\* Expires the other pairs of the pickup, reads the rows of the delivery and of
\* the pickup and decides.  An accepted or completed row is left alone.
StartUpsert(w, d, p, m, t, then) ==
  LET byD  == RowByDeliver(d)
      byP  == RowByPickup(p)
      stop == (byD # 0 /\ isTerminal(byD)) \/ (byP # 0 /\ isTerminal(byP))
  IN  /\ trip' = OtherPairsExpired(d, p)
      /\ Continue(w, IF stop THEN then
                     ELSE [kind |-> "pair", d |-> d, p |-> p, m |-> m, t |-> t,
                           row  |-> IF byD # 0 THEN byD ELSE byP,
                           drop |-> IF byD # 0 /\ byP # 0 /\ byD # byP THEN byP ELSE 0,
                           then |-> then])

Without(rows) ==
  [r \in TripIds |->
     IF r \in rows THEN [NoTrip EXCEPT !.status = "DELETED"] ELSE trip[r]]

\* The rows that the writes by id name are still there (P2025 otherwise).
RowsThere(j) ==
  /\ j.row  # 0 => isLive(j.row)
  /\ j.drop # 0 => isLive(j.drop)

\* Rows that came to hold the delivery or the pickup since they were read.
Conflicts(j) ==
  {r \in TripIds \ {j.row, j.drop} :
     isLive(r) /\ (trip[r].deliver = j.d \/ trip[r].pickup = j.p)}

\* Faulty: without the unique columns on the delivery and on the pickup.
FaultyCanWritePair(j) == RowsThere(j)

\* Another row that holds the delivery or the pickup fails the write (P2002).
CanWritePair(j) == RowsThere(j) /\ Conflicts(j) = {}

PairRow(j, status, by) ==
  [status |-> status, deliver |-> j.d, pickup |-> j.p, machine |-> j.m,
   type |-> j.t, by |-> by]

\* The row that was found becomes (again) the OPEN row of this pair, whatever it
\* has become since it was read.  Rows in its way are deleted, one after the other, but
\* at an accepted or completed one the pair is given up without an error.
RepointPair(w) ==
  LET j == job[w]
      final == {r \in Conflicts(j) : isTerminal(r)}
  IN  /\ j.kind = "pair" /\ j.row # 0 /\ RowsThere(j)
      /\ \E gone \in SUBSET (Conflicts(j) \ final) :
           LET left == Without(gone \cup {j.drop}) IN
           IF final # {} THEN trip' = left
           ELSE /\ gone = Conflicts(j)
                /\ trip' = [left EXCEPT ![j.row] = PairRow(j, "OPEN", trip[j.row].by)]
      /\ Continue(w, j.then)
      /\ UNCHANGED <<delivery, pickup, supply, production, mode, seen>>

CreatePair(w) ==
  LET j == job[w] IN
  /\ j.kind = "pair" /\ j.row = 0 /\ CanWritePair(j)
  /\ \E r \in TripIds :
       /\ IsNextId(r, trip)
       /\ trip' = [trip EXCEPT ![r] = PairRow(j, "OPEN", NoOp)]
  /\ Continue(w, j.then)
  /\ UNCHANGED <<delivery, pickup, supply, production, mode, seen>>

\* A row is gone, or another request was faster (for an update, after the look at what
\* is in its way): the transaction rolls back and the request ends with an error.
RollBackPair(w) ==
  /\ job[w].kind = "pair" /\ ~ CanWritePair(job[w])
  /\ Continue(w, Idle)
  /\ UNCHANGED <<delivery, pickup, supply, trip, production, mode, seen>>
-----------------------------------------------------------------------------
(* syncTripSuggestionPairForMachine and bindLinkedPickupToDelivery.        *)

\* The pair that the foreign keys of the machine's oldest linked pickup name.
isSyncPair(m, d, p) ==
  /\ p = Oldest(OpenLinkedPickups(m))
  /\ pickup[p].status = "CREATED"
  /\ d = supply[pickup[p].link].delivery
  /\ delivery[d].status = "CREATED"

SyncMachine(w, m, then) ==
  \/ \E d \in DeliveryIds, p \in PickupIds :
       isSyncPair(m, d, p) /\ StartUpsert(w, d, p, m, delivery[d].type, then)
  \/ /\ ~ \E d \in DeliveryIds, p \in PickupIds : isSyncPair(m, d, p)
     /\ Continue(w, then) /\ UNCHANGED trip

\* Faulty: any waiting pickup of the delivery's machine.
FaultyBoundPickup(d, p) ==
  pickup[p].status = "CREATED" /\ pickup[p].machine = delivery[d].machine

\* The pickup linked to the supply request of the delivery.
isBoundPickup(d, p) ==
  /\ SupplyOf(d) # 0
  /\ p = LinkedPickup(SupplyOf(d))
  /\ pickup[p].status = "CREATED"

Bind(w) ==
  LET j == job[w] IN
  /\ j.kind = "bind"
  /\ \/ \E p \in PickupIds :
          isBoundPickup(j.d, p) /\ StartUpsert(w, j.d, p, j.m, j.t, j.then)
     \/ /\ ~ \E p \in PickupIds : isBoundPickup(j.d, p)
        /\ Continue(w, j.then) /\ UNCHANGED trip
  /\ UNCHANGED <<delivery, pickup, supply, production, mode, seen>>

Sync(w) ==
  /\ job[w].kind = "sync"
  /\ SyncMachine(w, job[w].m, Idle)
  /\ UNCHANGED <<delivery, pickup, supply, production, mode, seen>>
-----------------------------------------------------------------------------
(* The transporter's two listings: trip suggestions (main) and the manual  *)
(* queue.  Both first expire stale pairs and synchronise the machines that *)
(* have a linked pickup; the main one also closes finished trips.          *)

isStalePair(r) ==
  \/ delivery[trip[r].deliver].status \in {"CANCELED", "COMPLETED"}
  \/ delivery[trip[r].deliver].op # NoOp
  \/ pickup[trip[r].pickup].status # "CREATED"

BeginList(w, o, main) ==
  LET types == openPoolTypesForOperatingMode(mode[o]) IN
  /\ isFree(w) /\ mode[o] # "NONE"
  /\ trip' = [r \in TripIds |->
                IF trip[r].status = "OPEN" /\ trip[r].type \in types /\ isStalePair(r)
                THEN [trip[r] EXCEPT !.status = "EXPIRED"] ELSE trip[r]]
  /\ Continue(w, [kind |-> "list", types |-> types, main |-> main,
                  left |-> {m \in Machines :
                              \E p \in OpenLinkedPickups(m) : pickup[p].type \in types}])
  /\ UNCHANGED <<delivery, pickup, supply, production, mode, seen>>

SyncNextMachine(w) ==
  /\ job[w].kind = "list"
  /\ \E m \in job[w].left : SyncMachine(w, m, [job[w] EXCEPT !.left = @ \ {m}])
  /\ UNCHANGED <<delivery, pickup, supply, production, mode, seen>>

\* OPEN rows whose two tasks can still be done as one trip.
ValidPairs(types) ==
  {r \in TripIds : /\ trip[r].status = "OPEN" /\ trip[r].type \in types
                   /\ isOpenTripTaskPairValid(trip[r].deliver, trip[r].pickup)}

VisibleTrips(types) ==
  {r \in ValidPairs(types) : ~ isMachineDeliveryBlockedFromTransportQueue(trip[r].machine)}

\* Standalone tasks: the main screen shows the critical and preferred ones (and
\* one of the others when it would be empty), the manual queue shows the others.
\* What makes a task critical or preferred is left out: any may be on either.
VisibleDeliveries(types) ==
  {d \in DeliveryIds : /\ delivery[d].type \in types
                       /\ d \in PreparedPool(delivery[d].machine)
                       /\ ~ isMachineDeliveryBlockedFromTransportQueue(delivery[d].machine)
                       /\ \A r \in ValidPairs(types) : trip[r].deliver # d}

VisiblePickups(types) ==
  {p \in PickupIds : /\ pickup[p].status = "CREATED" /\ pickup[p].type \in types
                     /\ pickup[p].op = NoOp /\ pickup[p].link = 0
                     /\ \A r \in ValidPairs(types) : trip[r].pickup # p}

ReconciledTrips(types) ==
  [r \in TripIds |->
     IF /\ trip[r].status = "ACCEPTED" /\ trip[r].type \in types
        /\ delivery[trip[r].deliver].status = "COMPLETED"
        /\ pickup[trip[r].pickup].status = "COMPLETED"
     THEN [trip[r] EXCEPT !.status = "COMPLETED"] ELSE trip[r]]

FinishList(w) ==
  LET j == job[w] IN
  /\ j.kind = "list" /\ j.left = {}
  /\ trip' = IF j.main THEN ReconciledTrips(j.types) ELSE trip
  /\ seen' = [deliver |-> seen.deliver \cup VisibleDeliveries(j.types),
              pickup  |-> seen.pickup \cup VisiblePickups(j.types),
              trip    |-> seen.trip \cup (IF j.main THEN VisibleTrips(j.types) ELSE {})]
  /\ Continue(w, Idle)
  /\ UNCHANGED <<delivery, pickup, supply, production, mode>>

TripStep(w) ==
  \/ RepointPair(w) \/ CreatePair(w) \/ RollBackPair(w)
  \/ Bind(w) \/ Sync(w) \/ SyncNextMachine(w) \/ FinishList(w)
=============================================================================
