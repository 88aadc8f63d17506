------------------------------- MODULE Realtime -------------------------------
(***************************************************************************)
(* One device and the server: the requests of others change what the       *)
(* device's screen shows, the hub announces the changes over a WebSocket,  *)
(* and the screen fetches again when it hears of one, when its socket      *)
(* comes back, when it polls, or when its user looks again.                *)
(* (register-operator-moviment-pallet-ws.ts, operator-moviment-pallet-     *)
(* ws.hub.ts, OperatorMovimentWorkProvider.tsx, network-resync.ts)         *)
(***************************************************************************)
EXTENDS Announcements, FiniteSets, Integers

CONSTANTS
  Roles,          \* the roles the device's user may have
  AllowedTypes,   \* what the equipment of a transporter carries
  Watched,        \* the queries that are looked at
  Served,         \* the requests that others may send
  Slots,          \* requests in execution at a time
  NumSockets,     \* sockets that are not yet gone from both ends
  MaxRequests, MaxFaults, MaxReruns   \* bounds

ASSUME SocketsExist == NumSockets \in Nat \ {0}
\* Others send requests of the services only.
ASSUME ServedAreRequests == Served \subseteq Requests
ASSUME RolesAreApp == Roles \subseteq AppRoles

VARIABLES
  me,        \* the device's user, as the hub and the front-end know them
  db,        \* per query: how often its answer has changed
  request,   \* per slot: the steps left, and the version of the row it read last
  link,      \* per socket: none, up, down (the server may not know it yet)
  hub,       \* per socket: none, checking (token, user and machine are read), registered
  wire,      \* per socket: the events sent and not received
  sock,      \* per socket, at the device: free, connecting, open, closing
  owner,     \* per socket: the run of the effect that made it; 0: its onclose was removed
  run,       \* the current run of the effect
  wsRef, resyncAfterOpen, timer,    \* the refs of the provider: 0 is null
  view,      \* per query: the version shown, -1 before the first answer
  fetch,     \* per query: IDLE, SENT, or the version in the answer on its way
  debounce,  \* per query: an invalidation waits for its 50 ms
  lapse,     \* per query (history): something was missed since the last fetch was sent
  spent      \* requests, faults and reruns so far

device == <<view, fetch, debounce, lapse>>
client == <<sock, owner, run, wsRef, resyncAfterOpen, timer>>
server == <<db, request, hub>>
vars == <<me, server, link, wire, client, device, spent>>

Sockets == 1..NumSockets
IDLE == -2
SENT == -1

QueriesOf(role) ==
  Watched \cap CASE role = "PALLET_TRANSPORTER" -> QueuesOfTransport \cup {"my-tasks"}
                 [] role = "OPERATOR_MACHINE"   -> {"machine-tasks"}
                 [] OTHER                       -> {"replenishment-requests"}

\* refetchInterval: 60, 45, and 3 to 5 seconds.  The main screen and the desk's lists
\* have none.
Polled == {"replenishment-queue", "my-tasks", "machine-tasks"}

deviceOf(role) ==
  [user |-> IF role = "OPERATOR_MACHINE" THEN ItsOperator ELSE "somebody",
   role |-> role, sector |-> ThisSector,
   machine |-> IF role = "OPERATOR_MACHINE" THEN ThisMachine ELSE NONE,
   types |-> IF role = "PALLET_TRANSPORTER" THEN AllowedTypes ELSE {}]

isMine(q) == q \in QueriesOf(me.role)

Spend(what) == spent' = [spent EXCEPT ![what] = @ + 1]
MayFail == spent.faults < MaxFaults
-----------------------------------------------------------------------------
(* What an event does to the queries.                                      *)

QueueEvents == {"delivery_queue_updated", "trip_suggestions_updated",
                "machine_production_status_updated"}

shouldInvalidateTripSuggestions(e) ==
  \/ e.type \in {"trip_suggestions_updated", "delivery_task_created",
                 "machine_production_status_updated"}
  \/ e.type \in TaskUpdated /\ e.status # "CANCELED"

shouldInvalidateReplenishmentQueue(e) == e.type \in TaskUpdated \cup QueueEvents

shouldInvalidateMyMovimentTasks(e) == e.type \in TaskUpdated

shouldInvalidateSupplyReplenishmentPage(e) ==
  e.type \in SUPPLY_REPLENISHMENT_EVENT_TYPES

\* Queries to fetch again after 50 ms without another such event.
InvalidatedLater(e) ==
  IF isMovimentOperator(me)
  THEN {q \in {"trip-suggestions"} : shouldInvalidateTripSuggestions(e)}
       \cup {q \in {"replenishment-queue"} : shouldInvalidateReplenishmentQueue(e)}
  ELSE {q \in {"replenishment-requests"} : shouldInvalidateSupplyReplenishmentPage(e)}

\* Queries to fetch again now; the desk fetches everything at every event.
InvalidatedNow(e) ==
  CASE isMovimentOperator(me) -> {q \in {"my-tasks"} : shouldInvalidateMyMovimentTasks(e)}
    [] isMachineOperator(me)  -> {q \in {"machine-tasks"} : e.type = "machine_operator_updated"}
    [] OTHER                  -> {"replenishment-requests"}

\* The machine's list takes the status out of the event.
Patched(e) == {q \in {"machine-tasks"} : isMachineOperator(me) /\ e.type \in TaskUpdated}

Concerned(e) ==
  IF wsEventMatchesSubscriber(e, wsContext(me))
  THEN (InvalidatedLater(e) \cup InvalidatedNow(e) \cup Patched(e)) \cap QueriesOf(me.role)
  ELSE {}

ConcernedBy(events) == UNION {Concerned(events[i].event) : i \in DOMAIN events}

\* Faulty: an answer on its way is awaited.
FaultyRefetched(qs) ==
  [q \in Queries |-> IF q \in qs /\ fetch[q] = IDLE THEN SENT ELSE fetch[q]]

\* invalidateQueries: an answer on its way is dropped and the query is fetched anew;
\* but the very first fetch is joined instead.
Refetched(qs) ==
  [q \in Queries |-> IF q \in qs /\ ~ (view[q] = -1 /\ fetch[q] # IDLE) THEN SENT ELSE fetch[q]]

Missed(qs) == [q \in Queries |-> lapse[q] \/ q \in qs]

\* A fetch sent now makes up for what was missed; a fetch that is joined does not.
LapseAfter(qs, missed) ==
  [q \in Queries |->
     IF q \in qs THEN view[q] = -1 /\ fetch[q] # IDLE ELSE lapse[q] \/ q \in missed]
-----------------------------------------------------------------------------
(* The server: requests and the hub.                                       *)

\* The queries of the device whose answer a write may change.
Touched(step) ==
  {q \in step.queries \cap QueriesOf(me.role) :
     q \in QueuesOfTransport \cup {"my-tasks"} => step.types \cap AllowedTypes # {}}

\* Steps that follow a write and tell the device about it.
WillHear(steps) ==
  UNION {UNION {IF shouldSendToClient(me, steps[i].events[k])
                THEN Concerned(steps[i].events[k]) ELSE {} : k \in DOMAIN steps[i].events}
         : i \in {i \in DOMAIN steps : steps[i].do = "tell"}}

Begin(w, r) ==
  /\ request[w].steps = << >> /\ spent.requests < MaxRequests
  /\ request' = [request EXCEPT ![w].steps = r]
  /\ Spend("requests")
  /\ UNCHANGED <<me, db, hub, link, wire, client, device>>

Write(w) ==
  LET steps == request[w].steps IN
  /\ steps # << >> /\ Head(steps).do = "write"
  /\ LET touched == Touched(Head(steps))
         now == [q \in Queries |-> IF q \in touched THEN db[q] + 1 ELSE db[q]]
     IN  /\ db' = now
         /\ request' = [request EXCEPT ![w] = [steps |-> Tail(steps), row |-> now["machine-tasks"]]]
         /\ lapse' = Missed(touched \ WillHear(Tail(steps)))
  /\ UNCHANGED <<me, hub, link, wire, client, view, fetch, debounce, spent>>

isReached(s) == hub[s] = "registered" /\ link[s] = "up"

\* The numbers of the events that concern the device, and the k-th of them.
MeantAt(events) == {i \in DOMAIN events : shouldSendToClient(me, events[i])}
NthOf(at, k)    == CHOOSE i \in at : Cardinality({j \in at : j <= i}) = k

Broadcast(w) ==
  LET steps == request[w].steps IN
  /\ steps # << >> /\ Head(steps).do = "tell"
  /\ \E at \in {MeantAt(Head(steps).events)} :
       LET meant == [k \in 1..Cardinality(at) |-> Head(steps).events[NthOf(at, k)]]
           sent  == [k \in DOMAIN meant |-> [event |-> meant[k], row |-> request[w].row]]
       IN  /\ wire' = [s \in Sockets |-> IF isReached(s) THEN wire[s] \o sent ELSE wire[s]]
           /\ lapse' = IF \E s \in Sockets : isReached(s)
                       THEN lapse ELSE Missed(ConcernedBy(sent))
  /\ request' = [request EXCEPT ![w].steps = Tail(steps)]
  /\ UNCHANGED <<me, db, hub, link, client, view, fetch, debounce, spent>>

\* The request throws after a write (all is lost that it would have told).
Die(w) ==
  /\ request[w].steps # << >> /\ MayFail
  /\ lapse' = Missed(WillHear(request[w].steps))
  /\ request' = [request EXCEPT ![w].steps = << >>]
  /\ Spend("faults")
  /\ UNCHANGED <<me, db, hub, link, wire, client, view, fetch, debounce>>

\* The handshake is answered, and the handler starts to read the user.
Upgrade(s) ==
  /\ sock[s] \in {"connecting", "closing"} /\ link[s] = "none" /\ hub[s] = "none"
  /\ link' = [link EXCEPT ![s] = "up"]
  /\ hub' = [hub EXCEPT ![s] = "checking"]
  /\ UNCHANGED <<me, db, request, wire, client, device, spent>>

\* When the socket closed meanwhile nobody listens to its close event: the client
\* stays in the hub's set for good, where nothing is sent to it.
Register(s) ==
  /\ hub[s] = "checking"
  /\ hub' = [hub EXCEPT ![s] = IF link[s] = "up" THEN "registered" ELSE "none"]
  /\ UNCHANGED <<me, db, request, link, wire, client, device, spent>>

\* A read fails: the server closes the socket.
Refuse(s) ==
  /\ hub[s] = "checking" /\ MayFail
  /\ hub' = [hub EXCEPT ![s] = "none"]
  /\ link' = [link EXCEPT ![s] = "down"]
  /\ Spend("faults")
  /\ UNCHANGED <<me, db, request, wire, client, device>>

\* The hub learns that a socket closed.
ClientGone(s) ==
  /\ hub[s] = "registered" /\ link[s] = "down"
  /\ hub' = [hub EXCEPT ![s] = "none"]
  /\ UNCHANGED <<me, db, request, link, wire, client, device, spent>>
-----------------------------------------------------------------------------
(* The network.                                                            *)

\* The connection breaks down, with all that is on its way.
Cut(s) ==
  /\ sock[s] \in {"connecting", "open"} /\ link[s] # "down" /\ MayFail
  /\ link' = [link EXCEPT ![s] = "down"]
  /\ wire' = [wire EXCEPT ![s] = << >>]
  /\ lapse' = Missed(ConcernedBy(wire[s]))
  /\ Spend("faults")
  /\ UNCHANGED <<me, server, client, view, fetch, debounce>>

\* The closing handshake; what still arrives at a socket that closes is ignored.
CloseHandshake(s) ==
  /\ sock[s] = "closing" /\ link[s] = "up"
  /\ link' = [link EXCEPT ![s] = "down"]
  /\ wire' = [wire EXCEPT ![s] = << >>]
  /\ lapse' = Missed(ConcernedBy(wire[s]))
  /\ UNCHANGED <<me, server, client, view, fetch, debounce, spent>>
-----------------------------------------------------------------------------
(* The provider's socket.                                                  *)

isUnused(s) == sock[s] = "free" /\ hub[s] = "none"
SomeUnused == \E s \in Sockets : isUnused(s)
NextSocket == CHOOSE s \in Sockets : isUnused(s)

\* Faulty: asks the ref instead of the closure.
FaultyIsCancelled(s) == wsRef # s

isCancelled(s) == owner[s] # run

\* connect() of the effect's run r, after the socket in `closed` (if any) was closed.
Connect(r, closed, ownerThen) ==
  LET s == NextSocket IN
  /\ SomeUnused
  /\ sock' = [k \in Sockets |-> IF k = s THEN "connecting"
                                 ELSE IF k = closed THEN "closing" ELSE sock[k]]
  /\ owner' = [ownerThen EXCEPT ![s] = r]
  /\ wsRef' = s
  /\ link' = [link EXCEPT ![s] = "none"]

\* onopen.  The first connection of all does not fetch again.
Opened(s) ==
  /\ sock[s] = "connecting" /\ link[s] = "up"
  /\ sock' = [sock EXCEPT ![s] = "open"]
  /\ IF ~ isCancelled(s) /\ resyncAfterOpen
     THEN /\ resyncAfterOpen' = FALSE
          /\ fetch' = Refetched(QueriesOf(me.role))
          /\ lapse' = LapseAfter(QueriesOf(me.role), {})
     ELSE UNCHANGED <<resyncAfterOpen, fetch, lapse>>
  /\ UNCHANGED <<me, server, link, wire, owner, run, wsRef, timer, view, debounce, spent>>

\* onmessage, which does not ask whether its effect was cancelled.
Receive(s) ==
  /\ sock[s] = "open" /\ link[s] = "up" /\ wire[s] # << >>
  /\ wire' = [wire EXCEPT ![s] = Tail(@)]
  /\ LET e     == Head(wire[s]).event
         hit   == Concerned(e)
         patch == {q \in Patched(e) \cap hit : view[q] \notin {-1, Head(wire[s]).row}}
         now   == hit \cap (InvalidatedNow(e) \cup (Patched(e) \ patch))
     IN  /\ view' = [q \in Queries |-> IF q \in patch THEN Head(wire[s]).row ELSE view[q]]
         /\ debounce' = [q \in Queries |-> debounce[q] \/ q \in hit \cap InvalidatedLater(e)]
         /\ fetch' = Refetched(now)
         /\ lapse' = LapseAfter(now, {})
  /\ UNCHANGED <<me, server, link, client, spent>>

\* onclose.  It sets the refs also when a newer socket is in use.
Closed(s) ==
  /\ \/ sock[s] \in {"connecting", "open"} /\ link[s] = "down"
     \/ sock[s] = "closing" /\ link[s] # "up"
  /\ sock' = [sock EXCEPT ![s] = "free"]
  /\ IF owner[s] = 0
     THEN UNCHANGED <<wsRef, resyncAfterOpen, timer>>
     ELSE /\ wsRef' = 0
          /\ resyncAfterOpen' = TRUE
          /\ timer' = (timer \/ ~ isCancelled(s))
  /\ UNCHANGED <<me, server, link, wire, owner, run, device, spent>>

\* Faulty: connects with the handlers of the first run.
FaultyReconnect ==
  /\ timer
  /\ timer' = FALSE
  /\ Connect(1, 0, owner)
  /\ UNCHANGED <<me, server, wire, run, resyncAfterOpen, device, spent>>

\* 5 seconds after the socket closed.
Reconnect ==
  /\ timer
  /\ timer' = FALSE
  /\ Connect(run, 0, owner)
  /\ UNCHANGED <<me, server, wire, run, resyncAfterOpen, device, spent>>

\* The browser's `online` event: fetch everything again, and a new socket.
Online ==
  /\ MayFail
  /\ Connect(run, wsRef, [s \in Sockets |-> IF s = wsRef THEN 0 ELSE owner[s]])
  /\ timer' = FALSE
  /\ resyncAfterOpen' = TRUE
  /\ fetch' = Refetched(QueriesOf(me.role))
  /\ lapse' = LapseAfter(QueriesOf(me.role), {})
  /\ Spend("faults")
  /\ UNCHANGED <<me, server, wire, run, view, debounce>>

\* Faulty: the new socket's handlers are of a run that never began.
FaultyRerun ==
  /\ spent.reruns < MaxReruns
  /\ Connect(run + 1, wsRef, owner)
  /\ run' = run
  /\ timer' = FALSE
  /\ debounce' = [q \in Queries |-> FALSE]
  /\ lapse' = Missed({q \in Queries : debounce[q]})
  /\ Spend("reruns")
  /\ UNCHANGED <<me, server, wire, resyncAfterOpen, view, fetch>>

\* The effect is cleaned up and runs again: the token, the equipment, the machine or
\* the name of the user changed.
Rerun ==
  /\ spent.reruns < MaxReruns
  /\ Connect(run + 1, wsRef, owner)
  /\ run' = run + 1
  /\ timer' = FALSE
  /\ debounce' = [q \in Queries |-> FALSE]
  /\ lapse' = Missed({q \in Queries : debounce[q]})
  /\ Spend("reruns")
  /\ UNCHANGED <<me, server, wire, resyncAfterOpen, view, fetch>>
-----------------------------------------------------------------------------
(* The queries.                                                            *)

Debounced(q) ==
  /\ debounce[q]
  /\ debounce' = [debounce EXCEPT ![q] = FALSE]
  /\ fetch' = Refetched({q})
  /\ lapse' = LapseAfter({q}, {})
  /\ UNCHANGED <<me, server, link, wire, client, view, spent>>

FetchAgain(q) ==
  /\ isMine(q) /\ fetch[q] = IDLE
  /\ fetch' = [fetch EXCEPT ![q] = SENT]
  /\ lapse' = [lapse EXCEPT ![q] = FALSE]
  /\ UNCHANGED <<me, server, link, wire, client, view, debounce, spent>>

\* Faulty: does not poll while there is a socket.
FaultyPoll(q) == q \in Polled /\ (\A s \in Sockets : sock[s] # "open") /\ FetchAgain(q)

Poll(q) == q \in Polled /\ FetchAgain(q)

\* The window gets the focus, or the screen is opened again.  (Where the screen polls
\* this looks like a poll.)
LookAgain(q) == q \notin Polled /\ FetchAgain(q)

Answer(q) ==
  /\ fetch[q] = SENT
  /\ fetch' = [fetch EXCEPT ![q] = db[q]]
  /\ UNCHANGED <<me, server, link, wire, client, view, debounce, lapse, spent>>

ShowAnswer(q) ==
  /\ fetch[q] >= 0
  /\ view' = [view EXCEPT ![q] = fetch[q]]
  /\ fetch' = [fetch EXCEPT ![q] = IDLE]
  /\ UNCHANGED <<me, server, link, wire, client, debounce, lapse, spent>>

\* Both tries fail.
FetchFails(q) ==
  /\ fetch[q] # IDLE /\ MayFail
  /\ fetch' = [fetch EXCEPT ![q] = IDLE]
  /\ lapse' = [lapse EXCEPT ![q] = TRUE]
  /\ Spend("faults")
  /\ UNCHANGED <<me, server, link, wire, client, view, debounce>>
-----------------------------------------------------------------------------
\* The screen was just opened: its queries are sent and the first socket connects.
Init ==
  /\ me \in {deviceOf(role) : role \in Roles}
  /\ db = [q \in Queries |-> 0]
  /\ request = [w \in Slots |-> [steps |-> << >>, row |-> 0]]
  /\ link = [s \in Sockets |-> "none"]
  /\ hub = [s \in Sockets |-> "none"]
  /\ wire = [s \in Sockets |-> << >>]
  /\ sock = [s \in Sockets |-> IF s = 1 THEN "connecting" ELSE "free"]
  /\ owner = [s \in Sockets |-> IF s = 1 THEN 1 ELSE 0]
  /\ run = 1 /\ wsRef = 1 /\ resyncAfterOpen = FALSE /\ timer = FALSE
  /\ view = [q \in Queries |-> IF isMine(q) THEN -1 ELSE 0]
  /\ fetch = [q \in Queries |-> IF isMine(q) THEN SENT ELSE IDLE]
  /\ debounce = [q \in Queries |-> FALSE]
  /\ lapse = [q \in Queries |-> FALSE]
  /\ spent = [requests |-> 0, faults |-> 0, reruns |-> 0]

Others == \E w \in Slots : Write(w) \/ Broadcast(w)
Settling(s) ==
  \/ Upgrade(s) \/ Register(s) \/ ClientGone(s) \/ CloseHandshake(s)
  \/ Opened(s) \/ Receive(s) \/ Closed(s)
Fetching(q) == Debounced(q) \/ Answer(q) \/ ShowAnswer(q)

Next ==
  \/ \E w \in Slots, r \in Served : Begin(w, r)
  \/ Others
  \/ \E w \in Slots : Die(w)
  \/ \E s \in Sockets : Settling(s) \/ Refuse(s) \/ Cut(s)
  \/ Reconnect \/ Online \/ Rerun
  \/ \E q \in Queries : Fetching(q) \/ Poll(q) \/ LookAgain(q) \/ FetchFails(q)

System == Others \/ Reconnect \/ \E s \in Sockets : Settling(s)

\* Requests that began go on, the server and the browser handle what arrives, timers
\* fire.  Nobody must send a request, look again, or lose a connection.
Fairness ==
  /\ WF_vars(System)
  /\ \A q \in Watched : WF_vars(Fetching(q)) /\ WF_vars(Poll(q))

Spec == Init /\ [][Next]_vars /\ Fairness
-----------------------------------------------------------------------------
TypeOK ==
  /\ me \in {deviceOf(role) : role \in Roles}
  /\ db \in [Queries -> Nat]
  /\ link \in [Sockets -> {"none", "up", "down"}]
  /\ hub \in [Sockets -> {"none", "checking", "registered"}]
  /\ sock \in [Sockets -> {"free", "connecting", "open", "closing"}]
  /\ owner \in [Sockets -> 0..run]
  /\ run \in Nat \ {0} /\ wsRef \in 0..NumSockets
  /\ resyncAfterOpen \in BOOLEAN /\ timer \in BOOLEAN
  /\ view \in [Queries -> Nat \cup {-1}]
  /\ fetch \in [Queries -> Nat \cup {IDLE, SENT}]
  /\ debounce \in [Queries -> BOOLEAN] /\ lapse \in [Queries -> BOOLEAN]

\* The device always is on its way to a connection: the current run of the effect has
\* a socket that works or whose close event it will hear, or its timer is set, although
\* the close events of sockets given up reset the same refs.
NeverStranded ==
  timer \/ \E s \in Sockets : sock[s] # "free" /\ owner[s] = run

\* What a request changes on the device without telling it afterwards.
Untold(r) ==
  UNION {Touched(r[i]) \ WillHear(SubSeq(r, i + 1, Len(r)))
         : i \in {i \in DOMAIN r : r[i].do = "write"}}

\* Changes that may concern screens to which no event is sent: other preferred machines; a
\* delivery that needs other equipment now; a supply request cancelled together with its
\* pickup; and a pickup that enters or leaves a pair whose delivery needs other equipment
\* than the pickup, because every event has the pickup's type.
NotAnnounced(r) ==
  \/ r = replaceMovimentOperatorMachineLinks
  \/ \E t, d \in TaskTypes :
       \/ r = cancelPickupRequest(t, "REQUEST", d)
       \/ /\ t # d
          /\ \/ \E b \in BOOLEAN : r = updateDeliveryTask(t, d, b)
             \/ r \in {requestPickupOnly(t, "CREATED", d), listMachineTasks(t, "CREATED", d),
                      cancelPickupRequest(t, "PALLET", d),
                      acceptOpenPickupTask(t, d), completePickupTask(t, d)}

\* Of the lists that do not poll the device is told of every change that any request
\* makes, by events that pass the filters of the hub and its own, but for these four
\* kinds.  (Asked while the screen opens; it depends on the user only.)
ChangesAreTold ==
  hub[1] = "none" /\ (\A what \in DOMAIN spent : spent[what] = 0) =>
    \A r \in Requests : Untold(r) \ Polled # {} => NotAnnounced(r)

\* When all is quiet a list that is fetched at every event is out of date only when
\* something was missed: an event told while nobody was registered, lost with its
\* connection, or arriving during the very first fetch; a debounce cut short by a
\* new run of the effect; a fetch or a request that failed; a change nobody is told of.
OutOfDateOnlyByLapse ==
  \A q \in QueriesOf(me.role) \ {"machine-tasks"} :
    /\ \A w \in Slots : request[w].steps = << >>
    /\ \A s \in Sockets : wire[s] = << >>
    /\ fetch[q] = IDLE /\ ~ debounce[q] /\ ~ lapse[q]
    => view[q] = db[q]

\* The list of the machine operator.
PolledView ==
  INSTANCE EventualView WITH truth <- db["machine-tasks"], view <- view["machine-tasks"]

\* The screen of a machine, which polls, shows in the end what is in the database, whatever
\* was lost, never announced, or overwritten by an older answer.
PollingCatchesUp == PolledView!Spec

\* A device that lost its connection has, in the end, one that the hub knows and whose
\* handlers are those of the current run.
ConnectedInTheEnd ==
  <>[](\E s \in Sockets : sock[s] = "open" /\ isReached(s) /\ owner[s] = run)
=============================================================================
