# Fork: a verification project for the pallet transport

The repository is the system that moves pallets between the supply desk, the
bending machines and the expedition of a plant: a Fastify/Prisma back-end
(`src/back-end`) over PostgreSQL and a React front-end (`src/front-end`). Three
kinds of people send requests to it at the same time:

- the **supply desk** (`SUPPLY_OPERATOR`) creates deliveries, prepares their
  pallets and releases machines to be supplied;
- the **operator at a machine** (`OPERATOR_MACHINE`) asks for a pickup, for a new
  pallet, or for both, and cancels;
- the **transporter** (`PALLET_TRANSPORTER`) chooses a forklift or a pallet truck,
  sees the queue, accepts a delivery, a pickup, or both as one trip, and completes
  them.

No lock, queue or version column coordinates them. Every handler reads, decides,
awaits and writes, and the rules of the business live in conditions that were true
when they were read. What the people see comes from caches that a WebSocket keeps
up to date as well as it can. That is what this project is about.

The modules are TLA+; TLC checks them on small instances (the `.cfg` files) and
TLAPS proves theorems about them for every size. `PROJECT.json` lists the runs, the
lines of the source each definition models, the faults each property catches, the
findings, and the hazards the properties are aimed at.

## 1. Inventory

| Part (source under `src/`) | State it keeps | Operations that change state | In the model |
|---|---|---|---|
| Deliveries: `back-end/src/services/delivery-task.service.ts` | `DeliveryTask` rows; `deliveryTaskId` of supply requests | create (fulfils OPEN requests, binds a pickup), edit, mark prepared | `SupplyDesk` |
| Machine status: `services/machine.service.ts` | `Machine.productionStatus` (TRABALHANDO / ABASTECER) | set status | `SupplyDesk` |
| Requests of a machine: `services/operator-machine.service.ts` | `PickupTask`, `OperatorMachineSupplyRequest` rows | request pickup, supply, or both; cancel a pickup; listing (repairs links) | `MachineDesk` |
| Links: `services/pickup-supply-link.service.ts` | `PickupTask.linkedSupplyRequestId` (unique) | link a new pickup, a new request, join a delivery on its way, repair | `MachineDesk` |
| Trip suggestions: `services/trip-suggestion-sync.service.ts`, `repositories/moviment-pallet-trip-suggestion.repository.ts` | `MovimentPalletTripSuggestion` rows (unique delivery, unique pickup) | synchronise, bind, upsert an open or accepted pair, expire, reconcile, complete | `TripSuggestions`, `MachineDesk!JoinTrip`, `Transport!CloseTrip` |
| Transporters: `services/operator-moviment-pallet.service.ts` | `User.isOperating`; status and operator of tasks | set/clear mode, two listings (repair suggestions), three accepts, two completions | `Transport`, `TripSuggestions` |
| Queue order: `utils/trip-queue-priority.ts`, the two lists of a transporter | - | - (functions of the tables) | `TripPriority`, `TransporterScreen` |
| Who works where: `operator-machine.service.ts`, `machine.service.ts`, `machine.repository.ts`, `user.service.ts` | `Machine.userId`, `sectorId`, `machineStreetId`; `User.sectorId` | bind, unbind, edit a machine, change an operator's sector | `Office` |
| Hub: `back-end/src/ws/` | the set of connected clients | register, broadcast, close | `WsFilters`, `Announcements`, `Realtime` |
| Realtime client: `front-end/src/lib/operator-moviment-*.ts`, `network-resync.ts`, `OperatorMovimentWorkProvider.tsx` | socket, timers, query caches | connect, receive, invalidate, patch, resynchronise, poll | `WsFilters`, `Realtime` |
| Screen of a machine: `front-end/src/pages/OperatorMachinePage/operator-machine-flow.ts`, `-display.ts` | - | - (functions of three lists) | `MachineScreen` |
| TV monitor: `operational-dashboard.service.ts`, `DashboardTvMonitorView.tsx` | - | - | `TvMonitor` (the lists of work; not the numbers) |
| Registration CRUD, uploads, passwords and tokens, Orion, layout | single rows nobody else uses | - | not modelled (section 6) |

**How the parts interact.** All services share four tables. A pickup points to a
supply request (`linkedSupplyRequestId`), the request to the delivery that answered
it (`deliveryTaskId`), and a suggestion names a delivery and a pickup. Creating a
delivery, linking a pickup, marking a pallet prepared and *listing a queue* all end
in `upsertOpenPair`; joining a delivery on its way ends in `upsertAcceptedPair`.
Between its writes and after them a service calls the hub's broadcasts, which send
an event to each client whose role, sector, machine and equipment it concerns; the
client filters it once more and fetches lists again.

**What is hard here.**

1. *Check, await, update by id.* Accepts, edits and cancellations test the status
   and later update without a condition.
2. *Reads that write.* Listing a machine's tasks repairs links; listing the queue
   expires, repoints and creates suggestions.
3. *Several writes per request, not one transaction.* Creating and linking a
   pickup; linking, assigning and pairing on a join; completing a delivery and
   putting the machine back to work. A throw or a restart may fall in between.
4. *Unique columns as the only lock.* A P2002 ends a transaction, sometimes after
   an earlier statement of the same request was already committed.
5. *Screens.* What a user acts on was listed earlier; a suggestion's id stays the
   same while its pair is replaced.
6. *Rules written twice.* The hub and the client filter events by two copies of the
   same rules; the machine's screen copies the guards of three requests; the TV
   rebuilds the machine's cards from other queries.
7. *A socket that comes and goes.* Registration awaits three reads after the socket
   is open, close events of sockets already replaced arrive late, an answer read
   before a change arrives after the event that announced it.
8. *Machines, people, sectors.* Bindings are transactions of two statements; the
   check of a street is in another place than the write; who is displaced is not told.

**What makes the parts correct**

- a task in hand or done names its transporter and equipment; a waiting one names
  nobody (`AssignmentCoherent`); what a transporter has in hand is on the screen
  (`TasksInHandShown`), which offers the two halves of a trip in order
  (`TripCompletedInOrder`);
- a task is in one suggestion at most (`OnePairPerTask`), and an open suggestion is
  the pair of the foreign keys (`SuggestionFollowsLink`);
- a pallet is prepared, taken by one free driver, delivered by that driver, dropped
  only while nobody prepared it (`DeliveryFollowsLifecycle`, `DriveOnlyPrepared`,
  `OneTripAtATime`, `ReleasedWhenTaken`, `DeliveryTypeFits`);
- outcomes are final (`DoneStaysDone`), cancellations touch only what waits and
  take both ends with them (`CancelOnlyWaiting`, `CancelledTogether`);
- a link is written once (`LinkWrittenOnce`), and nobody waits for a pallet while
  one is there (`NoRequestWithPallet`);
- the queues hide no work (`EmptyMainMeansNoWork`); each pallet and each request of a
  machine is on one card (`EachOnOneCard`), a card does not go back
  (`CardNeverGoesBack`), what it offers is not refused (`OfferedIsAccepted`), and the
  TV shows the same cards (`TvShowsMachineCards`);
- an operator works at one machine (`OneMachineEach`) and her device finds out which
  while it shows one (`MyMachineCatchesUp`); a machine's street is in its sector
  (`StreetInSector`);
- a device reconnects (`NeverStranded`, `ConnectedInTheEnd`), is told what changes but
  for four kinds of requests (`ChangesAreTold`), is out of date only for a reason (`OutOfDateOnlyByLapse`), and
  where it polls it catches up whatever was lost (`PollingCatchesUp`).

The hazards behind them, each at its line, are in `PROJECT.json`.

## 2. The modules

| Module | What it models |
|---|---|
| `ForkTables` | constants, the rows of the four tables, and the queries the services share |
| `TripSuggestions` | synchronisation and binding of pairs, `upsertOpenPair`, the transporter's two listings |
| `SupplyDesk` | create, edit, mark prepared, set production status |
| `MachineDesk` | the requests of a machine's operator, all linking, the repair, the cancellation |
| `Transport` | modes, accepts, completions |
| `ForkFlow` | the composition, the specification `Spec`, and the properties of the tables |
| `DeliveryLifecycle` | the abstract specification of a delivery, which `ForkFlow` implements |
| `MachineScreen`, `TvMonitor` | the machine's cards, steps, timers and buttons, and the TV's lists, as functions of the tables of `ForkFlow` |
| `TripPriority`, `TransporterScreen` | the comparison of the queues; what the main screen, the manual queue and "Minhas tarefas" show |
| `WsFilters` | what an event carries, the hub's choice of clients, the client's filter |
| `Announcements` | every request as a sequence of writes and events, and the lists each write may change |
| `Realtime` | one device, its sockets, the hub, the requests of others, loss and failure |
| `EventualView` | the abstract specification of a list that polls, which `Realtime` implements |
| `Office` | bindings, machine edits, sectors, and the devices' query "my machine" |
| `MCForkFlow`, `MCRealtime`, `MCOffice` | symmetry, view, search constraints and instances for TLC |
| `...Proofs` | lemmas and theorems (section 5) |

`SupplyDesk`, `MachineDesk` and `Transport` extend `TripSuggestions`, which extends
`ForkTables`; `ForkFlow` extends the three, and the screens extend `ForkFlow`.
`Realtime` extends `Announcements`, which extends `WsFilters`; `Office` extends
`WsFilters`. The three state machines share no variable: `Realtime` knows of the
tables only that a request changes the answers of some lists, and `Office` keeps the
columns that no request of `ForkFlow` writes.

### State of `ForkFlow`

`delivery`, `pickup`, `supply`, `trip` map an id to a row with the columns the
services test. Ids are natural numbers in creation order, so that "oldest first"
is the least id; 0 is null; a row that does not exist yet is `ABSENT`, and a
deleted suggestion is `DELETED` (uuids are not given twice). `production` is
`Machine.productionStatus`, `mode` is `User.isOperating`. `seen` holds the ids that
some transporter's screen has shown, and an accept takes its id from there. `job[w]`
is what is left of the request in slot `w`.

### Steps of `ForkFlow`

A handler is split where the order of its effects can be observed:

- `Begin...` reads, checks and decides at one instant, and keeps what it read in
  `job[w]`;
- each write, or transaction, is a step of its own and uses what was kept. The
  `where` of an `updateMany` is evaluated in that step, an `update` by id is not
  conditional;
- `upsertOpenPair` is a transaction, but at READ COMMITTED its reads do not keep
  others from writing. It is two steps: expiry, reads and decision (`StartUpsert`),
  then the write (`RepointPair`, `CreatePair`), which fails (`RollBackPair`) when a
  unique column or a missing row makes it fail. Before it updates a row it looks again
  for rows in the way: those are deleted with the write, or an accepted one ends the
  transaction without an error (both in `RepointPair`). With a conflict both outcomes
  are open, since it may also come after that look. The same holds for the
  cancellation (`ReadCancel`, `FinishCancel`);
- `Fail(w)` ends a request before its next write: the awaited call throws or the
  process stops. What was written stays.

`Slots` bounds how many requests are in execution. With one slot requests are
served one after the other, but still from stale screens and still cut short
anywhere; with two, any two interleave between any two of their steps.

### The screens

`MachineScreen` and `TransporterScreen` have no variables of their own: a screen is an
operator of the tables, computed as the front-end (or the listing handler) computes
it, and their properties are invariants and step properties of `ForkFlow!Spec`. The
lists are an argument of the operators of `MachineScreen`, so that `TvMonitor` can
feed them what the dashboard's queries return. Which tasks are critical, which
machines are preferred and what was completed last are universally quantified: the
properties hold for every choice of them.

### State and steps of `Realtime`

One device whose user `me` is any of the `Roles`. `db[q]` counts how often the answer
of list `q` changed for this user; `view[q]` is the version shown, `fetch[q]` the
fetch in flight (nothing, sent, or the version in the answer), `debounce[q]` the 50 ms
of a pending invalidation. A request of somebody else (`Begin`, `Write`, `Broadcast`)
executes a sequence of `Announcements`, and may die in between (`Die`). A socket is
followed at the device (`sock`: connecting, open, closing), on the network (`link`,
`wire`) and at the hub (`hub`: checking while the user is read, then registered).
`run` numbers the executions of the provider's effect and `owner[s]` is the one whose
closures a socket's handlers are; `wsRef`, `resyncAfterOpen` and `timer` are the
provider's refs. Events that were lost with their connection, answers that fail,
sockets refused, a network that comes back (`Online`) and effects that run again
(`Rerun`) are actions. `lapse[q]` is a history variable: a reason was met why the
device may not know of a change.

A patch of the machine's list (`setQueryData` from an event) carries the version
of the row that the request read before it broadcast; an answer read earlier may
overwrite it.

### State and steps of `Office`

`machine[m]` has the columns sector, street and user. `binding[o]` follows a request
of one operator through its transaction: `ClearOwn` is the first statement (its rows
are locked, their change not visible), `Assign` the second with the commit,
`Deadlocked` the abort when two transactions want each other's rows. `edit[d]` follows
a PATCH of a desk from its checks to the event. The event of a request
(`BindBroadcast`, `UnbindBroadcast`) and its answer (`BindAnswered`, which may be lost)
are steps of their own.

A device asks, gets an answer or fails (`FetchFails`), shows it, and is told as
`WsFilters` says, through a socket that opens, is registered at the hub only later, and
breaks (`Opened`, `Registered`, `Closed`); the hub sends to registered sockets only
(`Broadcast`). The machine shown is a dependency of the effect that holds the socket
(`OperatorMovimentWorkProvider.tsx:281`, `:575`), so another machine means another
socket (`Show`), which fetches again when it opens only if the old one's `onclose` came
first. `lapse[o]` is a history variable: something was missed since the device last
asked. One socket per device is enough here: one that was left behind, as `Realtime`
has them, could only bring more events.

`Devices` are the operators whose device is followed. The others send bindings and
unbindings whatever their screen shows, which is more than theirs would allow.

### What is abstracted

- Reads before the first write happen at one instant. Splitting them would add
  interleavings of reads only; every check-then-write race is there already.
- One sector in `ForkFlow`; all transporters work in it. Any request may come for any
  machine, whoever is bound to it.
- In `ForkFlow` a task may be on either list of a transporter at any time; which one
  it is on is `TransporterScreen`.
- `acceptedBySupply` is TRUE in every row (the only creation writes it), and no code
  writes `IN_PROGRESS`: both are left out.
- Names, toolings and timestamps are left out; ids stand for creation times.
- An isolation detail: between the two steps of `upsertOpenPair` the expiry of other
  pairs is visible. A second transaction would wait for those rows or read them
  before the expiry; the pairs concerned are stale either way.
- `Realtime` takes every list as a version number, and a write as a change of every
  list whose answer it *may* change. That makes the device's task harder, never
  easier. The intervals (3 to 60 s), the 5 s of the reconnection and the 50 ms are
  enabled actions without a clock.
- The TV's limits of 80, 60 and 80 rows are left out.

## 3. The runs

TLC explores each run completely unless it is a violation. The runs of `MCForkFlow`
use the view `LiveView`: of a task that is no longer `CREATED`, what the screens still
show of it cannot be used (accepts and the completion of a pickup nobody holds need
`CREATED`, and no step writes `CREATED` into an existing row), so two states that
differ in nothing else behave alike. With one machine and one type an edit moves
nothing, so edits in execution of the same delivery count as one. `CHECK_DEADLOCK`
stays on in every run: a mode can always be set, a screen can always be opened again.

### Runs that pass

| Run | Instance | Question |
|---|---|---|
| `serial` | 1 slot, 2 transporters, 2 deliveries, 1 pickup, 2 requests, 2 suggestions | Two transporters share the work: does each keep one trip, does every delivery follow the abstract life cycle, is a machine released only when its pallet is taken, does no card go back, whatever the screens showed and wherever a request was cut? |
| `two_links` | 1 slot, 1 transporter, 2 of everything, type ANY (831,000 states) | Two requests, two pickups and two deliveries at a machine: are links written once, do suggestions follow them, are both ends cancelled together, outcomes final and cancellations confined to what waits; is each row on one card, each offer accepted, does the TV show the same, and "Minhas tarefas" all that is in hand, the delivery before the pickup? |
| `relinking` | 1 slot, types ANY and FORKLIFT, both modes, 1 delivery, 2 pickups, 1 request (1.9 million states) | Types that differ and a second pickup for a delivery: do suggestions follow the links, does the equipment fit the delivery, does the main screen hide no work, for every choice of critical tasks, preferred machines and last trip? |
| `interleaved` | 2 slots, 2 transporters, 1 delivery, 1 pickup, 1 request, 2 suggestions | Two requests interleave and may be cut short: which facts survive? Also a check of what section 5 proves. |
| `realtime` | a transporter, a machine's operator or a desk; 2 sockets, 1 request of 4 kinds, 1 fault, 1 rerun (162,000 states) | Is the device always on its way to a connection, and connected in the end; is it told what changes; is it out of date only for a known reason; does polling catch up? |
| `office` | 2 operators, one of them with her device, 2 machines, 2 sectors, 1 street, 1 desk, any seating at the start, 2 edits or bindings, 1 fault (470,000 states) | Transactions of binding against each other and against the desk: one machine each, street and sector agree, and does the device find out, although its socket and its fetches fail? |

Why these bounds are enough to be interesting: two transporters give every race for
a task; two deliveries give the trip against a delivery from elsewhere; two pickups
give the relink, the repair and the repointed suggestion; two supply requests give
the two that must not be open at once. All of it in one instance is too large to
explore, so the bounds are split over the runs, each property in the run whose
bounds can break it. `interleaved` has one pickup and one delivery, which leaves out
the repointing of a suggestion under interleaving; the theorems cover that for every
size, and the violation runs below use two slots with two deliveries.

In `realtime` two sockets are the old one and its successor, the case all the care of
the provider is about; a third would only be an older one. One request has up to two
writes and two bursts of events, so that an event meets each state of a socket and of
a fetch; one fault and one rerun of the effect give each cause in `lapse` and their
combination. `ChangesAreTold` depends on the user only and quantifies over *all*
requests of `Announcements`, not over the four that are served. In `office` two
operators and two machines give the take-over, the swap and the deadlock: the shift
begins with any seating, so two requests are enough for each of them, and for the
desk to give a machine a street and then move it. One device is enough because devices
do not see each other. A socket that is new, as every one is at first and after each
change of machine, misses events without any fault, so the exception in
`MyMachineCatchesUp` (below) is reached with none; the one fault adds a connection that
breaks, or a fetch that fails, anywhere.

Larger instances were explored once and gave the same results: `serial` with two
pickups and one request (1.6 million states), and the properties of `serial` and
`two_links` with two machines, one delivery and two pickups (2.6 million states), all
but two: when an edit moves a delivery to another machine, `ReleasedWhenTaken` and
`NoRequestWithPallet` do not hold, because `updateDeliveryTask` moves a CREATED
delivery and leaves its supply request and its OPEN suggestion where they are, and the
accept of a trip does not compare the machines (although `REGRAS_NEGOCIO...:58` calls
a suggestion a pair at the same machine). With two machines, two deliveries and two
requests TLC refutes within seconds also `EachOnOneCard`, `OfferedIsAccepted`,
`TvShowsMachineCards`, `CardNeverGoesBack` and `TripCompletedInOrder`, by such an edit
or by `createDeliveryTask`, which fulfils the request that its body names although it
is of another machine. So the passing runs have one machine.

### Runs that disagree with what the repository says

| Run | What the code does | What is said |
|---|---|---|
| `two_requests` | "retirada + abastecimento" beside an OPEN request that a pickup holds makes a second OPEN request; creating a delivery then fails on the unique `deliveryTaskId` | `REGRAS_NEGOCIO...:132`: blocked with 409 |
| `repair_steals` | listing a machine's tasks may link a lone pickup that a transporter accepted, and assign it to the driver of a delivery on its way | `trip-suggestion-sync.service.ts:16`: routes are not reassigned |
| `stranded_pickup` | a pickup with a link is offered only in a pair; when the delivery of the pair is taken alone and completed, the pickup is in no queue | `operator-machine-flow.ts:557`: waiting for a transporter to accept; `GUIA_PLATAFORMA_PRODUCAO.md:545`: the causes of a pickup missing in the queue |
| `cancel_race` | the cancellation updates by id what it checked before | `operator-machine.service.ts:515`: a pallet on its way is not discarded |
| `accept_race` | two accepts of one transporter both see free hands | `domain-errors.ts:400`: finish before accepting another |
| `unprepared_trip` | a suggestion on a screen is repointed to a delivery not prepared, and accepting a trip does not look at `preparedAt` | `GUIA_PLATAFORMA_PRODUCAO.md:513`: only prepared deliveries are in the queue |

The first three need no concurrency (one slot); the last three need two requests in
execution. `unprepared_trip` searches a large space: it uses symmetry, and the action
constraint `ShortSearch` leaves out most failures, edits and completions.
`stranded_pickup` uses `JoinsComplete`, so that its counterexample is not a request
that was cut short. Both are sound for a search: each behaviour found is one of `Spec`.

### What else came up

These have no run of their own; most are visible in the text of a property, which says
what must be excepted for it to hold.

- `DriveOnlyPrepared`, `CancelOnlyWaiting` and `OneTripAtATime` hold when requests are
  served one at a time and fail when they interleave. TLC also refutes
  `LinkWrittenOnce`, `SuggestionFollowsLink` and `CancelledTogether` with two slots; no
  document promises these.
- A trip may be accepted by half. When one transporter took the delivery of an OPEN
  pair alone, another one who has the pair on the screen may still accept it: the
  transaction (`operator-moviment-pallet.service.ts:900`) claims the suggestion and
  takes only what is CREATED, here the pickup, while the first one still brings the
  pallet. Requests one at a time are enough, and `TripCompletedInOrder` fails in the
  instance of `serial`; with one transporter (`two_links`, and also `relinking`) it
  holds. Only the page keeps the order: the server completes a pickup and closes its
  trip with the delivery still on its way (`:1135`).
- The card of "Minhas tarefas" means to say "Retirada — atividade 2 de 2" when the
  delivery of a trip is done: `isCombinedRouteGroup` looks for a COMPLETED delivery in a
  list said to hold "abertas e concluídas" (`OpenTasksFlowSection.tsx:434`). But
  `listAssignedTasks` (`operator-moviment-pallet.service.ts:597`) sends open tasks only,
  so the second half is shown as a lone pickup.
- A trip is matched with the equipment by its delivery only: the pickup may be of a
  type that needs the other (`operator-moviment-pallet.service.ts:876`;
  `GUIA_PLATAFORMA_PRODUCAO.md:157` says tasks for forklifts are for forklifts).
- Four kinds of changes are not told to everybody whose list does not poll
  (`ChangesAreTold` names them, as `NotAnnounced`): other preferred machines of a
  transporter; a delivery edited to need other equipment, for those who could carry it
  before; a supply request cancelled with its pickup, for the desk; and a pair whose
  pickup is of another type than its delivery, when the pickup enters or leaves it. A
  pair is listed by the type of the delivery (`trip-suggestion-sync.service.ts:117`),
  but linking announces the pickup's (`operator-machine.service.ts:215`), and the
  operator chooses that one freely: when a pickup for a forklift is linked to a prepared
  delivery that any equipment may carry, the delivery on the screen of a pallet-truck
  driver becomes a trip and no event says so. The same holds when that pickup is
  accepted alone, completed or cancelled.
- The main screen of a transporter and the desk's lists have no `refetchInterval`: an
  event lost between the opening of a socket and its registration, or with a failed
  fetch, leaves them out of date until the next event or the next look
  (`OutOfDateOnlyByLapse` lists the causes).
- The first fetch of a list is joined, not repeated, when an event invalidates it
  (TanStack Query cancels a fetch only when there is data), so an event may be lost there.
- `onclose` of a socket already replaced clears the provider's ref of the new one
  (`OperatorMovimentWorkProvider.tsx:516`). The new socket works on; `Online` would then
  not close it and two would be open for a while. `NeverStranded` and
  `ConnectedInTheEnd` hold all the same.
- The provider says (`:158`) that administrators receive the events of all sectors and
  filters accordingly; the hub sends them their own sector's.
- `OneMachineEach` needs one device per operator: with two bindings of the *same*
  operator in flight, neither sees what the other assigns, and she has two machines.
  The same follows from a PATCH or POST with `userId`, which the API takes and no
  screen sends.
- `StreetInSector` needs one machine editor at a time: with two, one moves the machine
  to another sector while the other gives it a street of the first.
- The line of `machine.service.ts` that drops the street of another sector when a
  machine changes sector ("desvincula automaticamente") cannot be reached: the check
  before it has refused the request.
- An operator whose machine is taken over by another is not told. The poll of her
  device corrects it.
- A device that shows no machine does not poll `my-machine`
  (`useOperatorMachinePage.ts:78`). It learns of a binding from the answer, or from the
  event. When the answer is lost and the event comes while its socket is down, or is
  open but not yet registered (`register-operator-moviment-pallet-ws.ts:60`), it goes on
  showing no machine to an operator who has one, until the window is focused, the socket
  opens again or another event comes. The same follows from a fetch that fails. This is
  the exception in `MyMachineCatchesUp`, and the run reaches it.

### Fairness

The specification of `ForkFlow` has none: its properties are safety properties, and
nothing obliges a person to send a request. (What is *visible* to people who look is
stated as an invariant instead, `WaitingPickupReachesQueue`, `EmptyMainMeansNoWork`.)

`Realtime` and `Office` have weak fairness, on what a machine does by itself:

- a request that began goes on to its end (Node runs its continuations, the database
  answers or fails; failing is an action of its own);
- the server and the browser handle what arrives: an upgrade is answered, a client
  registered, an event received, a closed socket reported;
- timers fire: the 5 s of the reconnection, the 50 ms of the debounce, the
  `refetchInterval` of a list that has one, and the TCP stack reports a dead connection.
  In `Office` that is `Linking` and `Poll` of each device.

Nothing is assumed of people (requests, binding, focusing a window, opening a screen)
or of faults. Faults are bounded in number, so that liveness says: after the last one.
Weak fairness on the disjunction `System` is enough because its steps run out; it does
not favour the device's socket over others.

## 4. The abstract specifications

`DeliveryLifecycle` says what the plant is promised about a pallet: preparing, ready,
on the way, delivered, or dropped while preparing; taken by one driver who has no
other delivery in hand. `ForkFlow` instantiates it with the refinement mapping
`stage` (from status and `preparedAt`) and `driver` (from `assignedOperatorId`), and
the run `serial` checks `Lifecycle!Spec` as a property: every step of every service is
a step of the life cycle or leaves it alone. With two requests in execution it does
not hold (accepts overwrite each other).

`EventualView` says what a list that polls promises: it shows only what was true at
some time (`Shows`, the safety part, which is also proved), and in the end what is true.
It has fairness of its own (`CatchUp`), so the refinement `PollingCatchesUp` is a liveness property too: `realtime` shows that the
machine's list, patched from events, overwritten by late answers, with a socket that
breaks and changes that are never told, implements it.

## 5. What is proved

By TLAPS, for any number of machines, transporters, rows, requests, sockets, operators.

| Module | Theorem | Statement |
|---|---|---|
| `ForkFlowProofs` | `AlwaysIInv` | `Spec => []IInv`, the inductive invariant |
| | `TypeCorrect` | `Spec => []TypeOK` |
| | `AssignmentsCoherent` | `Spec => []AssignmentCoherent` |
| | `PairsAreUnique` | `Spec => []OnePairPerTask` |
| `SerialProofs` | `TypeFitsInSeries` | with one slot, `Spec => []DeliveryTypeFits` |
| | `DoneStaysInSeries` | with one slot, `Spec => DoneStaysDone` |
| | `CancelsInSeries` | with one slot, `Spec => CancelOnlyWaiting` |
| | `LinkOnceInSeries` | with one slot, `Spec => LinkWrittenOnce` |
| `TripProofs` | `OneTripInSeries` | with one slot, `Spec => []OneTripAtATime` |
| | `PreparedInSeries` | with one slot, `Spec => []DriveOnlyPrepared` |
| | `SuggestionsFollowInSeries` | with one slot, `Spec => []SuggestionFollowsLink` |
| | `CancelledTogetherInSeries` | with one slot, `Spec => []CancelledTogether` |
| | `LifecycleInSeries` | with one slot, `Spec => DeliveryFollowsLifecycle`: the four tables implement the abstract life cycle |
| | `NoRequestWithPalletInSeries` | with one slot and one machine, `Spec => []NoRequestWithPallet` |
| | `ReleasedInSeries` | with one slot and one machine, `Spec => ReleasedWhenTaken` |
| `ScreenProofs` | `PrecedesIsOrder` | the comparison of the queues is a strict weak order |
| | `MainNeverHidesWork` | `Spec => []EmptyMainMeansNoWork` |
| | `OnOneCardUnlessCrossed` | with one slot, `[](NoRequestWithPallet => EachOnOneCard)` |
| | `OffersHoldTogether` | with one slot, `[](Together => OfferedIsAccepted)` |
| | `TvShowsTogether` | with one slot, `[](Together => TvShowsMachineCards)` |
| | `NeverBackUncrossed` | with one slot, `[][Uncrossed /\ Uncrossed' => Forward]_vars`, the step property of `CardNeverGoesBack` |
| | `OnOneCardInSeries`, `OffersHoldInSeries`, `TvShowsInSeries`, `NeverBackInSeries` | with one slot and one machine, the four properties themselves |
| | `TasksShownInSeries` | with one slot, `Spec => []TasksInHandShown` |
| | `InOrderUnlessShared` | with one slot, `[](Together => InOrderOrShared)` |
| | `InOrderInSeries` | with one slot, machine and transporter, `Spec => []TripCompletedInOrder` |
| `WsFiltersProofs` | `SentIsHeard` | what the hub sends to a user passes the front-end's filter |
| `OfficeProofs` | `TypeCorrect` | `Spec => []TypeOK` |
| | `OneMachineAlways` | `Spec => []OneMachineEach` |
| | `StreetAlways` | with one desk, `Spec => []StreetInSector` |
| `RealtimeProofs` | `TypeCorrect` | `Spec => []TypeOK` |
| | `NeverStrandedAlways` | `Spec => []NeverStranded` |
| | `OutOfDateInAll` | `Spec => []OutOfDateOnlyByLapse` |
| | `ChangesAreToldAlways` | `Spec => []ChangesAreTold` |
| | `PollingShowsTruth` | `Spec => PolledView!Shows`: the safety part of `PollingCatchesUp` |

Assumptions: those of `ForkTables`: the bounds are natural numbers
(`BoundsAssumption`), types and modes are those of the schema's enums
(`EnumAssumption`), null is no user and no machine (`NullAssumption`); of `Office`:
null is nothing else, streets have sectors, devices are operators', the bounds are numbers; of `Realtime`:
there is a socket (`SocketsExist`), what others send are requests of the services
(`ServedAreRequests`), and the roles are those of the application (`RolesAreApp`).
Nothing says that sets are finite or not empty. The theorems "in series" assume
`OneSlot`, that all slots are equal; failures may fall anywhere.

**The argument for `ForkFlow`, interleaved.** `AssignmentCoherent` is not inductive. A
write by id uses what its request read earlier, so the invariant must say what is still
true of it:

- `RowsGood`: each row has its type. A task that was created has a machine and a task
  type; it names nobody while it waits and somebody, with an equipment, once it is in
  hand or done. A live suggestion names a delivery, a pickup, a machine and a type,
  and an accepted one names who accepted it;
- `RestOK`: production, modes and screens have their types;
- `JobsOK`: each job has its shape; a task it will write was created, and a task it
  will complete without writing a name already has one. This stays true while other
  requests run (`Grows`), because no step makes a row `ABSENT` again or takes a name
  off a task. Had a job remembered an absent row, a late update by id would produce a
  task with a status and without a machine.

`IInv` is their conjunction. The proof has one lemma per action, each of which shows
that the written rows are good from what the job remembered, and that the other jobs'
memories stay true. The facts on `Oldest` (the `findFirst` in creation order) are
lemmas in `ForkTablesProofs`. `OnePairPerTask` is inductive together with `IInv`: the
only steps that write the delivery or the pickup of a suggestion are guarded by
`CanWritePair` (the unique columns), delete what is in the way with the same commit
(`RepointedTrips`), or choose the row by a `findUnique`.

**In series.** With one slot, what a request checked stays true until it writes.
`SInv` adds to `IInv` that statement, `Fresh`, for each of the thirteen kinds of job
that write by id: an edit's delivery is still `CREATED`, the pickup to be linked still
has no link, the delivery a cancellation will discard is still waiting and not
prepared, and so on. Each step then satisfies `RowsStep` (what a write may do to one
row), from which the four theorems follow. The lemmas show where the one slot is
used: only in `NextSInv`, to say that the job that moves is the only one.

**How the four tables hang together, in series.** None of the properties of
`TripProofs` is inductive, and none of them can be made so alone: that a transporter
has one trip needs that a suggestion is a linked pair, which needs that the request of a
link has one delivery, which needs that a request gets its delivery once. `TInv` is all
of it at once, added to `SInv`:

- `SupplyGood`: an answered request names a delivery that is there, no other request
  names it, and the two are cancelled together;
- `LinksGood`: a link names a request that is there, and no other pickup has it;
- `TripsGood`: a live suggestion is a linked pair while its pickup is open, and one
  that a screen has shown keeps a prepared delivery. This is what makes up for the
  missing look at `preparedAt` when a trip is accepted: a suggestion's pair is changed
  while its row stays, but only to a prepared delivery if the row was ever listed;
- `HandsGood`: one open delivery, one open pickup, and the two linked;
- `Recalls`: what each kind of job still knows of the rows: free hands when an
  acceptance writes, a delivery on its way when a pickup joins it, the delivery of the
  request that a cancellation will discard.

There is one lemma per step, which shows that the rows fit and what the job knows next
(`Fits`); a failure only forgets. The refinement then follows from `TInv` and from
what a step may do to a delivery (`Moves`), one delivery at a time (`OneMoves`).

`MInv` adds, for one machine, `NoRequestWithPallet` and what acceptances and requests
know of the machine (`Knows`): the release was checked and stays until the pallet is
taken, and no pallet was there when a request was let through. With two machines both
theorems are false (section 3 says why), so `OneMachine` is an assumption and
not a convenience.

**The priorities.** `MainNeverHidesWork`: if the manual queue has work and nothing is
recommended, the fallback is not empty, because among the ranks and the ids
there is a least one (`Minimum`, from the well-foundedness of `<`), and among what is
shown the comparison has a minimal element (`SomeFirst`), because a key is compared
field by field and each field takes a least value.

**The cards, the TV and the transporter's page.** A screen is a function of the tables,
so its property is a consequence of what holds of the tables; but `TInv` is not enough.
`HInv` adds what the lists rely on without a look:

- `RequestsGood`: a request that was made has a machine, one that is fulfilled names
  its delivery. Otherwise a list that looks a delivery up finds none;
- `LiveLinks`: an open pickup is not linked to a cancelled request. The page looks the
  request up among those not cancelled, the TV among its own reduced lists, and they
  would disagree. A cancellation must still know the link it read, therefore `Expects`
  says so of the jobs that cancel and that link;
- `TripsLeft`: what an accepted trip delivers does not wait any more;
- `Driving`: who has no equipment has free hands. The page of tasks shows nothing to
  one without equipment. Clearing the mode and accepting both check before they write,
  so `Expects` carries the check to the write.

With it, the card a row falls on is determined: `OneCardPerSupply` and its siblings
say which of the three kinds of cards shows what, and that exactly one does. Because a
request has one delivery and a delivery one request (`TInv`), a look-up by request and
a look-up by delivery give the same row, which is what makes the page's guards those
of the server (`OffersAccepted`) and the TV's cards those of the page (`TvShows`).
`NeverBackUncrossed` says further that the step a card shows is the stage of that
delivery (`StepsKnown`), and that a delivery's stage only grows (`CardsGrow`).

The general form of each has a premise on the state and none on the number of
machines: `Together` (a request, its delivery and its pickup are at one machine) or
`NoRequestWithPallet`. An edit of a delivery may give it another machine, a creation
may fulfil the request of another one, and with two machines the properties themselves
are false (section 3): that is why these are theorems for one machine. `InOrderInSeries`
also needs one transporter: another may take the pallet of an accepted trip, as
`InOrderOrShared` spells out.

**The hub.** `SentIsHeard` compares the two copies of the filters, role by role. Its
premises say what a well-formed event is (it has a sector) and that a user has an id.

**The office.** `OneMachineEach` needs `HeldRows`: an operator whose transaction is
between its statements has no machine but those it holds locked. Somebody sits down
(`WhoSits`) only by the commit of her own transaction, which frees these. `StreetAlways`
needs that what the desk checked (`CheckedStreets`) is of the row as it still is.

**The socket.** `OnItsWay` adds the types of the provider's refs to `NeverStranded`.
The case that matters is `Closed`: a socket of the current run sets the timer, and a
socket of an older run leaves the current one where it is.

**The lists of a device.** `OutOfDateOnlyByLapse` speaks of quiet states only. The
invariant `Device` says of every state why a list will not stay behind: a reason is
known (`lapse`), or it will be fetched (`SENT`, a debounce), or an event that concerns
it is on the wire or still to be told by a request, or it is current (`CaughtUp`).
Every step hands one reason over to the next: a write makes it a debt of the request
(`WillHear`), a broadcast puts it on the wire, a receipt turns it into a fetch, an
answer into the view. `NotAhead` (no version is known anywhere before the database has
it) is what makes "the answer is the current version" stay true, and gives
`PollingShowsTruth`. The proof needs that requests are sequences of writes and
bursts (`RequestsAreSteps`), and that the events of a burst that are meant for the
device are each sent once and in order (`NumbersInOrder`).

**What is told.** `ChangesAreToldAlways` is a statement on every request that is not
excepted, the filters of the hub and of the front-end, and the user: for each kind, the last write that changes the list (`Quiet` are the steps that do
not) comes before a burst with an event that is heard (`DeskHears`,
`TransporterHears`). It holds for any types and any equipment, where the run has two
types and one equipment. A transporter is told of a task whose type its equipment
carries; a write of other types does not change its list. A pickup and the delivery it
is linked to have types of their own, so the requests that link, take or cancel one
have both. The four exceptions are named in the property (`NotAnnounced`) and no more
are needed.

**Model-checked only:** what has fairness (`PollingCatchesUp` as a whole,
`ConnectedInTheEnd`, `MyMachineCatchesUp`): liveness and ENABLED are out of this
prover's reach. So are induction over data and RECURSIVE operators; none is used. Every
invariant and every step property of a passing run is a theorem, some of them for
one request at a time or one machine, as said above, where the run has the same
restriction.

## 6. Not modelled

- **Layout and forms.** Two thirds of the source are the React pages: components,
  styles, dialogs, form state of one user, and the back-end's DTOs, routes and schemas.
  They change no shared state and decide nothing that the modelled functions do not
  decide. The share of lines that the models stand for stays small for that reason;
  what has state, order or a rule in it is modelled.
- **Registration** of sectors, machine types, streets and toolings, and uploads: writes
  of single rows that no other request reads while it writes. The one relation between
  them, street and sector, is in `Office`.
- **Passwords, badges, tokens**: library calls. **Roles**: one update by an
  administrator, which clears the mode without a look at tasks in hand
  (`user.service.ts:251`). Their transporter then sees and completes nothing until the
  role is given back and a mode is chosen.
- **The numbers of the dashboards**: counts, averages, periods, time zones. Read only.
- **Orion and the verification of employees**: calls to other systems without state here.
- **A page that is loaded again** starts where the model starts: nothing cached, no
  socket.
- **After an accept whose answer is lost** the device asks for its tasks once
  (`operator-moviment-after-accept.ts`): a single read, after which the user presses
  again or not; the back-end's behaviour on a second accept is in `ForkFlow`.

## 7. Running it

    tlc -workers 2 -config Serial.cfg MCForkFlow
    tlc -workers 2 -config Realtime.cfg MCRealtime
    tlc -workers 2 -config Office.cfg MCOffice
    tlapm TripProofs.tla

Each run takes up to two minutes, the proofs together about fifteen from nothing.

## 8. What could come next

1. The premises of the screens' theorems for several machines, weakened from `Together`
   to what an edit of a delivery really breaks.
2. Two devices of one operator, and two desks, as violation runs of `Office`, should
   the repository promise something about them.
3. `Realtime` with the transporter's three lists at once, and `ForkFlow`'s tables in
   place of version numbers.
