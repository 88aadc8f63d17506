---------------------------------- MODULE Office ----------------------------------
(***************************************************************************)
(* Who works at which machine.  Every machine operator binds herself to a  *)
(* machine from her own device; the desk edits a machine's sector and      *)
(* street and unbinds whoever sits there; an administrator moves users     *)
(* between sectors.  Every request is a read, then a write, then an event, *)
(* and binding is a transaction of two statements.  The devices follow     *)
(* with the query my-machine, which polls only while it shows a machine,   *)
(* and with a WebSocket that may break and hears nothing while it is new.  *)
(* (operator-machine.service.ts, machine.service.ts, machine.repository.ts,*)
(* user.service.ts, useOperatorMachinePage.ts, useMachinesPage.ts,         *)
(* OperatorMovimentWorkProvider.tsx, operator-moviment-pallet-ws.hub.ts)   *)
(***************************************************************************)
EXTENDS WsFilters, Naturals

CONSTANTS
  Operators,      \* machine operators; each has one device
  Devices,        \* those whose device is followed; the others send what they like
  Machines, Sectors, Streets,
  SectorOf(_),    \* the sector of a street, which is never edited
  Desks,          \* machine editors at work at a time
  Home,           \* the sector in which the shift begins
  MaxEdits,       \* bound: bindings, unbindings and edits
  MaxFaults       \* bound: connections that break and fetches that fail

ASSUME NoneIsNothing == NONE \notin Operators \cup Machines \cup Sectors \cup Streets
ASSUME DevicesOfOperators == Devices \subseteq Operators
ASSUME StreetsHaveSectors == Home \in Sectors /\ \A r \in Streets : SectorOf(r) \in Sectors
ASSUME EditsBounded == MaxEdits \in Nat /\ MaxFaults \in Nat

VARIABLES
  machine,    \* rows: [sector, street, user]
  sectorId,   \* of every operator; NONE: no sector
  binding,    \* per operator: her bind or unbind request at the server
  edit,       \* per desk: its PATCH of a machine
  screen,     \* per device: what my-machine shows; LOADING before the first answer
  fetch,      \* per device: IDLE, SENT, or the answer on its way
  link,       \* per device, its socket: down, open, registered (at the hub)
  resync,     \* per device: it fetches again when its socket opens
  lapse,      \* per device (history): something was missed since the last fetch was sent
  edits, faults   \* counted against MaxEdits and MaxFaults

vars == <<machine, sectorId, binding, edit, screen, fetch, link, resync, lapse, edits, faults>>
socket == <<link, resync>>
device == <<screen, fetch, socket, lapse>>

LOADING == "LOADING"
IDLE == "IDLE"
SENT == "SENT"
KEEP == "KEEP"

NoBinding == [stage |-> "none", target |-> NONE, held |-> {}, told |-> {}]
NoPatch == [sector |-> KEEP, street |-> KEEP, user |-> KEEP]
NoEdit == [stage |-> "none", id |-> NONE, patch |-> NoPatch, before |-> NONE]

\* What the desk's screens send: the form (the sector only when an administrator saves
\* it), or the button that unbinds the operator.
Patches ==
  [sector : Sectors \cup {KEEP}, street : Streets \cup {NONE}, user : {KEEP}]
  \cup {[sector |-> KEEP, street |-> KEEP, user |-> NONE]}

BoundTo(o) == {m \in Machines : machine[m].user = o}

\* Rows that an open transaction has written.
Locked(m, o) == \E p \in Operators \ {o} : binding[p].stage = "cleared" /\ m \in binding[p].held

mayEdit == edits < MaxEdits /\ edits' = edits + 1 /\ UNCHANGED faults
mayFail == faults < MaxFaults /\ faults' = faults + 1 /\ UNCHANGED edits
-----------------------------------------------------------------------------
(* Devices.                                                                *)

\* The very first fetch is on its way.
isFirst(o) == screen[o] = LOADING /\ fetch[o] # IDLE

\* invalidateQueries(['operator-machine']): a fetch on its way is dropped for a new
\* one, but the very first fetch is joined, and may have been answered before.
AskAgain(os, missed) ==
  /\ fetch' = [o \in Devices |-> IF o \in os /\ ~ isFirst(o) THEN SENT ELSE fetch[o]]
  /\ lapse' = [o \in Devices |-> IF o \in os THEN isFirst(o) ELSE lapse[o] \/ o \in missed]

\* Whom the event machine_operator_updated is for.
Told(affected) ==
  {o \in Devices :
     LET me == [user |-> o, role |-> "OPERATOR_MACHINE", sector |-> sectorId[o],
                machine |-> NONE, types |-> {}]
         event == [type |-> "machine_operator_updated", sector |-> NONE, moviment |-> NONE,
                   dest |-> NONE, machine |-> NONE, affected |-> affected,
                   operator |-> NONE, status |-> NONE]
     IN  matchesMachineOperator(me, event) /\ wsEventMatchesMachineOperator(event, me)}

\* It is sent to the sockets that are registered and open.
Broadcast(os) ==
  LET heard == {o \in os : link[o] = "registered"} IN AskAgain(heard, os \ heard)

Ask(o) ==
  /\ fetch[o] = IDLE
  /\ fetch' = [fetch EXCEPT ![o] = SENT]
  /\ lapse' = [lapse EXCEPT ![o] = FALSE]
  /\ UNCHANGED <<machine, sectorId, binding, edit, screen, socket, edits, faults>>

\* Faulty: polls while nothing is shown.
FaultyPoll(o) == screen[o] \notin Machines /\ Ask(o)

\* refetchInterval: not while the answer was that there is no machine.
Poll(o) == screen[o] \in Machines /\ Ask(o)

\* refetchOnWindowFocus.  (Where the screen polls this looks like a poll.)
Focus(o) == screen[o] \notin Machines /\ Ask(o)

\* findFirstByOperatorUserId: any of her machines.
Answer(o) ==
  /\ fetch[o] = SENT
  /\ \E m \in IF BoundTo(o) = {} THEN {NONE} ELSE BoundTo(o) : fetch' = [fetch EXCEPT ![o] = m]
  /\ UNCHANGED <<machine, sectorId, binding, edit, screen, socket, lapse, edits, faults>>

\* Both tries fail.
FetchFails(o) ==
  /\ fetch[o] # IDLE
  /\ mayFail
  /\ fetch' = [fetch EXCEPT ![o] = IDLE]
  /\ lapse' = [lapse EXCEPT ![o] = TRUE]
  /\ UNCHANGED <<machine, sectorId, binding, edit, screen, socket>>

\* The effect that holds the socket depends on the id of the machine shown: with another
\* id it gives up the socket for a new one.  Whether that one fetches again is a race:
\* only when the old one's onclose comes first.
Show(o) ==
  /\ fetch[o] \notin {IDLE, SENT}
  /\ screen' = [screen EXCEPT ![o] = fetch[o]]
  /\ fetch' = [fetch EXCEPT ![o] = IDLE]
  /\ IF fetch[o] = screen[o] \/ {fetch[o], screen[o]} \subseteq {NONE, LOADING}
     THEN UNCHANGED socket
     ELSE /\ link' = [link EXCEPT ![o] = "down"]
          /\ \E first \in BOOLEAN : resync' = [resync EXCEPT ![o] = @ \/ first]
  /\ UNCHANGED <<machine, sectorId, binding, edit, lapse, edits, faults>>

\* The connection breaks, or the server refuses it.
Closed(o) ==
  /\ link[o] # "down"
  /\ mayFail
  /\ link' = [link EXCEPT ![o] = "down"]
  /\ resync' = [resync EXCEPT ![o] = TRUE]
  /\ UNCHANGED <<machine, sectorId, binding, edit, screen, fetch, lapse>>

\* onopen, of the first socket, of the one tried 5 seconds after the last was closed, or of
\* the one that replaces it.
Opened(o) ==
  /\ link[o] = "down"
  /\ link' = [link EXCEPT ![o] = "open"]
  /\ resync' = [resync EXCEPT ![o] = FALSE]
  /\ AskAgain({p \in {o} : resync[p]}, {})
  /\ UNCHANGED <<machine, sectorId, binding, edit, screen, edits, faults>>

\* The hub gets to know the socket only after it has read the user and the machine.
Registered(o) ==
  /\ link[o] = "open"
  /\ link' = [link EXCEPT ![o] = "registered"]
  /\ UNCHANGED <<machine, sectorId, binding, edit, screen, fetch, resync, lapse, edits, faults>>
-----------------------------------------------------------------------------
(* bindOperatorToMachine                                                   *)

\* The device sends one request at a time, for a machine it does not show.  The sectors
\* must agree; whether somebody works there is not looked at.
BindRequest(o, m) ==
  /\ binding[o].stage = "none" /\ (o \in Devices => screen[o] \notin {LOADING, m})
  /\ sectorId[o] # NONE /\ machine[m].sector = sectorId[o]
  /\ mayEdit
  /\ binding' = [binding EXCEPT ![o] = [stage |-> "checked", target |-> m,
                                        held |-> {}, told |-> BoundTo(o)]]
  /\ UNCHANGED <<machine, sectorId, edit, device>>

\* The transaction's first statement frees her machines; nobody sees it before the
\* commit, and nobody else can write these rows.
ClearOwn(o) ==
  /\ binding[o].stage = "checked"
  /\ \A m \in BoundTo(o) : ~ Locked(m, o)
  /\ binding' = [binding EXCEPT ![o] = [@ EXCEPT !.stage = "cleared", !.held = BoundTo(o)]]
  /\ UNCHANGED <<machine, sectorId, edit, device, edits, faults>>

\* Faulty: her other machines stay hers.
FaultyAssigned(o) == [machine EXCEPT ![binding[o].target].user = o]

\* The rows after the commit.
Assigned(o) ==
  [m \in Machines |->
     [machine[m] EXCEPT !.user = IF m = binding[o].target THEN o
                                 ELSE IF m \in binding[o].held THEN NONE ELSE @]]

\* The second statement takes the machine, whoever had it, and the commit.
Assign(o) ==
  /\ binding[o].stage = "cleared" /\ ~ Locked(binding[o].target, o)
  /\ machine' = Assigned(o)
  /\ binding' = [binding EXCEPT ![o] = [@ EXCEPT !.stage = "written", !.held = {}]]
  /\ UNCHANGED <<sectorId, edit, device, edits, faults>>

\* Two transactions want what the other holds: the database fails one of them.
Deadlocked(o) ==
  /\ binding[o].stage = "cleared"
  /\ \E p \in Operators \ {o} :
       /\ binding[p].stage = "cleared"
       /\ binding[o].target \in binding[p].held /\ binding[p].target \in binding[o].held
  /\ binding' = [binding EXCEPT ![o] = NoBinding]
  /\ UNCHANGED <<machine, sectorId, edit, device, edits, faults>>

\* affectedUserId is she herself in every event; who sat there before is not told.
BindTells(o) == o

BindBroadcast(o) ==
  /\ binding[o].stage = "written"
  /\ Broadcast(Told(BindTells(o)))
  /\ binding' = [binding EXCEPT ![o] = [@ EXCEPT !.stage = "told"]]
  /\ UNCHANGED <<machine, sectorId, edit, screen, socket, edits, faults>>

\* The answer, when it is not lost, makes her device ask again.
BindAnswered(o, lost) ==
  /\ binding[o].stage = "told"
  /\ AskAgain(IF lost THEN {} ELSE {o}, {})
  /\ binding' = [binding EXCEPT ![o] = NoBinding]
  /\ UNCHANGED <<machine, sectorId, edit, screen, socket, edits, faults>>
-----------------------------------------------------------------------------
(* unbindOperatorFromMachines                                              *)

UnbindRequest(o) ==
  /\ binding[o].stage = "none" /\ (o \in Devices => screen[o] \in Machines)
  /\ mayEdit
  /\ binding' = [binding EXCEPT ![o] = [stage |-> "unbind", target |-> NONE,
                                        held |-> {}, told |-> BoundTo(o)]]
  /\ UNCHANGED <<machine, sectorId, edit, device>>

Unbind(o) ==
  /\ binding[o].stage = "unbind"
  /\ \A m \in BoundTo(o) : ~ Locked(m, o)
  /\ machine' = [m \in Machines |->
                   [machine[m] EXCEPT !.user = IF @ = o THEN NONE ELSE @]]
  /\ binding' = [binding EXCEPT ![o] = [@ EXCEPT !.stage = "unbound"]]
  /\ UNCHANGED <<sectorId, edit, device, edits, faults>>

\* One event per machine that was hers when the request was read.  The answer is handled
\* like that of a binding.
UnbindBroadcast(o) ==
  /\ binding[o].stage = "unbound"
  /\ Broadcast(IF binding[o].told = {} THEN {} ELSE Told(o))
  /\ binding' = [binding EXCEPT ![o] = [@ EXCEPT !.stage = "told"]]
  /\ UNCHANGED <<machine, sectorId, edit, screen, socket, edits, faults>>
-----------------------------------------------------------------------------
(* updateMachine, updateUserSector                                         *)

\* Faulty: writes the fields that were not sent.
FaultyOr(value, default) == value

or(value, default) == IF value = KEEP THEN default ELSE value

\* Faulty: checks only what is sent together.
FaultyStreetFits(before, patch) ==
  patch.street \in Streets /\ patch.sector # KEEP => SectorOf(patch.street) = patch.sector

\* requireMachineStreetForSector on the street and the sector as they will be.  The line
\* that drops the street of another sector when only the sector is sent comes after
\* this check, which has refused the request by then.
StreetFits(before, patch) ==
  LET street == or(patch.street, before.street)
  IN  street # NONE => SectorOf(street) = or(patch.sector, before.sector)

EditRequest(d, m, patch) ==
  /\ edit[d].stage = "none"
  /\ StreetFits(machine[m], patch)
  /\ mayEdit
  /\ edit' = [edit EXCEPT ![d] = [stage |-> "checked", id |-> m, patch |-> patch,
                                  before |-> machine[m].user]]
  /\ UNCHANGED <<machine, sectorId, binding, device>>

\* One update by id of the fields that were sent.
EditWrite(d) ==
  LET m == edit[d].id
      patch == edit[d].patch
  IN  /\ edit[d].stage = "checked"
      /\ \A p \in Operators : ~ (binding[p].stage = "cleared" /\ m \in binding[p].held)
      /\ machine' = [machine EXCEPT ![m] = [sector |-> or(patch.sector, @.sector),
                                            street |-> or(patch.street, @.street),
                                            user   |-> or(patch.user, @.user)]]
      /\ edit' = [edit EXCEPT ![d] = [@ EXCEPT !.stage = "written"]]
      /\ UNCHANGED <<sectorId, binding, device, edits, faults>>

\* An event only when the user differs from the one read before the write, and to that
\* one: an operator who sat down in between is not told.
EditAnswered(d) ==
  /\ edit[d].stage = "written"
  /\ Broadcast(IF edit[d].patch.user = NONE /\ edit[d].before # NONE
               THEN Told(edit[d].before) ELSE {})
  /\ edit' = [edit EXCEPT ![d] = NoEdit]
  /\ UNCHANGED <<machine, sectorId, binding, screen, socket, edits, faults>>

\* The binding stays.
updateUserSector(o, s) ==
  /\ s # sectorId[o]
  /\ mayEdit
  /\ sectorId' = [sectorId EXCEPT ![o] = s]
  /\ UNCHANGED <<machine, binding, edit, device>>
-----------------------------------------------------------------------------
\* The shift begins in one sector: some operators are bound already, each to one machine,
\* and no machine has a street yet.
Init ==
  /\ \E seat \in [Machines -> Operators \cup {NONE}] :
       /\ \A m, n \in Machines : seat[m] = seat[n] /\ seat[m] # NONE => m = n
       /\ machine = [m \in Machines |-> [sector |-> Home, street |-> NONE, user |-> seat[m]]]
  /\ sectorId = [o \in Operators |-> Home]
  /\ binding = [o \in Operators |-> NoBinding]
  /\ edit = [d \in Desks |-> NoEdit]
  /\ screen = [o \in Devices |-> LOADING]
  /\ fetch = [o \in Devices |-> SENT]
  /\ link = [o \in Devices |-> "down"]
  /\ resync = [o \in Devices |-> FALSE]
  /\ lapse = [o \in Devices |-> FALSE]
  /\ edits = 0 /\ faults = 0

BindingStep(o) ==
  \/ ClearOwn(o) \/ Assign(o) \/ Deadlocked(o) \/ BindBroadcast(o)
  \/ Unbind(o) \/ UnbindBroadcast(o)
  \/ \E lost \in BOOLEAN : BindAnswered(o, lost)
EditStep(d) == EditWrite(d) \/ EditAnswered(d)
Fetching(o) == Answer(o) \/ Show(o)
Linking(o) == Opened(o) \/ Registered(o)

Next ==
  \/ \E o \in Devices :
       \/ Fetching(o) \/ FetchFails(o) \/ Poll(o) \/ Focus(o)
       \/ Linking(o) \/ Closed(o)
  \/ \E o \in Operators :
       \/ BindingStep(o) \/ UnbindRequest(o)
       \/ \E m \in Machines : BindRequest(o, m)
       \/ \E s \in Sectors \cup {NONE} : updateUserSector(o, s)
  \/ \E d \in Desks :
       \/ EditStep(d)
       \/ \E m \in Machines, patch \in Patches : EditRequest(d, m, patch)

\* Requests that began go on, fetches are answered, timers fire, sockets open.  Nobody
\* must bind, edit, or look at a window again, and nothing must fail.
Fairness ==
  /\ \A o \in Devices : WF_vars(Fetching(o)) /\ WF_vars(Poll(o)) /\ WF_vars(Linking(o))
  /\ \A o \in Operators : WF_vars(BindingStep(o))
  /\ \A d \in Desks : WF_vars(EditStep(d))

Spec == Init /\ [][Next]_vars /\ Fairness
-----------------------------------------------------------------------------
TypeOK ==
  /\ machine \in [Machines -> [sector : Sectors, street : Streets \cup {NONE},
                               user : Operators \cup {NONE}]]
  /\ sectorId \in [Operators -> Sectors \cup {NONE}]
  /\ binding \in [Operators -> [stage : {"none", "checked", "cleared", "written",
                                          "unbind", "unbound", "told"},
                                target : Machines \cup {NONE},
                                held : SUBSET Machines, told : SUBSET Machines]]
  /\ edit \in [Desks -> [stage : {"none", "checked", "written"}, id : Machines \cup {NONE},
                         patch : Patches \cup {NoPatch}, before : Operators \cup {NONE}]]
  /\ screen \in [Devices -> Machines \cup {NONE, LOADING}]
  /\ fetch \in [Devices -> Machines \cup {NONE, IDLE, SENT}]
  /\ link \in [Devices -> {"down", "open", "registered"}]
  /\ resync \in [Devices -> BOOLEAN] /\ lapse \in [Devices -> BOOLEAN]
  /\ edits \in 0..MaxEdits /\ faults \in 0..MaxFaults

\* An operator works at one machine (the operator-machine services take the first row
\* they find), also while transactions of several operators free, take over and swap
\* machines and the desk unbinds.
OneMachineEach ==
  \A m, n \in Machines : machine[m].user = machine[n].user /\ machine[m].user # NONE => m = n

\* "So maquinas desse setor podem ser vinculadas" (schema.prisma): a machine with a street
\* is in the street's sector, whatever sequence of forms moved the one or the other.
StreetInSector ==
  \A m \in Machines :
    machine[m].street # NONE => SectorOf(machine[m].street) = machine[m].sector

\* The screen shows where its operator works.
isTrue(o) == IF BoundTo(o) = {} THEN screen[o] = NONE ELSE screen[o] \in BoundTo(o)

\* A device that shows a machine shows in the end the right one, or that there is none,
\* although the operator whose machine is taken over is not told, an unbinding by the
\* desk may be told to somebody else, and events, answers and fetches are lost.  One that
\* shows no machine does not poll: it stays out of date only if it missed something and
\* has not asked since, an event told while its socket was down or new and the answer
\* with it, or a fetch that failed.
MyMachineCatchesUp ==
  \A o \in Devices : <>[](isTrue(o) \/ (screen[o] \notin Machines /\ lapse[o]))
=============================================================================
