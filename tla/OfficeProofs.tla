------------------------------ MODULE OfficeProofs ------------------------------
(***************************************************************************)
(* For any number of operators, machines, sectors, streets and desks: the  *)
(* type invariant; an operator works at one machine; with one desk, a      *)
(* machine is in the sector of its street.                                 *)
(***************************************************************************)
EXTENDS Office, TLAPS

\* An open transaction of an operator holds all rows that are hers: nobody but she gives
\* her a machine, and she only with the statement that ends the transaction.
HeldRows ==
  \A o \in Operators :
    binding[o].stage = "cleared" => \A m \in Machines : machine[m].user = o => m \in binding[o].held

\* What a desk checked is still so when it writes.
CheckedStreets ==
  \A d \in Desks :
    edit[d].stage = "checked" => StreetFits(machine[edit[d].id], edit[d].patch)

EditedIds == \A d \in Desks : edit[d].stage = "checked" => edit[d].id \in Machines

LEMMA InitTypeOK == Init => TypeOK
BY StreetsHaveSectors, EditsBounded, DevicesOfOperators
   DEF Init, TypeOK, NoBinding, NoEdit, NoPatch, LOADING, SENT, NONE, KEEP

-----------------------------------------------------------------------------
(* The type invariant, action by action.                                   *)

Links == {"down", "open", "registered"}

\* Whoever asks again, fetches and histories keep their type.
LEMMA AskAgainType ==
  ASSUME TypeOK, NEW os, NEW missed, AskAgain(os, missed)
  PROVE  /\ fetch' \in [Devices -> Machines \cup {NONE, IDLE, SENT}]
         /\ lapse' \in [Devices -> BOOLEAN]
BY DEF TypeOK, AskAgain, isFirst

LEMMA BroadcastType ==
  ASSUME TypeOK, NEW os, Broadcast(os)
  PROVE  /\ fetch' \in [Devices -> Machines \cup {NONE, IDLE, SENT}]
         /\ lapse' \in [Devices -> BOOLEAN]
BY AskAgainType DEF Broadcast

LEMMA EditsType ==
  ASSUME TypeOK, mayEdit
  PROVE  edits' \in 0..MaxEdits /\ faults' \in 0..MaxFaults
BY EditsBounded DEF TypeOK, mayEdit

LEMMA FaultsType ==
  ASSUME TypeOK, mayFail
  PROVE  edits' \in 0..MaxEdits /\ faults' \in 0..MaxFaults
BY EditsBounded DEF TypeOK, mayFail

Bindings ==
  [stage : {"none", "checked", "cleared", "written", "unbind", "unbound", "told"},
   target : Machines \cup {NONE}, held : SUBSET Machines, told : SUBSET Machines]

MachineRows == [sector : Sectors, street : Streets \cup {NONE}, user : Operators \cup {NONE}]

\* Writing fields of a request, or the user of a machine, keeps their type.
LEMMA BindingFields ==
  ASSUME NEW b \in Bindings, NEW held \in SUBSET Machines
  PROVE  /\ [b EXCEPT !.stage = "cleared", !.held = held] \in Bindings
         /\ [b EXCEPT !.stage = "written", !.held = {}] \in Bindings
         /\ [b EXCEPT !.stage = "unbound"] \in Bindings
         /\ [b EXCEPT !.stage = "told"] \in Bindings
         /\ [b EXCEPT !.stage = "cleared", !.held = held].stage = "cleared"
         /\ [b EXCEPT !.stage = "cleared", !.held = held].held = held
         /\ [b EXCEPT !.stage = "written", !.held = {}].stage = "written"
         /\ [b EXCEPT !.stage = "unbound"].stage = "unbound"
         /\ [b EXCEPT !.stage = "told"].stage = "told"
BY DEF Bindings

LEMMA RowUser ==
  ASSUME NEW row \in MachineRows, NEW user \in Operators \cup {NONE}
  PROVE  [row EXCEPT !.user = user] \in MachineRows
BY DEF MachineRows

LEMMA AskType == ASSUME TypeOK, NEW o \in Devices, Ask(o) PROVE TypeOK'
BY DEF TypeOK, Ask, socket

LEMMA AnswerType == ASSUME TypeOK, NEW o \in Devices, Answer(o) PROVE TypeOK'
<1>1. PICK m \in IF BoundTo(o) = {} THEN {NONE} ELSE BoundTo(o) :
        fetch' = [fetch EXCEPT ![o] = m]
  BY DEF Answer
<1>2. m \in Machines \cup {NONE}
  BY <1>1 DEF BoundTo
<1>3. fetch' \in [Devices -> Machines \cup {NONE, IDLE, SENT}]
  BY <1>1, <1>2 DEF TypeOK
<1> QED BY <1>3 DEF TypeOK, Answer, socket

LEMMA FetchFailsType == ASSUME TypeOK, NEW o \in Devices, FetchFails(o) PROVE TypeOK'
<1>1. edits' \in 0..MaxEdits /\ faults' \in 0..MaxFaults
  BY FaultsType DEF FetchFails
<1> QED BY <1>1 DEF TypeOK, FetchFails, socket

LEMMA ShowType == ASSUME TypeOK, NEW o \in Devices, Show(o) PROVE TypeOK'
<1>1. link' \in [Devices -> Links] /\ resync' \in [Devices -> BOOLEAN]
  <2>1. CASE UNCHANGED socket
    BY <2>1 DEF TypeOK, socket, Links
  <2>2. ASSUME NEW first \in BOOLEAN,
               link' = [link EXCEPT ![o] = "down"],
               resync' = [resync EXCEPT ![o] = @ \/ first]
        PROVE  link' \in [Devices -> Links] /\ resync' \in [Devices -> BOOLEAN]
    BY <2>2 DEF TypeOK, Links
  <2> QED BY <2>1, <2>2 DEF Show
<1>2. /\ screen' \in [Devices -> Machines \cup {NONE, LOADING}]
      /\ fetch' \in [Devices -> Machines \cup {NONE, IDLE, SENT}]
  BY DEF TypeOK, Show, IDLE, SENT
<1> QED BY <1>1, <1>2 DEF TypeOK, Show, Links

LEMMA ClosedType == ASSUME TypeOK, NEW o \in Devices, Closed(o) PROVE TypeOK'
<1>1. edits' \in 0..MaxEdits /\ faults' \in 0..MaxFaults
  BY FaultsType DEF Closed
<1> QED BY <1>1 DEF TypeOK, Closed

LEMMA OpenedType == ASSUME TypeOK, NEW o \in Devices, Opened(o) PROVE TypeOK'
<1>1. /\ fetch' \in [Devices -> Machines \cup {NONE, IDLE, SENT}]
      /\ lapse' \in [Devices -> BOOLEAN]
  BY AskAgainType DEF Opened
<1> QED BY <1>1 DEF TypeOK, Opened

LEMMA RegisteredType == ASSUME TypeOK, NEW o \in Devices, Registered(o) PROVE TypeOK'
BY DEF TypeOK, Registered

LEMMA BindRequestType ==
  ASSUME TypeOK, NEW o \in Operators, NEW m \in Machines, BindRequest(o, m)
  PROVE  TypeOK'
<1>1. edits' \in 0..MaxEdits /\ faults' \in 0..MaxFaults
  BY EditsType DEF BindRequest
<1>2. BoundTo(o) \in SUBSET Machines
  BY DEF BoundTo
<1> QED BY <1>1, <1>2 DEF TypeOK, BindRequest, device, socket

LEMMA ClearOwnType ==
  ASSUME TypeOK, NEW o \in Operators, ClearOwn(o)
  PROVE  TypeOK' /\ binding'[o].stage = "cleared" /\ binding'[o].held = BoundTo(o)
<1>1. BoundTo(o) \in SUBSET Machines /\ binding[o] \in Bindings
  BY DEF BoundTo, TypeOK, Bindings
<1> DEFINE b == [binding[o] EXCEPT !.stage = "cleared", !.held = BoundTo(o)]
<1>2. b \in Bindings /\ b.stage = "cleared" /\ b.held = BoundTo(o)
  BY <1>1, BindingFields
<1>3. binding' = [binding EXCEPT ![o] = b]
  BY DEF ClearOwn
<1> HIDE DEF b
<1>4. binding' \in [Operators -> Bindings] /\ binding'[o] = b
  BY <1>2, <1>3 DEF TypeOK, Bindings
<1> QED BY <1>2, <1>4 DEF TypeOK, ClearOwn, device, socket, Bindings

LEMMA AssignType ==
  ASSUME TypeOK, NEW o \in Operators, Assign(o)
  PROVE  TypeOK' /\ binding'[o].stage = "written"
<1>1. machine' \in [Machines -> MachineRows]
  BY RowUser DEF TypeOK, Assign, Assigned, MachineRows
<1>2. binding[o] \in Bindings /\ {} \in SUBSET Machines
  BY DEF TypeOK, Bindings
<1> DEFINE b == [binding[o] EXCEPT !.stage = "written", !.held = {}]
<1>3. b \in Bindings /\ b.stage = "written"
  BY <1>2, BindingFields
<1>4. binding' = [binding EXCEPT ![o] = b]
  BY DEF Assign
<1> HIDE DEF b
<1>5. binding' \in [Operators -> Bindings] /\ binding'[o] = b
  BY <1>3, <1>4 DEF TypeOK, Bindings
<1> QED BY <1>1, <1>3, <1>5 DEF TypeOK, Assign, device, socket, Bindings, MachineRows

LEMMA DeadlockedType == ASSUME TypeOK, NEW o \in Operators, Deadlocked(o) PROVE TypeOK'
BY DEF TypeOK, Deadlocked, NoBinding, device, socket

LEMMA BindBroadcastType ==
  ASSUME TypeOK, NEW o \in Operators, BindBroadcast(o) \/ UnbindBroadcast(o)
  PROVE  TypeOK' /\ binding'[o].stage = "told"
<1>1. /\ fetch' \in [Devices -> Machines \cup {NONE, IDLE, SENT}]
      /\ lapse' \in [Devices -> BOOLEAN]
  BY BroadcastType DEF BindBroadcast, UnbindBroadcast
<1>2. binding[o] \in Bindings /\ {} \in SUBSET Machines
  BY DEF TypeOK, Bindings
<1> DEFINE b == [binding[o] EXCEPT !.stage = "told"]
<1>3. b \in Bindings /\ b.stage = "told"
  BY <1>2, BindingFields
<1>4. binding' = [binding EXCEPT ![o] = b]
  BY DEF BindBroadcast, UnbindBroadcast
<1> HIDE DEF b
<1>5. binding' \in [Operators -> Bindings] /\ binding'[o] = b
  BY <1>3, <1>4 DEF TypeOK, Bindings
<1> QED BY <1>1, <1>3, <1>5 DEF TypeOK, BindBroadcast, UnbindBroadcast, socket, Bindings

LEMMA BindAnsweredType ==
  ASSUME TypeOK, NEW o \in Operators, NEW lost \in BOOLEAN, BindAnswered(o, lost)
  PROVE  TypeOK'
<1>1. /\ fetch' \in [Devices -> Machines \cup {NONE, IDLE, SENT}]
      /\ lapse' \in [Devices -> BOOLEAN]
  BY AskAgainType DEF BindAnswered
<1> QED BY <1>1 DEF TypeOK, BindAnswered, NoBinding, socket

LEMMA UnbindRequestType == ASSUME TypeOK, NEW o \in Operators, UnbindRequest(o) PROVE TypeOK'
<1>1. edits' \in 0..MaxEdits /\ faults' \in 0..MaxFaults
  BY EditsType DEF UnbindRequest
<1>2. BoundTo(o) \in SUBSET Machines
  BY DEF BoundTo
<1> QED BY <1>1, <1>2 DEF TypeOK, UnbindRequest, device, socket

LEMMA UnbindType ==
  ASSUME TypeOK, NEW o \in Operators, Unbind(o)
  PROVE  TypeOK' /\ binding'[o].stage = "unbound"
<1>1. ASSUME NEW m \in Machines
      PROVE  [machine[m] EXCEPT !.user = IF @ = o THEN NONE ELSE @] \in MachineRows
  BY RowUser DEF TypeOK, MachineRows
<1>2. machine' \in [Machines -> MachineRows]
  BY <1>1 DEF Unbind
<1>3. binding[o] \in Bindings /\ {} \in SUBSET Machines
  BY DEF TypeOK, Bindings
<1> DEFINE b == [binding[o] EXCEPT !.stage = "unbound"]
<1>4. b \in Bindings /\ b.stage = "unbound"
  BY <1>3, BindingFields
<1>5. binding' = [binding EXCEPT ![o] = b]
  BY DEF Unbind
<1> HIDE DEF b
<1>6. binding' \in [Operators -> Bindings] /\ binding'[o] = b
  BY <1>4, <1>5 DEF TypeOK, Bindings
<1> QED BY <1>2, <1>4, <1>6 DEF TypeOK, Unbind, device, socket, Bindings, MachineRows

LEMMA EditRequestType ==
  ASSUME TypeOK, NEW d \in Desks, NEW m \in Machines, NEW patch \in Patches,
         EditRequest(d, m, patch)
  PROVE  TypeOK'
<1>1. edits' \in 0..MaxEdits /\ faults' \in 0..MaxFaults
  BY EditsType DEF EditRequest
<1>2. machine[m].user \in Operators \cup {NONE}
  BY DEF TypeOK
<1> QED BY <1>1, <1>2 DEF TypeOK, EditRequest, device, socket

\* The fields of a patch that an update writes.
LEMMA PatchFields ==
  ASSUME NEW patch \in Patches \cup {NoPatch}
  PROVE  /\ patch.sector \in Sectors \cup {KEEP}
         /\ patch.street \in Streets \cup {NONE, KEEP}
         /\ patch.user \in {NONE, KEEP}
BY DEF Patches, NoPatch

Edits ==
  [stage : {"none", "checked", "written"}, id : Machines \cup {NONE},
   patch : Patches \cup {NoPatch}, before : Operators \cup {NONE}]

LEMMA EditWriteType ==
  ASSUME TypeOK, NEW d \in Desks, EditWrite(d)
  PROVE  TypeOK' /\ edit'[d].stage = "written"
<1> DEFINE m == edit[d].id
           patch == edit[d].patch
<1>1. patch \in Patches \cup {NoPatch}
  BY DEF TypeOK
<1>2. /\ patch.sector \in Sectors \cup {KEEP}
      /\ patch.street \in Streets \cup {NONE, KEEP}
      /\ patch.user \in {NONE, KEEP}
  BY <1>1, PatchFields
<1> HIDE DEF m, patch
<1>3. machine' \in [Machines -> [sector : Sectors, street : Streets \cup {NONE},
                                 user : Operators \cup {NONE}]]
  <2>1. machine' = [machine EXCEPT ![m] = [sector |-> or(patch.sector, @.sector),
                                           street |-> or(patch.street, @.street),
                                           user   |-> or(patch.user, @.user)]]
    BY DEF EditWrite, m, patch
  <2>2. ASSUME m \in Machines
        PROVE  /\ or(patch.sector, machine[m].sector) \in Sectors
               /\ or(patch.street, machine[m].street) \in Streets \cup {NONE}
               /\ or(patch.user, machine[m].user) \in Operators \cup {NONE}
    BY <1>2, <2>2 DEF TypeOK, or
  <2> QED BY <2>1, <2>2 DEF TypeOK
<1>4. edit' \in [Desks -> Edits] /\ edit'[d].stage = "written"
  <2>1. edit[d] \in Edits
    BY DEF TypeOK, Edits
  <2> DEFINE e == [edit[d] EXCEPT !.stage = "written"]
  <2>2. e \in Edits /\ e.stage = "written"
    BY <2>1 DEF Edits
  <2>3. edit' = [edit EXCEPT ![d] = e]
    BY DEF EditWrite
  <2> HIDE DEF e
  <2> QED BY <2>2, <2>3 DEF TypeOK, Edits
<1> QED BY <1>3, <1>4 DEF TypeOK, EditWrite, device, socket, Edits

LEMMA EditAnsweredType == ASSUME TypeOK, NEW d \in Desks, EditAnswered(d) PROVE TypeOK'
<1>1. /\ fetch' \in [Devices -> Machines \cup {NONE, IDLE, SENT}]
      /\ lapse' \in [Devices -> BOOLEAN]
  BY BroadcastType DEF EditAnswered
<1> QED BY <1>1 DEF TypeOK, EditAnswered, NoEdit, socket

LEMMA SectorType ==
  ASSUME TypeOK, NEW o \in Operators, NEW s \in Sectors \cup {NONE}, updateUserSector(o, s)
  PROVE  TypeOK'
<1>1. edits' \in 0..MaxEdits /\ faults' \in 0..MaxFaults
  BY EditsType DEF updateUserSector
<1> QED BY <1>1 DEF TypeOK, updateUserSector, device, socket

\* A step of a device writes only what the device keeps.
DeviceStep(o) ==
  \/ Fetching(o) \/ FetchFails(o) \/ Poll(o) \/ Focus(o)
  \/ Linking(o) \/ Closed(o)

LEMMA DeviceWrites ==
  ASSUME NEW o, DeviceStep(o)
  PROVE  UNCHANGED <<machine, sectorId, binding, edit>>
BY DEF DeviceStep, Fetching, Answer, Show, FetchFails, Poll, Focus, Ask, Linking, Opened,
       Registered, Closed

LEMMA NextTypeOK == TypeOK /\ [Next]_vars => TypeOK'
<1> SUFFICES ASSUME TypeOK, [Next]_vars PROVE TypeOK'
  OBVIOUS
<1>1. CASE UNCHANGED vars
  BY <1>1 DEF TypeOK, vars
<1>2. ASSUME NEW o \in Operators, BindingStep(o) PROVE TypeOK'
  BY <1>2, ClearOwnType, AssignType, DeadlockedType, UnbindType, BindBroadcastType,
     BindAnsweredType DEF BindingStep
<1>3. ASSUME NEW o \in Devices, DeviceStep(o) PROVE TypeOK'
  BY <1>3, AnswerType, ShowType, FetchFailsType, AskType, OpenedType, RegisteredType, ClosedType
     DEF DeviceStep, Fetching, Poll, Focus, Linking
<1>4. ASSUME NEW d \in Desks, EditStep(d) PROVE TypeOK'
  BY <1>4, EditWriteType, EditAnsweredType DEF EditStep
<1> QED
  BY <1>1, <1>2, <1>3, <1>4, UnbindRequestType, BindRequestType, SectorType, EditRequestType
     DEF Next, DeviceStep

\* Rows, requests, screens and answers keep their shape.
THEOREM TypeCorrect == Spec => []TypeOK
BY InitTypeOK, NextTypeOK, PTL DEF Spec
-----------------------------------------------------------------------------
(* One machine each.                                                       *)

\* What every step does to who sits at a machine: at most the operator of one
\* transaction gets her target, everybody else keeps the machine or loses it.
LEMMA WhoSits ==
  ASSUME TypeOK, [Next]_vars
  PROVE  \/ \A m \in Machines : machine'[m].user \in {machine[m].user, NONE}
         \/ \E o \in Operators : Assign(o)
<1>1. CASE UNCHANGED vars
  BY <1>1 DEF vars
<1>2. ASSUME NEW o \in Operators, BindingStep(o)
      PROVE  Assign(o) \/ \A m \in Machines : machine'[m].user \in {machine[m].user, NONE}
  <2>1. CASE Unbind(o)
    BY <2>1 DEF TypeOK, Unbind
  <2> QED BY <1>2, <2>1 DEF BindingStep, ClearOwn, Deadlocked, BindBroadcast, BindAnswered,
                          UnbindBroadcast
<1>3. ASSUME NEW o \in Devices, DeviceStep(o) PROVE UNCHANGED machine
  BY <1>3, DeviceWrites
<1>4. ASSUME NEW o \in Operators,
             \/ UnbindRequest(o)
             \/ \E m \in Machines : BindRequest(o, m)
             \/ \E s \in Sectors \cup {NONE} : updateUserSector(o, s)
      PROVE  UNCHANGED machine
  BY <1>4 DEF UnbindRequest, BindRequest, updateUserSector
<1>5. ASSUME NEW d \in Desks, EditWrite(d)
      PROVE  \A m \in Machines : machine'[m].user \in {machine[m].user, NONE}
  <2> DEFINE patch == edit[d].patch
  <2>1. patch \in Patches \cup {NoPatch}
    BY DEF TypeOK
  <2>2. patch.user \in {NONE, KEEP}
    BY <2>1, PatchFields
  <2>3. \A m \in Machines : machine'[m].user \in {machine[m].user, or(patch.user, machine[m].user)}
    BY <1>5 DEF TypeOK, EditWrite
  <2> QED BY <2>2, <2>3 DEF or
<1>6. ASSUME NEW d \in Desks,
             EditAnswered(d) \/ \E m \in Machines, patch \in Patches : EditRequest(d, m, patch)
      PROVE  UNCHANGED machine
  BY <1>6 DEF EditAnswered, EditRequest
<1> QED
  BY <1>1, <1>2, <1>3, <1>4, <1>5, <1>6 DEF Next, DeviceStep, EditStep

\* A transaction that is open after a step was open before, with the same rows, or
\* has just taken the rows of its operator.
LEMMA WhoHolds ==
  ASSUME TypeOK, [Next]_vars, NEW o \in Operators, binding'[o].stage = "cleared"
  PROVE  \/ binding'[o] = binding[o]
         \/ UNCHANGED machine /\ binding'[o].held = BoundTo(o)
<1>1. CASE UNCHANGED vars
  BY <1>1 DEF vars
<1>2. ASSUME NEW p \in Operators, ClearOwn(p)
      PROVE  \/ binding'[o] = binding[o]
             \/ UNCHANGED machine /\ binding'[o].held = BoundTo(o)
  <2>1. CASE p = o
    BY <1>2, <2>1, ClearOwnType DEF ClearOwn
  <2>2. CASE p # o
    BY <1>2, <2>2 DEF TypeOK, ClearOwn
  <2> QED BY <2>1, <2>2
<1>3. ASSUME NEW p \in Operators,
             \/ Assign(p) \/ Deadlocked(p) \/ Unbind(p) \/ UnbindRequest(p)
             \/ BindBroadcast(p) \/ UnbindBroadcast(p)
             \/ \E lost \in BOOLEAN : BindAnswered(p, lost)
             \/ \E m \in Machines : BindRequest(p, m)
      PROVE  binding'[o] = binding[o]
  <2>1. binding'[p].stage # "cleared"
    <3>1. CASE Assign(p) \/ Unbind(p)
      BY <3>1, AssignType, UnbindType
    <3>2. CASE Deadlocked(p)
      BY <3>2 DEF TypeOK, Deadlocked, NoBinding
    <3>3. CASE UnbindRequest(p)
      BY <3>3 DEF TypeOK, UnbindRequest
    <3>4. ASSUME NEW m \in Machines, BindRequest(p, m) PROVE binding'[p].stage = "checked"
      BY <3>4 DEF TypeOK, BindRequest
    <3>5. ASSUME NEW lost \in BOOLEAN, BindAnswered(p, lost)
          PROVE  binding'[p].stage = "none"
      BY <3>5 DEF TypeOK, BindAnswered, NoBinding
    <3>6. CASE BindBroadcast(p) \/ UnbindBroadcast(p)
      BY <3>6, BindBroadcastType
    <3> QED BY <1>3, <3>1, <3>2, <3>3, <3>4, <3>5, <3>6
  <2>2. p # o
    BY <2>1
  <2> QED BY <1>3, <2>2 DEF TypeOK, Assign, Deadlocked, Unbind, UnbindRequest,
                BindBroadcast, UnbindBroadcast, BindAnswered, BindRequest
<1>4. ASSUME NEW p,
             \/ DeviceStep(p)
             \/ \E s \in Sectors \cup {NONE} : updateUserSector(p, s)
      PROVE  UNCHANGED binding
  BY <1>4, DeviceWrites DEF updateUserSector
<1>5. ASSUME NEW d \in Desks,
             EditStep(d) \/ \E m \in Machines, patch \in Patches : EditRequest(d, m, patch)
      PROVE  UNCHANGED binding
  BY <1>5 DEF EditStep, EditWrite, EditAnswered, EditRequest
<1> QED
  BY <1>1, <1>2, <1>3, <1>4, <1>5 DEF Next, DeviceStep, BindingStep

LEMMA AssignedUsers ==
  ASSUME TypeOK, NEW o \in Operators, Assign(o), NEW m \in Machines
  PROVE  machine'[m].user = IF m = binding[o].target THEN o
                            ELSE IF m \in binding[o].held THEN NONE ELSE machine[m].user
BY DEF TypeOK, Assign, Assigned

LEMMA HeldInduction == TypeOK /\ HeldRows /\ [Next]_vars => HeldRows'
<1> SUFFICES ASSUME TypeOK, HeldRows, [Next]_vars,
                    NEW o \in Operators, binding'[o].stage = "cleared",
                    NEW m \in Machines, machine'[m].user = o
             PROVE  m \in binding'[o].held
  BY DEF HeldRows
<1>1. o # NONE
  BY NoneIsNothing
<1>2. \/ binding'[o] = binding[o]
      \/ UNCHANGED machine /\ binding'[o].held = BoundTo(o)
  BY WhoHolds
<1>3. CASE UNCHANGED machine /\ binding'[o].held = BoundTo(o)
  BY <1>3 DEF BoundTo
<1>4. CASE binding'[o] = binding[o]
  <2>1. CASE \A k \in Machines : machine'[k].user \in {machine[k].user, NONE}
    BY <1>1, <1>4, <2>1 DEF HeldRows
  <2>2. ASSUME NEW p \in Operators, Assign(p) PROVE machine[m].user = o
    <3>1. p # o
      BY <2>2, AssignType
    <3> QED BY <1>1, <2>2, <3>1, AssignedUsers
  <2> QED BY <1>4, <2>1, <2>2, WhoSits DEF HeldRows
<1> QED BY <1>2, <1>3, <1>4

LEMMA OneMachineInduction ==
  TypeOK /\ HeldRows /\ OneMachineEach /\ [Next]_vars => OneMachineEach'
<1> SUFFICES ASSUME TypeOK, HeldRows, OneMachineEach, [Next]_vars,
                    NEW m \in Machines, NEW n \in Machines,
                    machine'[m].user = machine'[n].user, machine'[m].user # NONE
             PROVE  m = n
  BY DEF OneMachineEach
<1>1. CASE \A k \in Machines : machine'[k].user \in {machine[k].user, NONE}
  BY <1>1 DEF OneMachineEach
<1>2. ASSUME NEW o \in Operators, Assign(o) PROVE m = n
  <2>1. \A k \in Machines : machine[k].user = o => k \in binding[o].held
    BY <1>2 DEF Assign, HeldRows
  <2>2. \A k \in Machines : machine'[k].user = o => k = binding[o].target
    BY <1>2, <2>1, AssignedUsers, NoneIsNothing
  <2>3. CASE machine'[m].user = o
    BY <2>2, <2>3
  <2>4. CASE machine'[m].user # o
    <3>1. machine'[m].user = machine[m].user /\ machine'[n].user = machine[n].user
      BY <1>2, <2>4, AssignedUsers
    <3> QED BY <3>1 DEF OneMachineEach
  <2> QED BY <2>3, <2>4
<1> QED BY <1>1, <1>2, WhoSits

\* An operator never works at two machines, whatever transactions of how many operators
\* overlap: the first statement frees all machines that are hers and the second gives
\* her one.
THEOREM OneMachineAlways == Spec => []OneMachineEach
<1>1. Init => HeldRows
  BY DEF Init, HeldRows, NoBinding
<1>2. Init => OneMachineEach
  <2> SUFFICES ASSUME Init, NEW m \in Machines, NEW n \in Machines,
                      machine[m].user = machine[n].user, machine[m].user # NONE
               PROVE  m = n
    BY DEF OneMachineEach
  <2>1. PICK seat \in [Machines -> Operators \cup {NONE}] :
          /\ \A i, j \in Machines : seat[i] = seat[j] /\ seat[i] # NONE => i = j
          /\ machine = [i \in Machines |-> [sector |-> Home, street |-> NONE, user |-> seat[i]]]
    BY DEF Init
  <2>2. machine[m].user = seat[m] /\ machine[n].user = seat[n]
    BY <2>1
  <2> QED BY <2>1, <2>2
<1> QED BY <1>1, <1>2, InitTypeOK, NextTypeOK, HeldInduction, OneMachineInduction, PTL DEF Spec
-----------------------------------------------------------------------------
(* Streets and sectors.                                                    *)

\* Only an update of a desk moves a machine or gives it a street.
LEMMA WhoMoves ==
  ASSUME TypeOK, [Next]_vars
  PROVE  \/ \A m \in Machines : /\ machine'[m].sector = machine[m].sector
                                /\ machine'[m].street = machine[m].street
         \/ \E d \in Desks : EditWrite(d)
<1>1. CASE UNCHANGED vars
  BY <1>1 DEF vars
<1>2. ASSUME NEW o \in Operators, Assign(o) \/ Unbind(o)
      PROVE  \A m \in Machines : /\ machine'[m].sector = machine[m].sector
                                 /\ machine'[m].street = machine[m].street
  BY <1>2 DEF TypeOK, Assign, Assigned, Unbind
<1>3. ASSUME NEW o \in Operators,
             \/ ClearOwn(o) \/ Deadlocked(o) \/ UnbindRequest(o)
             \/ BindBroadcast(o) \/ UnbindBroadcast(o)
             \/ \E lost \in BOOLEAN : BindAnswered(o, lost)
             \/ \E m \in Machines : BindRequest(o, m)
             \/ \E s \in Sectors \cup {NONE} : updateUserSector(o, s)
      PROVE  UNCHANGED machine
  BY <1>3 DEF ClearOwn, Deadlocked, UnbindRequest, BindBroadcast, UnbindBroadcast,
              BindAnswered, BindRequest, updateUserSector
<1>5. ASSUME NEW o \in Devices, DeviceStep(o) PROVE UNCHANGED machine
  BY <1>5, DeviceWrites
<1>4. ASSUME NEW d \in Desks,
             EditAnswered(d) \/ \E m \in Machines, patch \in Patches : EditRequest(d, m, patch)
      PROVE  UNCHANGED machine
  BY <1>4 DEF EditAnswered, EditRequest
<1> QED
  BY <1>1, <1>2, <1>3, <1>4, <1>5 DEF Next, DeviceStep, BindingStep, EditStep

\* StreetFits looks at the street and the sector only.
LEMMA FitsLooksAt ==
  ASSUME NEW row, NEW row2, NEW patch,
         row.sector = row2.sector, row.street = row2.street, StreetFits(row, patch)
  PROVE  StreetFits(row2, patch)
BY DEF StreetFits, or

\* A request of a desk that is between check and write was so before, or is new.
LEMMA WhoEdits ==
  ASSUME TypeOK, [Next]_vars, NEW d \in Desks, edit'[d].stage = "checked"
  PROVE  \/ edit'[d] = edit[d]
         \/ \E m \in Machines, patch \in Patches : EditRequest(d, m, patch)
<1>1. CASE UNCHANGED vars
  BY <1>1 DEF vars
<1>2. ASSUME NEW o \in Operators,
             \/ BindingStep(o) \/ UnbindRequest(o)
             \/ \E m \in Machines : BindRequest(o, m)
             \/ \E s \in Sectors \cup {NONE} : updateUserSector(o, s)
      PROVE  UNCHANGED edit
  BY <1>2 DEF BindingStep, ClearOwn, Assign, Deadlocked, Unbind, BindBroadcast,
              UnbindBroadcast, BindAnswered, UnbindRequest, BindRequest, updateUserSector
<1>4. ASSUME NEW o \in Devices, DeviceStep(o) PROVE UNCHANGED edit
  BY <1>4, DeviceWrites
<1>3. ASSUME NEW e \in Desks,
             EditStep(e) \/ \E m \in Machines, patch \in Patches : EditRequest(e, m, patch)
      PROVE  \/ edit'[d] = edit[d]
             \/ \E m \in Machines, patch \in Patches : EditRequest(d, m, patch)
  <2>1. CASE e # d
    BY <1>3, <2>1 DEF TypeOK, EditStep, EditWrite, EditAnswered, EditRequest
  <2>2. CASE e = d
    <3>1. ~ EditWrite(d)
      BY EditWriteType
    <3>2. ~ EditAnswered(d)
      BY DEF TypeOK, EditAnswered, NoEdit
    <3> QED BY <1>3, <2>2, <3>1, <3>2 DEF EditStep
  <2> QED BY <2>1, <2>2
<1> QED BY <1>1, <1>2, <1>3, <1>4 DEF Next, DeviceStep

LEMMA StreetInduction ==
  ASSUME \A d, e \in Desks : d = e
  PROVE  TypeOK /\ CheckedStreets /\ EditedIds /\ StreetInSector /\ [Next]_vars
           => CheckedStreets' /\ EditedIds' /\ StreetInSector'
<1> SUFFICES ASSUME TypeOK, CheckedStreets, EditedIds, StreetInSector, [Next]_vars
             PROVE  CheckedStreets' /\ EditedIds' /\ StreetInSector'
  OBVIOUS
<1>3. EditedIds'
  <2> SUFFICES ASSUME NEW d \in Desks, edit'[d].stage = "checked"
               PROVE  edit'[d].id \in Machines
    BY DEF EditedIds
  <2>1. CASE edit'[d] = edit[d]
    BY <2>1 DEF EditedIds
  <2>2. ASSUME NEW m \in Machines, NEW patch \in Patches, EditRequest(d, m, patch)
        PROVE  edit'[d].id \in Machines
    BY <2>2 DEF TypeOK, EditRequest
  <2> QED BY <2>1, <2>2, WhoEdits
<1>1. ASSUME NEW d \in Desks, EditWrite(d) PROVE CheckedStreets' /\ StreetInSector'
  <2>1. edit'[d].stage = "written"
    BY <1>1, EditWriteType
  <2>2. CheckedStreets'
    BY <2>1 DEF CheckedStreets
  <2> DEFINE m == edit[d].id
             patch == edit[d].patch
  <2>3. StreetFits(machine[m], patch)
    BY <1>1 DEF EditWrite, CheckedStreets
  <2>4. ASSUME m \in Machines
        PROVE  /\ machine'[m].sector = or(patch.sector, machine[m].sector)
               /\ machine'[m].street = or(patch.street, machine[m].street)
    BY <1>1, <2>4 DEF TypeOK, EditWrite
  <2>5. \A n \in Machines \ {m} : machine'[n] = machine[n]
    BY <1>1 DEF TypeOK, EditWrite
  <2>6. ASSUME NEW n \in Machines, machine'[n].street # NONE
        PROVE  SectorOf(machine'[n].street) = machine'[n].sector
    BY <2>3, <2>4, <2>5, <2>6 DEF StreetFits, StreetInSector
  <2> QED BY <1>3, <2>2, <2>6 DEF StreetInSector
<1>2. CASE ~ \E d \in Desks : EditWrite(d)
  <2>1. \A m \in Machines : /\ machine'[m].sector = machine[m].sector
                            /\ machine'[m].street = machine[m].street
    BY <1>2, WhoMoves
  <2>2. StreetInSector'
    BY <2>1 DEF StreetInSector
  <2>3. ASSUME NEW d \in Desks, edit'[d].stage = "checked"
        PROVE  StreetFits(machine'[edit'[d].id], edit'[d].patch)
    <3>1. CASE edit'[d] = edit[d]
      <4>1. StreetFits(machine[edit[d].id], edit[d].patch)
        BY <2>3, <3>1 DEF CheckedStreets
      <4>2. edit[d].id \in Machines
        BY <2>3, <3>1 DEF EditedIds
      <4> QED BY <2>1, <3>1, <4>1, <4>2, FitsLooksAt
    <3>2. ASSUME NEW m \in Machines, NEW patch \in Patches, EditRequest(d, m, patch)
          PROVE  StreetFits(machine'[edit'[d].id], edit'[d].patch)
      BY <3>2 DEF TypeOK, EditRequest
    <3>3. \/ edit'[d] = edit[d]
          \/ \E m \in Machines, patch \in Patches : EditRequest(d, m, patch)
      BY <1>2, <2>3, WhoEdits
    <3> QED BY <3>1, <3>2, <3>3
  <2> QED BY <1>3, <2>2, <2>3 DEF CheckedStreets
<1> QED BY <1>1, <1>2, <1>3

\* While one desk at a time edits machines, whatever operators and administrators do
\* meanwhile, a machine with a street is in the street's sector.
THEOREM StreetAlways ==
  ASSUME \A d, e \in Desks : d = e
  PROVE  Spec => []StreetInSector
<1>1. Init => CheckedStreets /\ EditedIds /\ StreetInSector
  <2> SUFFICES ASSUME Init PROVE CheckedStreets /\ EditedIds /\ StreetInSector
    OBVIOUS
  <2>1. \A d \in Desks : edit[d].stage = "none"
    BY DEF Init, NoEdit
  <2>2. \A m \in Machines : machine[m].street = NONE
    BY DEF Init
  <2> QED BY <2>1, <2>2 DEF CheckedStreets, EditedIds, StreetInSector
<1>2. TypeOK /\ CheckedStreets /\ EditedIds /\ StreetInSector /\ [Next]_vars
        => CheckedStreets' /\ EditedIds' /\ StreetInSector'
  BY StreetInduction
<1> QED BY <1>1, <1>2, InitTypeOK, NextTypeOK, PTL DEF Spec
=============================================================================
