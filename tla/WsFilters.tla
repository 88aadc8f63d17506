------------------------------- MODULE WsFilters -------------------------------
(***************************************************************************)
(* Who gets a realtime event.  The hub of the back-end decides to which    *)
(* connected clients it sends a payload; the front-end decides again, with *)
(* its own copy of the rules, whether an event concerns the user.          *)
(* A context is [user, role, sector, machine, types], a payload is         *)
(* [type, sector, moviment, dest, machine, affected, operator, status];    *)
(* what is null or missing is NONE.                                        *)
(***************************************************************************)

NONE == "NONE"

AppRoles == {"ADMIN", "SUPERADMIN", "LEADER", "SUPPLY_OPERATOR", "OPERATOR_MACHINE",
             "PALLET_TRANSPORTER"}

TaskUpdated == {"delivery_task_updated", "pickup_task_updated"}

SECTOR_QUEUE_EVENT_TYPES ==
  {"delivery_task_created", "delivery_queue_updated", "trip_suggestions_updated",
   "replenishment_request_created", "replenishment_queue_updated",
   "machine_production_status_updated"}

SUPPLY_REPLENISHMENT_EVENT_TYPES ==
  {"operator_supply_request_created", "delivery_task_created", "delivery_task_updated",
   "machine_production_status_updated", "machine_tooling_updated"}

MACHINE_CADASTRO_EVENT_TYPES ==
  {"machine_operator_updated", "machine_production_status_updated", "machine_tooling_updated"}

MACHINE_OPERATOR_EVENT_TYPES ==
  TaskUpdated \cup MACHINE_CADASTRO_EVENT_TYPES \cup {"replenishment_status_updated"}

\* hasAdminPrivileges, isAdminOrSuperAdmin
Admins == {"ADMIN", "SUPERADMIN"}
OPERATOR_MACHINE_ROLES == Admins \cup {"OPERATOR_MACHINE"}
\* The hub's MACHINE_CADASTRO_ROLES and SUPPLY_REPLENISHMENT_ROLES.
MACHINE_DOMAIN_ROLES == Admins \cup {"LEADER", "SUPPLY_OPERATOR"}
SUPERVISION_ROLES == Admins \cup {"LEADER"}
-----------------------------------------------------------------------------
(* The hub.                                                                *)

sectorMatches(client, payload) ==
  payload.sector = NONE \/ client.sector = NONE \/ payload.sector = client.sector

movimentTypeMatches(client, payload) ==
  payload.moviment = NONE \/ payload.moviment \in client.types

matchesMovimentOperator(client, payload) ==
  /\ client.role = "PALLET_TRANSPORTER"
  /\ payload.type \in SECTOR_QUEUE_EVENT_TYPES \cup TaskUpdated
  /\ sectorMatches(client, payload)
  /\ movimentTypeMatches(client, payload)

isForItsMachine(client, payload) ==
  client.machine # NONE /\ payload.machine # NONE /\ payload.machine = client.machine

matchesMachineOperator(client, payload) ==
  /\ payload.type \in MACHINE_OPERATOR_EVENT_TYPES
  /\ client.role \in OPERATOR_MACHINE_ROLES
  /\ \/ /\ payload.type = "machine_operator_updated"
        /\ payload.affected = client.user
     \/ /\ payload.type = "machine_production_status_updated"
        /\ payload.operator # NONE
        /\ payload.operator = client.user
     \/ /\ payload.type # "machine_operator_updated"
        /\ payload.dest = client.user \/ isForItsMachine(client, payload)

matchesMachineCadastro(client, payload) ==
  /\ payload.type \in MACHINE_CADASTRO_EVENT_TYPES
  /\ client.role \in MACHINE_DOMAIN_ROLES
  /\ sectorMatches(client, payload)

matchesSupplyReplenishment(client, payload) ==
  /\ payload.type \in SUPPLY_REPLENISHMENT_EVENT_TYPES
  /\ client.role \in MACHINE_DOMAIN_ROLES
  /\ sectorMatches(client, payload)

matchesSupervision(client, payload) ==
  /\ payload.type \in TaskUpdated
  /\ client.role \in SUPERVISION_ROLES
  /\ sectorMatches(client, payload)

shouldSendToClient(client, payload) ==
  \/ matchesMachineCadastro(client, payload)
  \/ matchesSupplyReplenishment(client, payload)
  \/ matchesMachineOperator(client, payload)
  \/ matchesMovimentOperator(client, payload)
  \/ matchesSupervision(client, payload)
-----------------------------------------------------------------------------
(* The front-end.  Its lists of event types and roles are the hub's,       *)
(* except where a definition below says otherwise.                         *)

\* Administrators filter by no sector.
wsContext(user) ==
  [user EXCEPT !.sector = IF user.role \in Admins THEN NONE ELSE user.sector]

\* No type (no equipment chosen yet) means every type.
wsEventMatchesMovimentOperator(event, me) ==
  /\ event.type \in SECTOR_QUEUE_EVENT_TYPES \cup TaskUpdated
  /\ event.sector = NONE \/ me.sector = NONE \/ event.sector = me.sector
  /\ event.moviment = NONE \/ me.types = {} \/ event.moviment \in me.types

\* The comparison of sectors adds nothing to that of machines.
wsEventMatchesMachineOperator(event, me) ==
  /\ me.user # NONE
  /\ event.type \in MACHINE_OPERATOR_EVENT_TYPES
  /\ \/ /\ event.type = "machine_operator_updated"
        /\ event.affected = me.user
     \/ /\ event.type = "machine_production_status_updated"
        /\ event.operator # NONE
        /\ event.operator = me.user
     \/ /\ event.type # "machine_operator_updated"
        /\ event.dest = me.user \/ isForItsMachine(me, event)

wsEventMatchesMachineCadastro(event, me) ==
  /\ event.type \in MACHINE_CADASTRO_EVENT_TYPES
  /\ me.sector = NONE \/ event.sector = me.sector

\* The front-end's list has two types more than the hub's.
wsEventMatchesSupplyReplenishment(event, me) ==
  /\ event.type \in SUPPLY_REPLENISHMENT_EVENT_TYPES
                    \cup {"pickup_task_updated", "trip_suggestions_updated"}
  /\ event.sector = NONE \/ me.sector = NONE \/ event.sector = me.sector

isMovimentOperator(me)    == me.role = "PALLET_TRANSPORTER"
isMachineOperator(me)     == me.role \in OPERATOR_MACHINE_ROLES
isSupplyReplenishment(me) == me.role \in MACHINE_DOMAIN_ROLES
isMachineCadastro(me)     == me.role \in MACHINE_DOMAIN_ROLES \cup SUPERVISION_ROLES

wsEventMatchesSubscriber(event, me) ==
  \/ isSupplyReplenishment(me) /\ wsEventMatchesSupplyReplenishment(event, me)
  \/ isMachineCadastro(me) /\ wsEventMatchesMachineCadastro(event, me)
  \/ isMachineOperator(me) /\ wsEventMatchesMachineOperator(event, me)
  \/ isMovimentOperator(me) /\ wsEventMatchesMovimentOperator(event, me)
=============================================================================
