---------------------------- MODULE WsFiltersProofs ----------------------------
(* What the hub sends, the front-end does not throw away.                   *)
EXTENDS WsFilters, TLAPS

Contexts(U, S, M, T) ==
  [user : U, role : AppRoles, sector : S, machine : M, types : SUBSET T]

LEMMA ContextKeepsTheRest ==
  ASSUME NEW U, NEW S, NEW M, NEW T, NEW me \in Contexts(U, S, M, T)
  PROVE  /\ wsContext(me).user = me.user
         /\ wsContext(me).role = me.role
         /\ wsContext(me).machine = me.machine
         /\ wsContext(me).types = me.types
         /\ wsContext(me).sector = IF me.role \in Admins THEN NONE ELSE me.sector
BY DEF wsContext, Contexts

\* The roles a client may have besides those of a rule are sorted out the same way on
\* both sides, so each way to be sent an event is a way to be concerned by it; only an
\* event without a sector would be sent to the desks and thrown away there.
THEOREM SentIsHeard ==
  ASSUME NEW U, NEW S, NEW M, NEW T, NEW me \in Contexts(U, S, M, T), me.user # NONE,
         NEW event, event.sector # NONE,
         shouldSendToClient(me, event)
  PROVE  wsEventMatchesSubscriber(event, wsContext(me))
<1> DEFINE you == wsContext(me)
<1>1. /\ you.user = me.user /\ you.role = me.role
      /\ you.machine = me.machine /\ you.types = me.types
      /\ you.sector = IF me.role \in Admins THEN NONE ELSE me.sector
  BY ContextKeepsTheRest
<1> HIDE DEF you
<1>2. CASE matchesMachineCadastro(me, event)
  <2>1. isMachineCadastro(you)
    BY <1>1, <1>2 DEF matchesMachineCadastro, isMachineCadastro
  <2>2. wsEventMatchesMachineCadastro(event, you)
    <3>1. event.type \in MACHINE_CADASTRO_EVENT_TYPES
      BY <1>2 DEF matchesMachineCadastro
    <3>2. you.sector = NONE \/ event.sector = you.sector
      BY <1>1, <1>2 DEF matchesMachineCadastro, sectorMatches
    <3> QED BY <3>1, <3>2 DEF wsEventMatchesMachineCadastro
  <2> QED BY <2>1, <2>2 DEF wsEventMatchesSubscriber, you
<1>3. CASE matchesSupplyReplenishment(me, event)
  <2>1. isSupplyReplenishment(you)
    BY <1>1, <1>3 DEF matchesSupplyReplenishment, isSupplyReplenishment
  <2>2. wsEventMatchesSupplyReplenishment(event, you)
    BY <1>1, <1>3 DEF matchesSupplyReplenishment, sectorMatches, wsEventMatchesSupplyReplenishment
  <2> QED BY <2>1, <2>2 DEF wsEventMatchesSubscriber, you
<1>4. CASE matchesMachineOperator(me, event)
  <2>1. isMachineOperator(you)
    BY <1>1, <1>4 DEF matchesMachineOperator, isMachineOperator
  <2>2. isForItsMachine(me, event) => isForItsMachine(you, event)
    BY <1>1 DEF isForItsMachine
  <2>3. wsEventMatchesMachineOperator(event, you)
    BY <1>1, <1>4, <2>2 DEF matchesMachineOperator, wsEventMatchesMachineOperator
  <2> QED BY <2>1, <2>3 DEF wsEventMatchesSubscriber, you
<1>5. CASE matchesMovimentOperator(me, event)
  <2>1. isMovimentOperator(you)
    BY <1>1, <1>5 DEF matchesMovimentOperator, isMovimentOperator
  <2>2. wsEventMatchesMovimentOperator(event, you)
    BY <1>1, <1>5 DEF matchesMovimentOperator, sectorMatches, movimentTypeMatches,
                      wsEventMatchesMovimentOperator
  <2> QED BY <2>1, <2>2 DEF wsEventMatchesSubscriber, you
<1>6. CASE matchesSupervision(me, event)
  <2>1. isSupplyReplenishment(you)
    BY <1>1, <1>6 DEF matchesSupervision, SUPERVISION_ROLES, MACHINE_DOMAIN_ROLES,
                      isSupplyReplenishment
  <2>2. event.type \in SUPPLY_REPLENISHMENT_EVENT_TYPES \cup {"pickup_task_updated"}
    BY <1>6 DEF matchesSupervision, TaskUpdated, SUPPLY_REPLENISHMENT_EVENT_TYPES
  <2>3. wsEventMatchesSupplyReplenishment(event, you)
    BY <1>1, <1>6, <2>2 DEF matchesSupervision, sectorMatches, wsEventMatchesSupplyReplenishment
  <2> QED BY <2>1, <2>3 DEF wsEventMatchesSubscriber, you
<1> QED BY <1>2, <1>3, <1>4, <1>5, <1>6 DEF shouldSendToClient
=============================================================================
