----------------------------- MODULE TripPriority -----------------------------
(***************************************************************************)
(* trip-queue-priority.ts, and its copy in the front-end's operator-       *)
(* moviment-trip-queue.ts: the order in which waiting work is recommended. *)
(***************************************************************************)
EXTENDS Integers

\* The kind of the task the transporter completed last; NONE at the start.
LastCompleted == {"NONE", "DELIVER", "PICKUP"}

WorkKinds == {"combined", "deliver", "pickup"}

\* A trip that does both comes first; then the task that is not of the last one's
\* kind, so that the fork is not empty on the way back.
tripQueueKindAffinityRank(kind, last) ==
  CASE kind = "combined" -> 0
    [] kind # "combined" /\ last = "NONE" -> 1
    [] kind = "deliver" /\ last # "NONE"  -> IF last = "PICKUP" THEN 1 ELSE 2
    [] kind = "pickup" /\ last # "NONE"   -> IF last = "DELIVER" THEN 1 ELSE 2

PriorityKeys ==
  [preferredMachine: BOOLEAN, effectiveCritical: BOOLEAN, kindRank: Int, sortAt: Int]

\* compareTripQueuePriority(a, b) < 0
precedes(a, b) ==
  \/ a.preferredMachine /\ ~ b.preferredMachine
  \/ /\ a.preferredMachine = b.preferredMachine
     /\ \/ a.effectiveCritical /\ ~ b.effectiveCritical
        \/ /\ a.effectiveCritical = b.effectiveCritical
           /\ \/ a.kindRank < b.kindRank
              \/ a.kindRank = b.kindRank /\ a.sortAt < b.sortAt

\* latestAt: when the last delivery, and the last pickup, was completed; -1: never.
resolveLastCompletedTripTaskKind(deliverAt, pickupAt) ==
  CASE deliverAt = -1 /\ pickupAt = -1  -> "NONE"
    [] pickupAt # -1 /\ pickupAt >= deliverAt -> "PICKUP"
    [] OTHER                            -> "DELIVER"
=============================================================================
