-------------------------- MODULE DeliveryLifecycle --------------------------
(***************************************************************************)
(* What the plant is promised about a pallet on its way to a machine: it   *)
(* is prepared before it is taken, one driver takes it, with no other      *)
(* delivery in hand, that driver delivers it, and a delivery is dropped    *)
(* only while nobody prepared or took it.                                  *)
(***************************************************************************)
CONSTANTS Deliveries, Drivers, Nobody

VARIABLES
  stage,   \* where each delivery is
  driver   \* who takes it or took it

Init == /\ stage = [d \in Deliveries |-> "none"]
        /\ driver = [d \in Deliveries |-> Nobody]

\* Delivery d goes from one stage to another.
Move(d, from, to) == stage[d] = from /\ stage' = [stage EXCEPT ![d] = to]

\* The supply desk places d, ready at once or to be prepared, prepares or drops it.
Place(d)   == /\ Move(d, "none", "preparing") \/ Move(d, "none", "ready")
              /\ UNCHANGED driver
Prepare(d) == Move(d, "preparing", "ready") /\ UNCHANGED driver
Drop(d)    == Move(d, "preparing", "dropped") /\ UNCHANGED driver

\* Driver o takes d, and delivers it.
Take(d, o) ==
  /\ Move(d, "ready", "onTheWay")
  /\ \A e \in Deliveries : driver[e] = o => stage[e] # "onTheWay"
  /\ driver' = [driver EXCEPT ![d] = o]

Deliver(d) == Move(d, "onTheWay", "delivered") /\ UNCHANGED driver

\* Every step moves some d; that it does is said first, so that a step that moves
\* nothing is quickly seen to stutter.
Next ==
  \E d \in Deliveries :
    /\ stage'[d] # stage[d]
    /\ \/ Place(d) \/ Prepare(d) \/ Drop(d) \/ Deliver(d)
       \/ \E o \in Drivers : Take(d, o)

Spec == Init /\ [][Next]_<<stage, driver>>
=============================================================================
