SPECIFICATION Spec

CONSTANTS
  Machines       = {m1}
  Operators      = {o1, o2}
  Slots          = {w1}
  TaskTypes      = {"ANY"}
  OperatingModes = {"FORKLIFT"}
  MaxDelivery    = 2
  MaxPickup      = 1
  MaxSupply      = 2
  MaxTrip        = 2
  NoOp           = NoOp
  NoMachine      = NoMachine

VIEW LiveView
SYMMETRY Symmetry

ACTION_CONSTRAINT JoinsComplete

INVARIANT WaitingPickupReachesQueue
