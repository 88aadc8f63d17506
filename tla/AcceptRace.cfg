SPECIFICATION Spec

CONSTANTS
  Machines       = {m1}
  Operators      = {o1}
  Slots          = {w1, w2}
  TaskTypes      = {"ANY"}
  OperatingModes = {"FORKLIFT"}
  MaxDelivery    = 1
  MaxPickup      = 1
  MaxSupply      = 1
  MaxTrip        = 1
  NoOp           = NoOp
  NoMachine      = NoMachine

VIEW LiveView

INVARIANT OneTripAtATime
