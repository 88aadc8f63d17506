SPECIFICATION Spec

CONSTANTS
  Machines       = {m1}
  Operators      = {o1}
  Slots          = {w1}
  TaskTypes      = {"ANY"}
  OperatingModes = {"FORKLIFT"}
  MaxDelivery    = 1
  MaxPickup      = 2
  MaxSupply      = 2
  MaxTrip        = 1
  NoOp           = NoOp
  NoMachine      = NoMachine

VIEW LiveView

INVARIANT OneOpenSupplyPerMachine
