SPECIFICATION Spec

CONSTANTS
  Machines       = {m1}
  Operators      = {o1, o2}
  Slots          = {w1}
  TaskTypes      = {"ANY"}
  OperatingModes = {"FORKLIFT"}
  MaxDelivery    = 2
  MaxPickup      = 2
  MaxSupply      = 1
  MaxTrip        = 1
  NoOp           = NoOp
  NoMachine      = NoMachine

VIEW LiveView
SYMMETRY Symmetry

PROPERTY PickupKeepsItsOperator
