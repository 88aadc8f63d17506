SPECIFICATION Spec

CONSTANTS
  Machines       = {m1}
  Operators      = {o1}
  Slots          = {w1, w2}
  TaskTypes      = {"ANY"}
  OperatingModes = {"FORKLIFT"}
  MaxDelivery    = 2
  MaxPickup      = 1
  MaxSupply      = 2
  MaxTrip        = 1
  NoOp           = NoOp
  NoMachine      = NoMachine

VIEW LiveView
SYMMETRY Symmetry
ACTION_CONSTRAINT ShortSearch

INVARIANT DriveOnlyPrepared
