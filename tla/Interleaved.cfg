SPECIFICATION Spec

CONSTANTS
  Machines       = {m1}
  Operators      = {o1, o2}
  Slots          = {w1, w2}
  TaskTypes      = {"ANY"}
  OperatingModes = {"FORKLIFT"}
  MaxDelivery    = 1
  MaxPickup      = 1
  MaxSupply      = 1
  MaxTrip        = 2
  NoOp           = NoOp
  NoMachine      = NoMachine

VIEW LiveView
SYMMETRY Symmetry

INVARIANT TypeOK
INVARIANT AssignmentCoherent
INVARIANT OnePairPerTask
