SPECIFICATION Spec

CONSTANTS
  Machines       = {m1}
  Operators      = {o1}
  Slots          = {w1}
  TaskTypes      = {"ANY", "FORKLIFT"}
  OperatingModes = {"FORKLIFT", "PALLET_TRUCK"}
  MaxDelivery    = 1
  MaxPickup      = 2
  MaxSupply      = 1
  MaxTrip        = 1
  NoOp           = NoOp
  NoMachine      = NoMachine

VIEW LiveView

INVARIANT SuggestionFollowsLink
INVARIANT DeliveryTypeFits
INVARIANT EmptyMainMeansNoWork
