SPECIFICATION Spec

CONSTANTS
  Machines       = {m1}
  Operators      = {o1}
  Slots          = {w1}
  TaskTypes      = {"ANY"}
  OperatingModes = {"FORKLIFT"}
  MaxDelivery    = 2
  MaxPickup      = 2
  MaxSupply      = 2
  MaxTrip        = 2
  NoOp           = NoOp
  NoMachine      = NoMachine

VIEW LiveView

INVARIANT OneTripAtATime
INVARIANT DriveOnlyPrepared
INVARIANT CancelledTogether
INVARIANT NoRequestWithPallet
INVARIANT SuggestionFollowsLink
INVARIANT EachOnOneCard
INVARIANT OfferedIsAccepted
INVARIANT TvShowsMachineCards
INVARIANT TasksInHandShown
INVARIANT TripCompletedInOrder
PROPERTY LinkWrittenOnce
PROPERTY DoneStaysDone
PROPERTY CancelOnlyWaiting
