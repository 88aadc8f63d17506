SPECIFICATION Spec
CONSTANTS
  TaskTypes = {"FORKLIFT", "ANY"}
  ThisSector = "s1"
  ThisMachine = "m1"
  ItsOperator = "u1"
  Roles = {"PALLET_TRANSPORTER", "OPERATOR_MACHINE", "SUPPLY_OPERATOR"}
  AllowedTypes = {"ANY"}
  Watched = {"trip-suggestions", "machine-tasks", "replenishment-requests"}
  Served <- SomeRequests
  Slots = {1}
  NumSockets = 2
  MaxRequests = 1
  MaxFaults = 1
  MaxReruns = 1
INVARIANTS TypeOK NeverStranded OutOfDateOnlyByLapse ChangesAreTold
PROPERTIES PollingCatchesUp ConnectedInTheEnd
