SPECIFICATION Spec
CONSTANTS
  GateCapacity <- MCGateCapacity
  Total <- MCTotal
  Usable <- MCTotal
  Travel <- MCTravel
  Scenarios <- MCScenarios
  ParkMinutes = {1, 3}
  MaxVehicles = 5
  NULL = NULL
INVARIANTS
  TypeOK
  CountsHolders
  CapacityNeverExceeded
  ScheduleNeverMissed
  FirstComeFirstServed
  NobodyLost
  TwinFollows
PROPERTIES
  OverflowOnlyWhenFull
  EventsHappen
