SPECIFICATION EdgeSpec
CONSTANTS
  None = None
  NoRequest = NoRequest
  Requests <- Pair
  Shapes <- AllRequests
  Burst = 1
  MaxRefills = 1
  MaxSpectators = 1
  Calls <- RoomCalls
  KindOf <- RoomKind
  IdOf <- RoomId
  ActorOf <- RoomActor
  Crew <- RoomCrew
  Host = "ann"
  Capacity = 3
  MinCrew = 2
  MaxFaults = 1
INVARIANTS
  HttpSound
  PgSound
PROPERTIES
  PgKeepsPromise
  DatabaseSound
  EdgeGoesOn
CHECK_DEADLOCK FALSE
