SPECIFICATION ServerSpec
CONSTANTS
  None = None
  Calls <- ResentCalls
  KindOf <- ResentKind
  IdOf <- ResentId
  ActorOf <- ResentActor
  Crew <- ResentCrew
  MaxFaults = 1
  Addresses = {ip1, ip2}
  Capacity = 5
  Cost = 2
  Refill = 1
  Idle = 5
  MaxTime = 8
  MaxBack = 2
  Sockets = {s1, s2}
  MaxFrames = 2
  MaxRevision = 1
  Beats = TRUE
  Conns = {conn1, conn2}
  Webs = {web1}
  Signals = {term, int}
  Drain = 2
  Deadline = 4
  Grace = 5
  Probe = 1
  MaxClock = 9
INVARIANTS
  StoreSound
  SocketsSound
  ShutdownSound
  LimiterJust
PROPERTIES
  StoreKeepsPromise
  EntryAndTimersSound
  ServerGoesOn
CHECK_DEADLOCK FALSE
