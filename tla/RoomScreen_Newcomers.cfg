SPECIFICATION ScreenSpec
CONSTANTS
  Humans = {h1, h2, h3}
  Bots = {b1, b2}
  Capacities = {4}
  LastMission = 1
  AttemptIds = {a1, a2}
  None = None
  ServerMode = TRUE
  MaxSkipped = 1
PROPERTY NewcomersAreAnnounced
