SPECIFICATION Spec
CONSTANTS
  Humans = {h1, h2, h3, h4}
  Bots = {b1}
  Capacities = {3, 4}
  LastMission = 2
  AttemptIds = {a1, a2}
  None = None
SYMMETRY Symmetry
INVARIANT CanAlwaysLeave
