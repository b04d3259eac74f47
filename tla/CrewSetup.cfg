SPECIFICATION PrepSpec
CONSTANTS
  None = None
  N = 3
  Colours <- Suits
  Black = "black"
  Rocket = "rocket"
  TopRank = 2
  TopRocket = 1
  MissionIds <- ThreeMissions
  TaskCount <- ThreeGoals
  Deals <- ThreeDeals
  MaxAttempts = 2
INVARIANTS
  SetupSound
  OthersSound
PROPERTIES
  SetupKept
  OthersKept
  PreparationGoesOn
CHECK_DEADLOCK FALSE
