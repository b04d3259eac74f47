SPECIFICATION FairSpec
CONSTANTS
  N = 3
  Colours = {blue, black}
  Black = black
  Rocket = rocket
  TopRank = 3
  TopRocket = 2
  LeadTricks = 1
  MissionIds = {5, 9, 13, 16, 26, 29, 34, 44, 46}
  TaskCount <- Counts
  Deals <- EveryDeal
  GoalPool <- EveryGoal
  Speakers = {}
  None = None
INVARIANTS
  PlayGoesOn
  NoRevoke
  VerdictIsRight
PROPERTIES
  AttemptEnds
CHECK_DEADLOCK FALSE
