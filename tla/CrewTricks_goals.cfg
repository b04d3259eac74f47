SPECIFICATION FocusedSpec
CONSTANTS
  N = 3
  Colours = {blue, black}
  Black = black
  Rocket = rocket
  TopRank = 4
  TopRocket = 1
  LeadTricks = 1
  MissionIds <- Focused
  TaskCount <- FocusedCounts
  Deals <- FocusedDeals
  GoalPool <- FocusedGoals
  Speakers = {0, 1}
  None = None
INVARIANTS
  VerdictIsRight
  CommunicationHolds
  CardsConserved
PROPERTIES
  GoalsAreBooked
CHECK_DEADLOCK FALSE
