SPECIFICATION WhatIfSpec
CONSTANTS
  N = 3
  Colours = {blue, black}
  Black = black
  Rocket = rocket
  TopRank = 3
  TopRocket = 3
  LeadTricks = 1
  MissionIds = {5, 9, 16, 17, 26, 29, 33, 34, 41, 44, 46, 50}
  TaskCount <- Counts
  Deals <- EveryDeal
  GoalPool <- EveryGoal
  Speakers = {}
  None = None
INVARIANTS
  FailureIsFinal
CHECK_DEADLOCK FALSE
