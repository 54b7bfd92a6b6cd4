SPECIFICATION LoopSpec
CONSTANTS
  PageSize = 3
  MaxPages = 2
  OverlapPages = 1
  MaxTotal = 13
  NoCheckpoint = NoCheckpoint
INVARIANTS
  PlanSound
PROPERTIES
  LoopsFollowPlan
