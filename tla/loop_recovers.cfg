CONSTANTS
  Keys <- MCKeys
  Values = {TRUE, FALSE}
  Absent = Absent
  Actions <- MCActions
  Pre <- MCPre
  Eff <- MCEff
  SingleUse = {"cached"}
  NoPlan = NoPlan
  MaxPlanLen = 3
  MaxRetries <- MCRetries
  Fallible = {"fetch"}
  Outcomes <- FetchIsDown
  Accepts <- AnythingGoes
  Guarded = {}
  NeedsApproval = {}
  SensorReadings <- Quiet
  Resolved <- Nothing
  MaxStuck = 0
  StuckUpdates <- None
  StuckGoals <- None
  InitialWorlds <- AnyWorld
  InitialGoals <- SendEventually
  MayTerminate = FALSE
  NoAction = NoAction
SPECIFICATION FairSpec
PROPERTIES
  GoalReached
