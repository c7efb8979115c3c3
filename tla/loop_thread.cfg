CONSTANTS
  Keys <- MCKeys
  Values = {TRUE, FALSE}
  Absent = Absent
  Actions <- MCActions
  Pre <- MCPre
  Eff <- MCEff
  SingleUse = {"cached"}
  NoPlan = NoPlan
  MaxPlanLen = 3
  MaxRetries <- MCRetries
  Fallible = {"write"}
  Outcomes <- Unreliable
  Accepts <- AnythingGoes
  Guarded = {"cached"}
  NeedsApproval = {"write"}
  SensorReadings <- Quiet
  Resolved <- Nothing
  MaxStuck = 0
  StuckUpdates <- None
  StuckGoals <- None
  InitialWorlds <- Quiet
  InitialGoals <- ThreadGoals
  MayTerminate = FALSE
  NoAction = NoAction
  MaxCarried = 3
SPECIFICATION ThreadSpec
INVARIANTS
  PreconditionsHold
  PlanServesActiveGoal
PROPERTIES
  SingleUseRunsOnce
