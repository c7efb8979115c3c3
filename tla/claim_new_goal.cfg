CONSTANTS
  Keys <- MCKeys
  Values = {TRUE, FALSE}
  Absent = Absent
  Actions = {"write", "send"}
  Pre <- MCPre
  Eff <- MCEff
  SingleUse = {}
  NoPlan = NoPlan
  MaxPlanLen = 3
  MaxRetries <- MCRetries
  Fallible = {}
  Outcomes <- AsDeclared
  Accepts <- AnythingGoes
  Guarded = {}
  NeedsApproval = {}
  SensorReadings <- Quiet
  Resolved <- Nothing
  MaxStuck = 1
  StuckUpdates <- DataArrives
  StuckGoals <- Relaxed
  InitialWorlds <- Quiet
  InitialGoals <- DataFirst
  MayTerminate = FALSE
  NoAction = NoAction
SPECIFICATION Spec
INVARIANTS
  AchievedMeansSatisfied
