CONSTANTS
  Keys <- MCKeys
  Values = {TRUE, FALSE}
  Absent = Absent
  Actions = {"write", "send"}
  Pre <- MCPre
  Eff <- MCEff
  SingleUse = {}
  NoPlan = NoPlan
  MaxPlanLen = 3
  MaxRetries <- MCRetries
  Fallible = {}
  Outcomes <- AsDeclared
  Accepts <- AnythingGoes
  Guarded = {}
  NeedsApproval = {}
  SensorReadings <- Quiet
  Resolved <- DataKnown
  MaxStuck = 0
  StuckUpdates <- None
  StuckGoals <- None
  InitialWorlds <- Quiet
  InitialGoals <- SendOnly
  MayTerminate = FALSE
  NoAction = NoAction
SPECIFICATION Spec
INVARIANTS
  PreconditionsHold
