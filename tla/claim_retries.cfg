CONSTANTS
  Keys <- MCKeys
  Values = {TRUE, FALSE}
  Absent = Absent
  Actions <- MCActions
  Pre <- MCPre
  Eff <- MCEff
  SingleUse = {"cached"}
  NoPlan = NoPlan
  MaxPlanLen = 3
  MaxRetries <- MCRetries
  Fallible = {"fetch"}
  Outcomes <- AsDeclared
  Accepts <- AnythingGoes
  Guarded = {"cached"}
  NeedsApproval = {}
  SensorReadings <- Quiet
  Resolved <- Nothing
  MaxStuck = 0
  StuckUpdates <- None
  StuckGoals <- None
  InitialWorlds <- Quiet
  InitialGoals <- SendOnly
  MayTerminate = FALSE
  NoAction = NoAction
SPECIFICATION AuditSpec
INVARIANTS
  RetriesAreHonoured
