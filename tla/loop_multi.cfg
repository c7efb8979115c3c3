CONSTANTS
  Keys <- MCKeys
  Values = {TRUE, FALSE}
  Absent = Absent
  Actions <- MCActions
  Pre <- MCPre
  Eff <- MCEff
  SingleUse = {"cached"}
  NoPlan = NoPlan
  MaxPlanLen = 3
  MaxRetries <- MCRetries
  Fallible = {"fetch", "write"}
  Outcomes <- Unreliable
  Accepts <- AnythingGoes
  Guarded = {}
  NeedsApproval = {}
  SensorReadings <- DataExpires
  Resolved <- Nothing
  MaxStuck = 0
  StuckUpdates <- None
  StuckGoals <- None
  InitialWorlds <- Quiet
  InitialGoals <- MultiGoals
  MayTerminate = FALSE
  NoAction = NoAction
SPECIFICATION AuditSpec
INVARIANTS
  PlanServesActiveGoal
  EverySubgoalReached
  SubgoalOwnBudget
  RetriesAreHonoured
PROPERTIES
  SubgoalsMoveForward
  ImplementsAgentRun
