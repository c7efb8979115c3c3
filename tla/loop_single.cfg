CONSTANTS
  Keys <- MCKeys
  Values = {TRUE, FALSE}
  Absent = Absent
  Actions <- MCActions
  Pre <- MCPre
  Eff <- MCEff
  SingleUse = {"cached"}
  NoPlan = NoPlan
  MaxPlanLen = 3
  MaxRetries <- MCRetries
  Fallible = {"fetch", "send"}
  Outcomes <- Unreliable
  Accepts <- WritesAreChecked
  Guarded = {"write"}
  NeedsApproval = {"send"}
  SensorReadings <- DataExpires
  Resolved <- Nothing
  MaxStuck = 0
  StuckUpdates <- None
  StuckGoals <- None
  InitialWorlds <- Quiet
  InitialGoals <- Deliveries
  MayTerminate = TRUE
  NoAction = NoAction
SPECIFICATION FairSpec
INVARIANTS
  TypeOK
  PreconditionsHold
  PlanAvoidsBlacklist
  ExhaustedAreBlacklisted
PROPERTIES
  Settles
  ImplementsAgentRun
