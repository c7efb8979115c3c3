CONSTANTS
  Keys <- MCKeys
  Values = {TRUE, FALSE}
  Absent = Absent
  Actions = {"write", "send"}
  Pre <- MCPre
  Eff <- MCEff
  SingleUse = {}
  NoPlan = NoPlan
  MaxPlanLen = 3
  MaxRetries <- MCRetries
  Fallible = {"write"}
  Outcomes <- Unreliable
  Accepts <- AnythingGoes
  Guarded = {}
  NeedsApproval = {}
  SensorReadings <- Withdrawn
  Resolved <- Nothing
  MaxStuck = 2
  StuckUpdates <- DataArrives
  StuckGoals <- StuckRelaxes
  InitialWorlds <- NothingOrDraft
  InitialGoals <- StuckDeliveries
  MayTerminate = FALSE
  NoAction = NoAction
SPECIFICATION FairSpec
INVARIANTS
  NoPlanIsHonest
  AchievedMeansSatisfied
  NoPlanIsExplained
PROPERTIES
  Settles
  ImplementsAgentRun
