CONSTANTS
  Keys <- MCKeys
  Values = {TRUE, FALSE}
  Absent = Absent
  Actions <- MCActions
  Pre <- MCPre
  Eff <- MCEff
  SingleUse = {}
  NoPlan = NoPlan
  MaxPlanLen = 3
  MaxRetries <- MCRetries
  Fallible = {}
  Outcomes <- AsDeclared
  Accepts <- AnythingGoes
  Guarded = {}
  NeedsApproval = {}
  SensorReadings <- Quiet
  Resolved <- Nothing
  MaxStuck = 0
  StuckUpdates <- None
  StuckGoals <- None
  InitialWorlds <- MCWorlds
  InitialGoals <- ClaimGoals
  MayTerminate = FALSE
  NoAction = NoAction
  MaxAttempts <- MCAttempts
  Idempotent = {"draw"}
  Retryable = {"fetch"}
  Leftovers <- MCLeftovers
  EntryPoints = {"ainvoke"}
  MaxCrashes = 1
SPECIFICATION WaveSpec
PROPERTIES
  AllEffectsMerged
