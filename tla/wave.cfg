CONSTANTS
  Keys <- MCKeys
  Values = {TRUE, FALSE}
  Absent = Absent
  Actions <- MCActions
  Pre <- MCPre
  Eff <- MCEff
  SingleUse = {}
  NoPlan = NoPlan
  MaxPlanLen = 3
  MaxRetries <- MCRetries
  Fallible = {"fetch", "draw"}
  Outcomes <- MCOutcomes
  Accepts <- LogoIsChecked
  Guarded = {"send"}
  NeedsApproval = {"draw"}
  SensorReadings <- Quiet
  Resolved <- Nothing
  MaxStuck = 0
  StuckUpdates <- None
  StuckGoals <- None
  InitialWorlds <- MCWorlds
  InitialGoals <- MCGoals
  MayTerminate = FALSE
  NoAction = NoAction
  MaxAttempts <- MCAttempts
  Idempotent = {"draw"}
  Retryable = {"fetch"}
  Leftovers <- MCLeftovers
  EntryPoints = {"invoke", "ainvoke"}
  MaxCrashes = 1
SPECIFICATION FairWaveSpec
INVARIANTS
  WaveTypeOK
  MembersReady
  StepsWereDone
  InvokedWavesFollowPlan
PROPERTIES
  Settles
  LostEffectsAreRedone
