CONSTANTS
  Keys <- MCKeys
  Values = {0, 1}
  Absent = Absent
  Actions <- MCActions
  Pre <- MCPre
  Eff <- MCEff
  SingleUse = {"tag", "test"}
  NoPlan = NoPlan
  MaxPlanLen = 3
  Costs <- MCCosts
  Starts <- MCStarts
  Aims <- MCAims
  Resources = {"time", "money"}
  Uses <- MCUses
  Price <- Dear
  Worth <- AlmostFree
  Grain = 2
  Unbounded = Unbounded
  Goals <- MCGoals
  Worlds <- MCWorlds
  Bars <- MCBars
  Ways <- MCWays
  MaxAlternatives = 2
  Lookahead = 1
  Batches <- MCBatches
  Frontiers <- MCFrontiers
  Outcomes <- MCOutcomes
  StepCost <- Dear
  NoBudget = NoBudget
  Settings <- MCSettings
  TreeStarts <- MCTreeStarts
  TreeAims <- MCTreeAims
  TreeBars <- MCTreeBars
  Iterations = 3
  MaxCalls = 2
SPECIFICATION PlannersSpec
INVARIANTS
  SearchRefined
  StrategyPlansRun
  BarredOnlyIfForced
  VerdictIsHonest
  FrontIsPareto
  TreePlansHold
CHECK_DEADLOCK FALSE
