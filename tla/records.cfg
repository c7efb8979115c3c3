CONSTANTS
  Runs = {r1, r2, r3}
  GoalHashes = {g1, g2}
  ActionNames = {"open", "go"}
  PlanNames <- MCPlans
  EndsAs = {"goal_achieved", "failed", "no_plan", "terminated"}
  IndexLimit = 2
  Unstored = Unstored
  Tracers = {t1, t2}
  MaxReflections = 2
  MaxMade = 4
  MaxWrites = 2
  Tools = {"open"}
  MaxEvents = 1
  FlushEvery = 2
  MaxSeen = 4
  MaxRoots = 3
SYMMETRY Interchangeable
SPECIFICATION RecordsSpec
INVARIANTS
  IndexedBelongs
  FinishedAreFound
  NewestFirst
  ReflectionsInOrder
  RemembersOwn
  SearchIsAccounted
  
CHECK_DEADLOCK FALSE
