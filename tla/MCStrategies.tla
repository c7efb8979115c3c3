---------------------------- MODULE MCStrategies ----------------------------
(* Values for the planners' constants: test, build, tag and release a program. *)
(* The planners share no state, so they are explored side by side.       *)
EXTENDS AStarSearch, ParetoFront, TreeSearch, TLC

MCKeys == {"tested", "built", "tagged"}
MCActions == {"test", "build", "rebuild", "tag", "release"}

LOCAL F(f) == f @@ Nothing

MCPre == [a \in Actions |->
  CASE a \in {"release", "rebuild"} -> F([tested |-> 1])
    [] OTHER                       -> Nothing]
MCEff == [a \in Actions |->
  CASE a = "test"    -> F([tested |-> 1])
    [] a = "build"   -> F([built |-> 1, tested |-> 0])
    [] a = "rebuild" -> F([built |-> 1])
    [] a = "tag"     -> F([tagged |-> 1])
    [] OTHER         -> F([built |-> 1, tagged |-> 1])]

\* Work that costs nothing but tagging, and work that all costs something.
AlmostFree == [a \in Actions |-> IF a = "tag" THEN 2 ELSE 0]
Dear == [a \in Actions |-> CASE a = "release" -> 3 [] a = "build" -> 2 [] OTHER -> 1]
MCCosts == {AlmostFree, Dear}

Tested == F([tested |-> 1])
Built == F([built |-> 1])
MCStarts == {Nothing, Tested}
MCAims == {Tested, Built, F([tested |-> 1, tagged |-> 1]),
           F([built |-> 1, tagged |-> 1, tested |-> 0]), F([tested |-> 1, tagged |-> 0])}

\* Amounts in halves of the solver's unit. A build gives time back.
MCUses == [a \in Actions |-> [r \in Resources |->
  CASE r = "time" -> (CASE a = "release" -> 5 [] a = "build" -> -1 [] OTHER -> 2)
    [] OTHER      -> (CASE a = "release" -> 1 [] a = "build" -> 4 [] OTHER -> 3)]]

AtMost(n, hard) == [low |-> Unbounded, high |-> n, hard |-> hard, weight |-> 1]
Between(m, n, hard) == [low |-> m, high |-> n, hard |-> hard, weight |-> 2]
Shipped == F([built |-> 1, tagged |-> 1])
Aim(limits, least) ==
  [conditions |-> Shipped, limits |-> limits, minimise |-> least, maximise |-> {},
   metrics |-> FALSE]
MCGoals ==
  {Aim(<<>>, {}), [Aim(<<>>, {}) EXCEPT !.metrics = TRUE],
   [Aim(<<>>, {}) EXCEPT !.maximise = {"time"}],
   Aim("time" :> AtMost(4, TRUE), {}), Aim("time" :> AtMost(4, TRUE), {"money"}),
   Aim("time" :> AtMost(-1, TRUE), {}), Aim("money" :> AtMost(5, TRUE), {}),
   Aim(("time" :> AtMost(3, FALSE)) @@ ("money" :> Between(5, 7, TRUE)), {}),
   Aim(("time" :> Between(2, 3, TRUE)) @@ ("money" :> AtMost(6, FALSE)), {}),
   Aim(("time" :> AtMost(1, TRUE)) @@ ("money" :> [AtMost(2, TRUE) EXCEPT !.weight = 0]), {}),
   [Aim(("time" :> AtMost(4, TRUE)) @@ ("money" :> AtMost(9, TRUE)), {"money"})
      EXCEPT !.maximise = {"time"}]}
MCBars == {{}, {"release"}, {"test", "tag"}}
MCWays == {"router", "astar", "repair", "lazy", "anytime", "utility", "refine"}
MCWorlds == {Nothing, Tested, F([built |-> 1, tested |-> 0])}

\* Lists of plans, one for each of the amounts that plans come to.
MCBatches ==
  LET plans == UNION {PlansOver(w, Shipped, Actions) : w \in {Nothing, Tested}}
      amounts(p) == <<Total(p, "time"), Total(p, "money"), CostOf(p)>>
      picked == {CHOOSE p \in plans : amounts(p) = x : x \in {amounts(q) : q \in plans}}
  IN  {<<p>> : p \in picked} \cup {<<p, q>> : p \in picked, q \in picked}
        \cup {<<p, q, r>> : p \in picked, q \in picked, r \in picked}
MCFrontiers == {1, 2, Unbounded}

\* A build may break what was tagged, a release may do nothing.
MCOutcomes == [a \in Actions |->
  CASE a = "rebuild" -> {Eff[a], F([built |-> 1, tagged |-> 0])}
    [] a = "release" -> {Eff[a], Nothing}
    [] OTHER         -> {Eff[a]}]
Setting(sampled, reuse, fallback, limit) ==
  [sampled |-> sampled, reuse |-> reuse, fallback |-> fallback, budget |-> limit]
MCSettings ==
  {Setting(FALSE, TRUE, FALSE, 3), Setting(TRUE, TRUE, TRUE, 3),
   Setting(TRUE, FALSE, FALSE, NoBudget), Setting(TRUE, TRUE, FALSE, NoBudget)}
MCTreeStarts == {Tested, F([tested |-> 1, built |-> 1])}
MCTreeAims == {Built, Shipped}
MCTreeBars == {{}, {"test", "build", "tag"}}

VARIABLE planner

planners == <<astarVars, strategyVars, frontVars, treeVars, planner>>

\* A planner that is not explored waits in one of its initial states.
AStarRests ==
  /\ query = [start |-> Nothing, conditions |-> Tested, barred |-> {}, cost |-> Dear]
  /\ phase = "attempt" /\ attempt = 1 /\ expired = FALSE /\ open = {} /\ bestG = [w \in {} |-> 0]
  /\ raw = EmptyPlan /\ left = 0 /\ kept = <<>> /\ needs = <<>> /\ cursor = 1 /\ out = EmptyPlan
  /\ result = NoPlan
StrategiesRest ==
  /\ ask = [way |-> "astar", start |-> Nothing, goal |-> Aim(<<>>, {}), barred |-> {},
            prior |-> NoPlan, step |-> 0]
  /\ stage = "asked" /\ primary = NoPlan /\ turn = 1 /\ alternatives = {} /\ prefix = EmptyPlan
  /\ answer = [plan |-> NoPlan, status |-> "none"]
FrontRests ==
  /\ request = [goal |-> Aim(<<>>, {}), first |-> NoPlan, plans |-> <<EmptyPlan>>,
                most |-> Unbounded]
  /\ row = 1 /\ dominated = {} /\ front = <<>>
TreeRests == TreeInit /\ setting = CHOOSE s \in Settings : TRUE

PlannersInit ==
  \/ planner = "astar" /\ AStarInit /\ StrategiesRest /\ FrontRests /\ TreeRests
  \/ planner = "strategies" /\ AStarRests /\ StrategiesInit /\ FrontRests /\ TreeRests
  \/ planner = "front" /\ AStarRests /\ StrategiesRest /\ FrontInit /\ TreeRests
  \/ planner = "tree" /\ AStarRests /\ StrategiesRest /\ FrontRests /\ TreeInit

PlannersNext ==
  \/ planner = "astar" /\ AStarNext /\ UNCHANGED <<strategyVars, frontVars, treeVars, planner>>
  \/ planner = "strategies" /\ StrategiesNext /\ UNCHANGED <<astarVars, frontVars, treeVars, planner>>
  \/ planner = "front" /\ FrontNext /\ UNCHANGED <<astarVars, strategyVars, treeVars, planner>>
  \/ planner = "tree" /\ TreeNext /\ UNCHANGED <<astarVars, strategyVars, frontVars, planner>>

PlannersSpec == PlannersInit /\ [][PlannersNext]_planners
=============================================================================
