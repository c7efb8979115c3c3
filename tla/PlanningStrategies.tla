-------------------------- MODULE PlanningStrategies --------------------------
(***************************************************************************)
(* The strategies built around the A* search: the router's choice, the      *)
(* two-phase pipeline with its resource limits (planner/pipeline.py and     *)
(* planner/csp.py), repair of an invalid plan, lazy decomposition, the       *)
(* wall-clock wrapper, utility, refinement of a given plan.                  *)
(*                                                                          *)
(* An A* search is one step here: any plan of GoapDomain's Search.           *)
(* Resource amounts are integers in a unit finer than the solver's, which    *)
(* takes Grain of them for one: int(amount * scale) drops the rest. The      *)
(* solver is external: it returns some best plan of those its model allows.  *)
(* Schedules are left out: the horizon always admits one.                    *)
(***************************************************************************)
EXTENDS GoapDomain, Integers, FiniteSets

Ext == INSTANCE SequencesExt

CONSTANTS
  Resources,        \* keys of ActionSpec.resources
  Uses,             \* ActionSpec.resources
  Price,            \* ActionSpec.cost, in the same unit
  Worth,            \* ActionSpec.utility
  Grain,            \* fine units in one unit of the solver
  Unbounded,        \* Python's None, as a bound
  Goals,            \* goals a strategy may be given
  Worlds,           \* states it may be asked to plan in
  Bars,             \* sets of blacklisted actions it may be given
  Ways,             \* strategies the caller may ask
  MaxAlternatives,  \* TwoPhasePipelineStrategy.max_alternatives
  Lookahead         \* LazyDecompositionStrategy.lookahead

\* GoalSpec.constraints by key (of several with one key the last is in force),
\* and the resources GoalSpec.objectives minimises or maximises.
IsBound(b) == b = Unbounded \/ b \in Int
IsLimit(l) == IsBound(l.low) /\ IsBound(l.high) /\ l.hard \in BOOLEAN /\ l.weight \in Nat
IsGoal(g) ==
  /\ g.conditions \in World
  /\ DOMAIN g.limits \subseteq Resources
  /\ \A r \in DOMAIN g.limits : IsLimit(g.limits[r])
  /\ g.minimise \subseteq Resources /\ g.maximise \subseteq Resources
  /\ g.metrics \in BOOLEAN

ASSUME StrategyAssumption ==
  /\ Uses \in [Actions -> [Resources -> Int]]
  /\ Price \in [Actions -> Nat]
  /\ Worth \in [Actions -> Int]
  /\ Grain \in Nat \ {0}
  /\ \A g \in Goals : IsGoal(g)
  /\ Worlds \subseteq World
  /\ Bars \subseteq SUBSET Actions
  /\ Ways \subseteq {"router", "astar", "repair", "lazy", "anytime", "utility", "refine"}
  /\ IsFiniteSet(Resources)
  /\ MaxAlternatives \in Nat
  /\ Lookahead \in Nat \ {0}
  /\ Unbounded \notin Int

VARIABLES
  ask,           \* the call: strategy, start, goal, barred, prior plan and step
  stage,         \* where it is
  primary,       \* the pipeline's first plan
  turn,          \* index the loop at hand has reached
  alternatives,  \* plans found around an action of the primary one
  prefix,        \* what repair keeps of the prior plan
  answer         \* [plan, status]: what is returned, with CSPMetadata.status

strategyVars == <<ask, stage, primary, turn, alternatives, prefix, answer>>

Answered(p, status) == stage' = "done" /\ answer' = [plan |-> p, status |-> status]
-----------------------------------------------------------------------------
(* Resources. *)

Total(p, r) == Ext!FoldLeft(LAMBDA sum, a : sum + Uses[a][r], 0, p.actions)
CostOf(p) == Ext!FoldLeft(LAMBDA sum, a : sum + Price[a], 0, p.actions)

\* int(x): towards zero.
Truncated(x) == IF x >= 0 THEN x \div Grain ELSE -((-x) \div Grain)

Below(x, bound) == bound # Unbounded /\ x < bound
Above(x, bound) == bound # Unbounded /\ x > bound

Limited(goal) == DOMAIN goal.limits
Hard(goal) == {r \in Limited(goal) : goal.limits[r].hard}

\* Hard limits the plan violates (_is_violated).
Missed(goal, p) ==
  {r \in Hard(goal) :
     Below(Total(p, r), goal.limits[r].low) \/ Above(Total(p, r), goal.limits[r].high)}

MeetsHardLimits(goal, p) == Missed(goal, p) = {}

\* validate_plan: the status of one plan.
Verdict(goal, p) ==
  IF Limited(goal) = {} /\ goal.minimise \cup goal.maximise = {} THEN "skipped"
  ELSE IF MeetsHardLimits(goal, p) THEN "feasible" ELSE "infeasible"

\* _greedy_mus, looking at the violated limits in the given order: one is essential
\* if those that remain can be met without it, else it is dropped.
Essential(goal, p, order) ==
  LET look(acc, r) ==
        LET without == acc.remaining \ {r}
        IN  IF without \cap Missed(goal, p) = {} THEN [acc EXCEPT !.mus = @ \cup {r}]
                                                ELSE [acc EXCEPT !.remaining = without]
  IN  Ext!FoldLeft(look, [mus |-> {}, remaining |-> Missed(goal, p)], order).mus

\* explain_infeasibility: InfeasibilityExplanation.conflicting_constraints.
Conflicting(goal, p, order) ==
  IF Essential(goal, p, order) = {} THEN Missed(goal, p) ELSE Essential(goal, p, order)

\* needs_csp
NeedsCsp(goal) ==
  Limited(goal) # {} \/ goal.minimise \cup goal.maximise # {} \/ goal.metrics

\* int(bound * scale), where there is a bound.
InUnits(bound) == IF bound = Unbounded THEN Unbounded ELSE Truncated(bound)

\* Plausible bug: only the upper bounds reach the solver.
SelectableBelow(goal, p) ==
  \A r \in Hard(goal) : ~Above(Truncated(Total(p, r)), InUnits(goal.limits[r].high))

\* The solver's constraints on a selected plan: whole units, and no variable of
\* it is negative.
Selectable(goal, p) ==
  /\ \A r \in Resources : Truncated(Total(p, r)) >= 0
  /\ \A r \in Hard(goal) :
       /\ ~Below(Truncated(Total(p, r)), InUnits(goal.limits[r].low))
       /\ ~Above(Truncated(Total(p, r)), InUnits(goal.limits[r].high))

Excess(goal, p, r) ==
  LET x == Truncated(Total(p, r))
      l == goal.limits[r]
  IN  l.weight * ((IF Above(x, InUnits(l.high)) THEN x - InUnits(l.high) ELSE 0)
                    + (IF Below(x, InUnits(l.low)) THEN InUnits(l.low) - x ELSE 0))

\* _constraint_penalty, in full precision.
Penalty(goal, p, r) ==
  LET x == Total(p, r)
      l == goal.limits[r]
  IN  l.weight * (IF Above(x, l.high) THEN x - l.high
                  ELSE IF Below(x, l.low) THEN l.low - x ELSE 0)

\* The hard level of the score attached to a plan (_score_from_csp).
HardScore(goal, p) == -Ext!SumFunction([r \in Hard(goal) |-> Penalty(goal, p, r)])

\* What the solver minimises: objectives and soft violations, or else the cost.
Badness(goal, p) ==
  LET units(keys) == [r \in keys |-> Truncated(Total(p, r))]
      soft == Limited(goal) \ Hard(goal)
  IN  IF goal.minimise \cup goal.maximise \cup soft = {} THEN Truncated(CostOf(p))
      ELSE Ext!SumFunction(units(goal.minimise)) - Ext!SumFunction(units(goal.maximise))
             + Ext!SumFunction([r \in soft |-> Excess(goal, p, r)])

\* optimize_plans: the plans it may choose of those given.
Optimal(goal, ps) ==
  {p \in {q \in ps : Selectable(goal, q)} :
     \A q \in ps : Selectable(goal, q) => Badness(goal, p) <= Badness(goal, q)}
-----------------------------------------------------------------------------
(* Calls. *)

\* Plausible bug: the search is not told what is barred.
FoundAnyway(start, barred) == Search(start, ask.goal.conditions, {})

Found(start, barred) == Search(start, ask.goal.conditions, barred)

\* A plan made for the goal earlier, in some other state.
PriorPlans(goal) ==
  UNION {PlansOver(w, goal.conditions, Actions) : w \in Worlds}

\* Only the router and the refinement look at more of a goal than its conditions.
Calls ==
  {c \in [way : Ways \ {"refine"}, start : Worlds, goal : Goals, barred : Bars,
          prior : {NoPlan}, step : {0}] :
     c.way = "router" \/ ~NeedsCsp(c.goal)}

Repairs(goal) ==
  {c \in [way : Ways \cap {"repair"}, start : Worlds, goal : {goal}, barred : Bars,
          prior : PriorPlans(goal), step : 0 .. MaxPlanLen] : c.step <= Len(c.prior.actions)}

Refinements(goal) ==
  [way : Ways \cap {"refine"}, start : Worlds, goal : {goal}, barred : {{}},
   prior : PriorPlans(goal), step : {0}]

AllCalls ==
  UNION ({Calls} \cup {Repairs(g) : g \in {g \in Goals : ~NeedsCsp(g)}}
                 \cup {Refinements(g) : g \in {g \in Goals : NeedsCsp(g)}})

StrategiesInit ==
  /\ ask \in AllCalls
  /\ stage = "asked"
  /\ primary = NoPlan /\ turn = 1 /\ alternatives = {} /\ prefix = EmptyPlan
  /\ answer = [plan |-> NoPlan, status |-> "none"]

\* RuleBasedClassifier, for problems small enough for A*, and StrategyRouter.
Route ==
  /\ stage = "asked" /\ ask.way = "router"
  /\ stage' = IF NeedsCsp(ask.goal) THEN "primary" ELSE "search"
  /\ UNCHANGED <<ask, primary, turn, alternatives, prefix, answer>>

\* AStarStrategy, and whatever hands the whole call to it.
PlanFromScratch ==
  /\ \/ stage = "search"
     \/ stage = "asked" /\ ask.way = "astar"
     \/ stage = "asked" /\ ask.way = "repair" /\ ask.prior = NoPlan
  /\ \E p \in Found(ask.start, ask.barred) : Answered(p, "none")
  /\ UNCHANGED <<ask, primary, turn, alternatives, prefix>>
-----------------------------------------------------------------------------
(* The two-phase pipeline. *)

FindPrimary ==
  /\ stage = "primary"
  /\ \E p \in Found(ask.start, ask.barred) :
       /\ primary' = p
       /\ IF p = NoPlan \/ p = EmptyPlan THEN Answered(p, "none")
          ELSE IF Verdict(ask.goal, p) \in {"feasible", "skipped"}
          THEN Answered(p, Verdict(ask.goal, p))
          ELSE stage' = "alternatives" /\ UNCHANGED answer
  /\ UNCHANGED <<ask, turn, alternatives, prefix>>

MoreToTry == turn <= Len(primary.actions) /\ Cardinality(alternatives) < MaxAlternatives

SameNames(p, q) == p.actions = q.actions

\* enumerate_alternatives: a plan without one action of the primary plan. When
\* there is none the search answers with a plan over all actions.
TryWithout ==
  /\ stage = "alternatives" /\ MoreToTry
  /\ \E p \in Found(ask.start, ask.barred \cup {primary.actions[turn]}) :
       alternatives' =
         IF p = NoPlan \/ \E q \in {primary} \cup alternatives : SameNames(p, q)
           THEN alternatives ELSE alternatives \cup {p}
  /\ turn' = turn + 1
  /\ UNCHANGED <<ask, stage, primary, prefix, answer>>

\* The best alternative; the primary plan, marked infeasible, when no
\* alternative is admissible.
ChooseAlternative ==
  /\ stage = "alternatives" /\ ~MoreToTry
  /\ LET best == Optimal(ask.goal, alternatives)
     IN  IF best = {} THEN Answered(primary, "infeasible")
         ELSE \E p \in best : Answered(p, "optimal")
  /\ UNCHANGED <<ask, primary, turn, alternatives, prefix>>
-----------------------------------------------------------------------------
(* Repair: keep what can still be run, and plan on from where it leads. *)

StartRepair ==
  /\ stage = "asked" /\ ask.way = "repair" /\ ask.prior # NoPlan
  /\ stage' = IF Satisfies(ask.start, ask.goal.conditions) THEN "search" ELSE "prefix"
  /\ turn' = ask.step + 1
  /\ UNCHANGED <<ask, primary, alternatives, prefix, answer>>

Applicable ==
  /\ turn <= Len(ask.prior.actions)
  /\ Satisfies(After(ask.start, prefix), Pre[ask.prior.actions[turn]])

KeepAction ==
  /\ stage = "prefix" /\ Applicable
  /\ prefix' = Extend(ask.start, prefix, ask.prior.actions[turn])
  /\ turn' = turn + 1
  /\ UNCHANGED <<ask, stage, primary, alternatives, answer>>

\* Plausible bug: the suffix is planned from the state the repair began in.
WaysOnFromStart(state) == Found(ask.start, ask.barred)

\* The searches that may complete the prefix.
WaysOn(state) == Found(state, ask.barred)

\* Without a prefix, or without a way on from it, the strategy plans afresh.
PlanSuffix ==
  /\ stage = "prefix" /\ ~Applicable
  /\ \E p \in WaysOn(After(ask.start, prefix)) :
       IF p = NoPlan \/ prefix = EmptyPlan
         THEN stage' = "search" /\ UNCHANGED answer
         ELSE Answered([actions  |-> prefix.actions \o p.actions,
                        expected |-> prefix.expected \o p.expected], "none")
  /\ UNCHANGED <<ask, primary, turn, alternatives, prefix>>
-----------------------------------------------------------------------------
(* The other strategies. *)

\* LazyDecompositionStrategy: the first actions of a plan.
PlanAhead ==
  /\ stage = "asked" /\ ask.way = "lazy"
  /\ \E p \in Found(ask.start, ask.barred) :
       IF p = NoPlan \/ Len(p.actions) <= Lookahead THEN Answered(p, "none")
       ELSE Answered([actions  |-> SubSeq(p.actions, 1, Lookahead),
                      expected |-> SubSeq(p.expected, 1, Lookahead)], "none")
  /\ UNCHANGED <<ask, primary, turn, alternatives, prefix>>

\* AnytimePlanningStrategy: the search's answer, or none if it came too late.
PlanInTime ==
  /\ stage = "asked" /\ ask.way = "anytime"
  /\ \E p \in Found(ask.start, ask.barred) \cup {NoPlan} : Answered(p, "none")
  /\ UNCHANGED <<ask, primary, turn, alternatives, prefix>>

\* UtilityStrategy: one applicable action of the greatest net value.
BestAction ==
  /\ stage = "asked" /\ ask.way = "utility"
  /\ LET can == {a \in Actions \ ask.barred : Satisfies(ask.start, Pre[a])}
         best == {a \in can : \A b \in can : Worth[b] - Price[b] <= Worth[a] - Price[a]}
     IN  IF can = {} THEN Answered(NoPlan, "none")
         ELSE \E a \in best : Answered(Extend(ask.start, EmptyPlan, a), "none")
  /\ UNCHANGED <<ask, primary, turn, alternatives, prefix>>

\* CSPRefinementStrategy: the plan it was made for, with its status.
Refine ==
  /\ stage = "asked" /\ ask.way = "refine"
  /\ Answered(ask.prior, Verdict(ask.goal, ask.prior))
  /\ UNCHANGED <<ask, primary, turn, alternatives, prefix>>

StrategiesNext ==
  \/ Route \/ PlanFromScratch
  \/ FindPrimary \/ TryWithout \/ ChooseAlternative
  \/ StartRepair \/ KeepAction \/ PlanSuffix
  \/ PlanAhead \/ PlanInTime \/ BestAction \/ Refine

StrategiesSpec == StrategiesInit /\ [][StrategiesNext]_strategyVars
-----------------------------------------------------------------------------
(* The plan at hand can be run from the state the caller gave: every action is *)
(* applicable where it stands and leads to the state predicted for it.         *)
RunsFrom(start, p) ==
  /\ Len(p.expected) = Len(p.actions)
  /\ \A i \in DOMAIN p.actions :
       /\ Satisfies(Before(start, p, i), Pre[p.actions[i]])
       /\ p.expected[i] = Apply(Before(start, p, i), Eff[p.actions[i]])

(* The answer is the part of the prior plan that repair kept, and a plan from    *)
(* where that leads.                                                            *)
StartsWithPrefix(p) ==
  ask.way = "repair" /\ SubSeq(p.actions, 1, Len(prefix.actions)) = prefix.actions

(* Every strategy that plans answers with a plan that runs from the caller's    *)
(* state, pieced together or cut short as it may be, and that reaches the goal  *)
(* unless the strategy looks only so far ahead. A single-use action is used     *)
(* once; but once more by a repaired plan, whose suffix is searched without     *)
(* regard to the prefix (repair.py:116): neither part uses it twice.            *)
StrategyPlansRun ==
  stage = "done" /\ ask.way # "refine" /\ answer.plan # NoPlan =>
    LET p == answer.plan
    IN  /\ RunsFrom(ask.start, p)
        /\ ask.way \notin {"lazy", "utility"} =>
             Satisfies(After(ask.start, p), ask.goal.conditions)
        /\ \A i, j \in DOMAIN p.actions :
             i < j /\ p.actions[i] = p.actions[j] /\ p.actions[i] \in SingleUse =>
               StartsWithPrefix(p) /\ i <= Len(prefix.actions) /\ Len(prefix.actions) < j

\* A search from there may find no plan without the barred actions.
NoneAround(start, barred) ==
  NoPlan \in SearchOutcomes(start, ask.goal.conditions, Actions \ barred)

(* A barred action is in an answer only for want of a plan around it: from the  *)
(* caller's state or, in a repaired plan, from where the kept prefix leads; for *)
(* an alternative, of a plan around one more action, of the primary plan. The   *)
(* prefix itself is kept with whatever is barred in it (repair.py:101).         *)
BarredOnlyIfForced ==
  stage = "done" /\ ask.way # "refine" /\ answer.plan # NoPlan =>
    LET p == answer.plan
    IN  \A i \in DOMAIN p.actions :
          p.actions[i] \in ask.barred =>
            \/ NoneAround(ask.start, ask.barred)
            \/ /\ answer.status = "optimal"
               /\ \E a \in ActionsOf(primary) : NoneAround(ask.start, ask.barred \cup {a})
            \/ /\ StartsWithPrefix(p)
               /\ \/ i <= Len(prefix.actions)
                  \/ NoneAround(After(ask.start, prefix), ask.barred)

\* What int() may hide between two amounts: less than a unit of the solver, and less
\* than two if zero lies between them.
Slack(x, y) == IF x < 0 <=> y < 0 THEN Grain - 1 ELSE 2 * (Grain - 1)

WithinAUnit(goal, p) ==
  \A r \in Hard(goal) :
    LET x == Total(p, r)
        l == goal.limits[r]
    IN  ~Below(x + Slack(x, l.low), l.low) /\ ~Above(x - Slack(x, l.high), l.high)

(* What is said of a plan is true of it. The status: "feasible" within the hard *)
(* limits, "optimal" within less than one unit of the solver of them, or two     *)
(* around zero, "infeasible" only when the plan misses a hard limit and no       *)
(* alternative the pipeline has seen meets them all with non-negative totals.    *)
(* The score: below zero if a hard limit that weighs anything is missed. The     *)
(* explanation, in whatever order the limits come: limits that cannot be met     *)
(* together, each needed for that.                                               *)
VerdictIsHonest ==
  stage = "done" =>
    LET p == answer.plan
    IN  /\ p # NoPlan /\ answer.status # "none" =>
             (HardScore(ask.goal, p) < 0
                <=> \E r \in Missed(ask.goal, p) : ask.goal.limits[r].weight > 0)
        /\ answer.status = "feasible" => MeetsHardLimits(ask.goal, p)
        /\ answer.status = "optimal" => WithinAUnit(ask.goal, p)
        /\ answer.status = "infeasible" =>
             /\ ~MeetsHardLimits(ask.goal, p)
             /\ \A order \in Ext!SetToSeqs(Missed(ask.goal, p)) :
                  LET named == Conflicting(ask.goal, p, order)
                  IN  /\ named \cap Missed(ask.goal, p) # {}
                      /\ \A r \in named : (named \ {r}) \cap Missed(ask.goal, p) = {}
             /\ \A q \in alternatives :
                  MeetsHardLimits(ask.goal, q) => \E r \in Resources : Total(q, r) < 0
=============================================================================
