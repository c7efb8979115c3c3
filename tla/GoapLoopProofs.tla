--------------------------- MODULE GoapLoopProofs ---------------------------
(***************************************************************************)
(* Theorems about GoapLoop, for every domain, every configuration of the    *)
(* graph and every run.                                                    *)
(***************************************************************************)
EXTENDS GoapLoop, GoapDomainProofs
-----------------------------------------------------------------------------
(* What the planner node works out. *)

\* Resolvers turn a world into a world.
LEMMA ViewType ==
  ASSUME NEW w \in World
  PROVE  View(w) \in World
BY LoopAssumption DEF View, World

LEMMA NoDraftType ==
  NoDraft \in [sensed : World, world : World, goal : Goals,
               subgoal : Nat \ {0}, tries : Nat]
<1>1. NoGoal \in Goals
  BY DEF NoGoal, Goals, Modes
<1> QED
  BY <1>1, NothingType DEF NoDraft

\* An outcome of the planner: no plan or one chained from the planned-from world,
\* for a sub-goal counted from 1.
IsOutcome(r, w) ==
  /\ r.plan = NoPlan \/ (r.plan \in Plan /\ Chained(w, r.plan))
  /\ r.subgoal \in Nat \ {0}

LEMMA CoreOutcomeType ==
  ASSUME NEW w \in World, NEW g \in Goals, g.mode # "none", subgoal \in Nat \ {0},
         NEW r \in CoreOutcomes(w, g)
  PROVE  IsOutcome(r, w)
<1>1. ASSUME NEW i, NEW p \in SubgoalSearch(w, g, i)
      PROVE  p = NoPlan \/ (p \in Plan /\ Chained(w, p))
  BY <1>1, SearchResult DEF SubgoalSearch
<1>2. /\ g.mode \in {"single", "sequential", "any"}
      /\ g.goals \in Seq(GoalSpec)
      /\ Len(g.goals) \in Nat \ {0}
      /\ DOMAIN g.goals = 1 .. Len(g.goals)
  BY DEF Goals, Modes
<1>3. CASE g.mode = "single"
  BY <1>1, <1>3 DEF CoreOutcomes, SingleOutcomes, IsOutcome
<1>4. CASE g.mode = "sequential"
  <2>1. \/ \E i \in subgoal .. Len(g.goals) :
             \E p \in SubgoalSearch(w, g, i) : r = [plan |-> p, subgoal |-> i]
        \/ r = [plan |-> NoPlan, subgoal |-> Len(g.goals)]
    BY <1>4 DEF CoreOutcomes, SequentialOutcomes
  <2> QED
    BY <1>1, <1>2, <2>1 DEF IsOutcome
<1>5. CASE g.mode = "any"
  <2>1. \/ \E i \in DOMAIN g.goals :
             \E p \in SubgoalSearch(w, g, i) : r = [plan |-> p, subgoal |-> i]
        \/ r = [plan |-> NoPlan, subgoal |-> subgoal]
    BY <1>5 DEF CoreOutcomes, AnyOutcomes
  <2> QED
    BY <1>1, <1>2, <2>1 DEF IsOutcome
<1> QED
  BY <1>2, <1>3, <1>4, <1>5
-----------------------------------------------------------------------------
(* Type correctness. *)

\* An action left to run is one of the registered actions.
LEMMA CurrentType ==
  ASSUME TypeOK, HasActionLeft
  PROVE  Current \in Actions
<1>1. plan \in Plan /\ step \in Nat /\ step < Len(plan.actions)
  BY DEF TypeOK, HasActionLeft
<1>2. plan.actions \in Seq(Actions) /\ step + 1 \in 1 .. Len(plan.actions)
  BY <1>1 DEF Plan
<1> QED
  BY <1>2 DEF Current

LEMMA ReturnType ==
  ASSUME TypeOK, NEW v, NEW r, IsOutcome(r, v), NEW w \in World, NEW g \in Goals,
         NEW h, Return(r, w, g), Explain(r, h)
  PROVE  TypeOK'
<1>1. /\ pc' = "executor" /\ world' \in World /\ goal' \in Goals
      /\ plan' \in Plan \cup {NoPlan} /\ step' \in Nat
      /\ status' \in {"no_plan", "executing"}
      /\ draft' \in [sensed : World, world : World, goal : Goals,
                     subgoal : Nat \ {0}, tries : Nat]
      /\ lastFailed' = lastFailed /\ succeeded' = succeeded
  BY NoDraftType DEF Return, IsOutcome
<1>2. subgoal' \in Nat \ {0}
  BY DEF Return, MoveIndex, IsOutcome
<1>3. replanCount' \in Nat
  BY DEF Return, CountRound, TypeOK
<1>4. blacklist' \subseteq Actions /\ failures' \in [Actions -> Nat]
  BY DEF Return, ForgetIfReused, NoFailures, TypeOK
<1>5. explained' \in BOOLEAN
  BY DEF Explain, TypeOK
<1> QED
  BY <1>1, <1>2, <1>3, <1>4, <1>5 DEF TypeOK, Places, Statuses

LEMMA TypeInit == Init => TypeOK
<1> SUFFICES ASSUME Init PROVE TypeOK
  OBVIOUS
<1>1. world \in World /\ goal \in Goals
  BY LoopAssumption DEF Init
<1> QED
  <2>1. draft \in [sensed : World, world : World, goal : Goals,
                   subgoal : Nat \ {0}, tries : Nat]
    BY NoDraftType DEF Init
  <2>2. /\ pc = "planner" /\ subgoal = 1 /\ plan = NoPlan /\ step = 0
        /\ status = "" /\ replanCount = 0 /\ blacklist = {}
        /\ failures = [a \in Actions |-> 0] /\ explained = FALSE
        /\ lastFailed = NoAction /\ succeeded = {}
    BY DEF Init, NoFailures
  <2>3. pc \in Places /\ status \in Statuses
    BY <2>2 DEF Places, Statuses
  <2>4. pc # "waiting" /\ status # "action_failed"
    BY <2>2
  <2>5. failures \in [Actions -> Nat]
    BY DEF Init, NoFailures
  <2>7. subgoal \in Nat \ {0}
    <3>1. subgoal = 1
      BY DEF Init
    <3> QED
      BY <3>1
  <2>8. step \in Nat /\ replanCount \in Nat
    BY DEF Init
  <2>6. /\ plan \in Plan \cup {NoPlan} /\ blacklist \subseteq Actions
        /\ explained \in BOOLEAN /\ lastFailed \in Actions \cup {NoAction}
        /\ succeeded \subseteq Actions
    BY <2>2
  <2> QED
    BY <1>1, <2>1, <2>3, <2>4, <2>5, <2>6, <2>7, <2>8 DEF TypeOK

LEMMA TypeStutter == TypeOK /\ UNCHANGED vars => TypeOK'
BY DEF TypeOK, vars, HasActionLeft

LEMMA TypePlanner ==
  ASSUME TypeOK, Planner \/ Handlers
  PROVE  TypeOK'
<1>1. CASE PlanWithoutGoal
  <2>1. world' \in World
    BY <1>1, ApplyType, LoopAssumption DEF PlanWithoutGoal, TypeOK
  <2> QED
    BY <1>1, <2>1 DEF PlanWithoutGoal, TypeOK, Places, Statuses
<1>2. CASE PlanRaises \/ HandlerRaisesIndex
  BY <1>2 DEF PlanRaises, HandlerRaisesIndex, Raise, TypeOK, Places
<1>3. CASE PlanRound
  <2>1. PICK reading \in SensorReadings :
          \E r \in CoreOutcomes(View(Apply(world, reading)), goal) :
            \/ /\ pc' = "stuck"
               /\ draft' = [sensed |-> Apply(world, reading),
                            world |-> View(Apply(world, reading)), goal |-> goal,
                            subgoal |-> r.subgoal, tries |-> 0]
               /\ UNCHANGED <<world, goal, subgoal, plan, step, status, replanCount,
                              blacklist, failures, explained, lastFailed, succeeded>>
            \/ Return(r, Apply(world, reading), goal) /\ Explain(r, goal)
    BY <1>3 DEF PlanRound
  <2> DEFINE sensed == Apply(world, reading)
  <2>2. sensed \in World /\ View(sensed) \in World
    BY ApplyType, ViewType, LoopAssumption DEF TypeOK
  <2> HIDE DEF sensed
  <2>3. PICK r \in CoreOutcomes(View(sensed), goal) :
          \/ /\ pc' = "stuck"
             /\ draft' = [sensed |-> sensed, world |-> View(sensed), goal |-> goal,
                          subgoal |-> r.subgoal, tries |-> 0]
             /\ UNCHANGED <<world, goal, subgoal, plan, step, status, replanCount,
                            blacklist, failures, explained, lastFailed, succeeded>>
          \/ Return(r, sensed, goal) /\ Explain(r, goal)
    BY <2>1 DEF sensed
  <2>4. IsOutcome(r, View(sensed)) /\ goal \in Goals
    BY <1>3, <2>2, CoreOutcomeType DEF PlanRound, TypeOK
  <2>5. CASE pc' = "stuck"
    BY <2>2, <2>3, <2>4, <2>5 DEF TypeOK, Places, IsOutcome, Return
  <2>6. CASE pc' # "stuck"
    BY <2>2, <2>3, <2>4, <2>6, ReturnType
  <2> QED
    BY <2>5, <2>6
<1>4. CASE HandlersGiveUp
  <2> DEFINE r == [plan |-> NoPlan, subgoal |-> draft.subgoal]
  <2>1. IsOutcome(r, world) /\ draft.sensed \in World /\ goal \in Goals
    BY DEF IsOutcome, TypeOK
  <2>2. Return(r, draft.sensed, goal) /\ Explain(r, draft.goal)
    BY <1>4 DEF HandlersGiveUp
  <2> QED
    BY <2>1, <2>2, ReturnType
<1>5. CASE HandlerReplans
  <2>1. PICK update \in StuckUpdates, g \in {draft.goal} \cup StuckGoals :
          /\ g.mode # "none"
          /\ \E r \in CoreOutcomes(Apply(draft.world, update), g) :
               \/ Return(r, Apply(draft.world, update), g) /\ Explain(r, g)
               \/ Return(r, draft.sensed, goal) /\ Explain(r, g)
               \/ pc = "stuck" /\ AskAgain(r, Apply(draft.world, update), g)
    BY <1>5 DEF HandlerReplans
  <2> DEFINE patched == Apply(draft.world, update)
  <2>2. patched \in World /\ g \in Goals /\ goal \in Goals /\ draft.sensed \in World
    BY ApplyType, LoopAssumption DEF TypeOK
  <2> HIDE DEF patched
  <2>3. PICK r \in CoreOutcomes(patched, g) :
          \/ Return(r, patched, g) /\ Explain(r, g)
          \/ Return(r, draft.sensed, goal) /\ Explain(r, g)
          \/ pc = "stuck" /\ AskAgain(r, patched, g)
    BY <2>1 DEF patched
  <2>4. IsOutcome(r, patched)
    BY <2>1, <2>2, CoreOutcomeType DEF TypeOK
  <2>5. CASE AskAgain(r, patched, g) /\ pc = "stuck"
    <3>1. draft' \in [sensed : World, world : World, goal : Goals,
                      subgoal : Nat \ {0}, tries : Nat]
      <4>1. r.subgoal \in Nat \ {0}
        BY <2>4 DEF IsOutcome
      <4>2. draft' = [sensed |-> draft.sensed, world |-> patched, goal |-> g,
                      subgoal |-> r.subgoal, tries |-> draft.tries + 1]
        BY <2>5 DEF AskAgain, TypeOK
      <4> QED
        BY <2>2, <4>1, <4>2 DEF TypeOK
    <3>2. UNCHANGED <<pc, world, goal, subgoal, plan, step, status, replanCount,
                      blacklist, failures, explained, lastFailed, succeeded>>
      BY <2>5 DEF AskAgain
    <3> QED
      BY <3>1, <3>2 DEF TypeOK, HasActionLeft
  <2> QED
    BY <2>2, <2>3, <2>4, <2>5, ReturnType
<1> QED
  BY <1>1, <1>2, <1>3, <1>4, <1>5 DEF Planner, Handlers

LEMMA TypeExecutor ==
  ASSUME TypeOK, Executor
  PROVE  TypeOK'
<1>1. CASE SkipExecution
  BY <1>1 DEF SkipExecution, TypeOK, Places
<1>2. CASE NothingToExecute
  BY <1>2 DEF NothingToExecute, TypeOK, Places, Statuses
<1>3. CASE AskHuman
  BY <1>3 DEF AskHuman, Ready, HasActionLeft, TypeOK, Places
<1>4. ASSUME Fail, HasActionLeft,
             failures' \in [Actions -> Nat]
      PROVE  TypeOK'
  <2>1. Current \in Actions
    BY <1>4, CurrentType
  <2> QED
    BY <1>4, <2>1 DEF Fail, TypeOK, Places, Statuses
<1>5. PinFailures => failures' \in [Actions -> Nat]
  BY LoopAssumption DEF PinFailures
<1>6. Ready \/ pc = "waiting" => HasActionLeft
  BY DEF Ready, TypeOK
<1>7. CASE GuardBlocks
  BY <1>4, <1>5, <1>6, <1>7 DEF GuardBlocks
<1>8. CASE HumanDenies
  BY <1>4, <1>5, <1>6, <1>8 DEF HumanDenies
<1>9. CASE ActionRaises
  BY <1>4, <1>6, <1>9 DEF ActionRaises, Performing, TypeOK
<1>10. CASE ValidatorRejects
  BY <1>4, <1>6, <1>10 DEF ValidatorRejects, Performing, TypeOK
<1>11. CASE ActionSucceeds
  <2>1. Current \in Actions
    BY <1>6, <1>11, CurrentType DEF ActionSucceeds, Performing
  <2>2. world' \in World
    BY <1>11, <2>1, ApplyType, LoopAssumption DEF ActionSucceeds, TypeOK
  <2> QED
    BY <1>11, <2>1, <2>2 DEF ActionSucceeds, TypeOK, Places
<1> QED
  BY <1>1, <1>2, <1>3, <1>7, <1>8, <1>9, <1>10, <1>11 DEF Executor

LEMMA TypeObserver ==
  ASSUME TypeOK, Observer
  PROVE  TypeOK'
<1>1. ASSUME NEW outcome \in Statuses \ {"action_failed"}, Finish(outcome)
      PROVE  TypeOK'
  BY <1>1 DEF Finish, TypeOK, Places
<1>2. ASSUME NEW node \in {"planner", "executor"}, GoTo(node)
      PROVE  TypeOK'
  BY <1>2 DEF GoTo, TypeOK, Places
<1>3. CASE SubgoalAchieved
  BY <1>3 DEF SubgoalAchieved, NoFailures, TypeOK, Places
<1>4. CASE ReplanAfterFailure
  <2>1. lastFailed \in Actions
    BY <1>4 DEF ReplanAfterFailure, TypeOK
  <2>2. failures' \in [Actions -> Nat]
    BY <1>4, <2>1 DEF ReplanAfterFailure, TypeOK
  <2>3. blacklist' \subseteq Actions
    BY <1>4, <2>1 DEF ReplanAfterFailure, TypeOK
  <2> QED
    BY <1>4, <2>2, <2>3 DEF ReplanAfterFailure, TypeOK, Places
<1>5. CASE PolicyTerminates \/ GoalMissing \/ GoalAchieved \/ GiveUpReplanning
           \/ NoPlanFound \/ AbandonAfterFailure \/ AbandonExhausted
  BY <1>1, <1>5 DEF PolicyTerminates, GoalMissing, GoalAchieved, GiveUpReplanning,
     NoPlanFound, AbandonAfterFailure, AbandonExhausted, Statuses
<1>6. CASE ReplanEveryAction \/ ReplanOnDeviation \/ ContinuePlan \/ PlanExhausted
  BY <1>2, <1>6 DEF ReplanEveryAction, ReplanOnDeviation, ContinuePlan, PlanExhausted
<1> QED
  BY <1>3, <1>4, <1>5, <1>6 DEF Observer

\* The channels keep their types, a suspended run has an action to ask about, and
\* a failure to route has a failed record, in every configuration of the graph.
THEOREM TypeCorrect == Spec => []TypeOK
<1>1. Init => TypeOK
  BY TypeInit
<1>2. TypeOK /\ [Next]_vars => TypeOK'
  BY TypePlanner, TypeExecutor, TypeObserver, TypeStutter DEF Next, Finished
<1> QED
  BY <1>1, <1>2, PTL DEF Spec
-----------------------------------------------------------------------------
(* Executed plans and the blacklist. *)

\* PlanAvoidsBlacklist is not inductive: the observer hands the plan back to the
\* executor, so the plan has to be clean while the observer holds it too.
PlanIsClean ==
  pc \in {"executor", "waiting", "observer"} /\ plan # NoPlan
    => ActionsOf(plan) \cap blacklist = {}

LEMMA CleanStep ==
  ASSUME PlanIsClean, Next
  PROVE  PlanIsClean'
<1>1. ASSUME NEW r, NEW w, NEW g, Return(r, w, g)
      PROVE  PlanIsClean'
  <2>1. plan' = r.plan
    BY <1>1 DEF Return
  <2>2. CASE r.plan # NoPlan /\ ActionsOf(r.plan) \cap Barred # {}
    BY <1>1, <2>2 DEF Return, ForgetIfReused, PlanIsClean
  <2>3. CASE r.plan = NoPlan
    BY <2>1, <2>3 DEF PlanIsClean
  <2>4. CASE ActionsOf(r.plan) \cap Barred = {}
    <3>1. blacklist' \in {{}, blacklist}
      BY <1>1 DEF Return, ForgetIfReused
    <3>2. ActionsOf(r.plan) \cap blacklist = {}
      BY <2>4 DEF Barred
    <3>3. ActionsOf(plan') \cap blacklist' = {}
      BY <2>1, <3>1, <3>2
    <3> QED
      BY <3>3 DEF PlanIsClean, ActionsOf
  <2> QED
    BY <2>2, <2>3, <2>4
<1>2. CASE PlanWithoutGoal
  BY <1>2 DEF PlanWithoutGoal, PlanIsClean
<1>3. CASE PlanRaises \/ HandlerRaisesIndex
  BY <1>3 DEF PlanRaises, HandlerRaisesIndex, Raise, PlanIsClean
<1>4. CASE PlanRound
  <2>1. pc' = "stuck" \/ \E r, w, g : Return(r, w, g)
    BY <1>4 DEF PlanRound
  <2> QED
    BY <1>1, <2>1 DEF PlanIsClean
<1>5. CASE HandlersGiveUp
  BY <1>1, <1>5 DEF HandlersGiveUp
<1>6. CASE HandlerReplans
  <2>1. pc' = "stuck" \/ \E r, w, g : Return(r, w, g)
    BY <1>6 DEF HandlerReplans, AskAgain
  <2> QED
    BY <1>1, <2>1 DEF PlanIsClean
<1>7. CASE Executor
  <2>1. plan' = plan /\ blacklist' = blacklist
    BY <1>7 DEF Executor, SkipExecution, NothingToExecute, AskHuman, GuardBlocks,
       HumanDenies, ActionRaises, ValidatorRejects, ActionSucceeds, Fail
  <2>2. pc \in {"executor", "waiting"}
    BY <1>7 DEF Executor, SkipExecution, NothingToExecute, AskHuman, GuardBlocks,
       HumanDenies, ActionRaises, ValidatorRejects, ActionSucceeds, Ready, Performing
  <2> QED
    BY <2>1, <2>2 DEF PlanIsClean, ActionsOf
<1>8. CASE ContinuePlan
  BY <1>8 DEF ContinuePlan, GoTo, OnPlan, Advancing, Undecided, Pursuing, Observing,
     PlanIsClean, ActionsOf
<1>9. CASE Observer /\ ~ContinuePlan
  <2>1. pc' \in {"planner", "end"}
    BY <1>9 DEF Observer, PolicyTerminates, GoalMissing, SubgoalAchieved, GoalAchieved,
       GiveUpReplanning, NoPlanFound, AbandonAfterFailure, ReplanAfterFailure,
       ReplanEveryAction, ReplanOnDeviation, PlanExhausted, AbandonExhausted,
       Finish, GoTo
  <2> QED
    BY <2>1 DEF PlanIsClean
<1>10. CASE Finished
  BY <1>10 DEF Finished, vars, PlanIsClean, ActionsOf
<1> QED
  BY <1>2, <1>3, <1>4, <1>5, <1>6, <1>7, <1>8, <1>9, <1>10
  DEF Next, Planner, Handlers

\* The executor is never handed a plan with a blacklisted action, whatever fails,
\* is blocked or denied, and whichever plan the search falls back to.
THEOREM BlacklistAvoided == Spec => []PlanAvoidsBlacklist
<1>1. Init => PlanIsClean
  BY DEF Init, PlanIsClean
<1>2. PlanIsClean /\ [Next]_vars => PlanIsClean'
  <2>1. PlanIsClean /\ UNCHANGED vars => PlanIsClean'
    BY DEF PlanIsClean, vars, ActionsOf
  <2> QED
    BY <2>1, CleanStep
<1>3. PlanIsClean => PlanAvoidsBlacklist
  BY DEF PlanIsClean, PlanAvoidsBlacklist
<1> QED
  BY <1>1, <1>2, <1>3, PTL DEF Spec
-----------------------------------------------------------------------------
(* Preconditions of executed actions. *)

\* Whatever start, the later actions of the plan can start where their
\* predecessors are predicted to end.
Linked(p) ==
  /\ Len(p.expected) = Len(p.actions)
  /\ \A i \in 1 .. Len(p.actions) : i > 1 => Satisfies(p.expected[i - 1], Pre[p.actions[i]])

\* PreconditionsHold is not inductive: the observer's comparison only helps with a
\* plan that is linked, and only once a step of it has been carried out.
ReadyInv ==
  /\ TypeOK
  /\ pc # "stuck"
  /\ plan # NoPlan => Linked(plan)
  /\ pc = "observer" /\ HasActionLeft /\ status \notin {"no_plan", "action_failed"}
       => step > 0
  /\ PreconditionsHold

\* Outside executor and observer, all ReadyInv asks of the plan is that it is linked.
LEMMA ReadyElsewhere ==
  ASSUME TypeOK', pc' \in {"planner", "end", "raised"}, plan' # NoPlan => Linked(plan')
  PROVE  ReadyInv'
BY DEF ReadyInv, PreconditionsHold, Linked

LEMMA ReadyAfterPlanner ==
  ASSUME ReadyInv, TypeOK', MaxStuck = 0, Resolved = Nothing, Planner
  PROVE  ReadyInv'
<1>1. CASE PlanWithoutGoal
  BY <1>1 DEF PlanWithoutGoal, ReadyInv, PreconditionsHold, HasActionLeft
<1>2. CASE PlanRaises
  BY <1>2, ReadyElsewhere DEF PlanRaises, Raise, ReadyInv, Linked
<1>3. CASE PlanRound
  <2>1. PICK reading \in SensorReadings :
          \E r \in CoreOutcomes(View(Apply(world, reading)), goal) :
             Return(r, Apply(world, reading), goal)
    BY <1>3 DEF PlanRound
  <2>2. PICK r \in CoreOutcomes(View(Apply(world, reading)), goal) :
             Return(r, Apply(world, reading), goal)
    BY <2>1
  <2>3. Apply(world, reading) \in World
    BY ApplyType, LoopAssumption DEF ReadyInv, TypeOK
  <2>4. ASSUME NEW w \in World
        PROVE  View(w) = w
    BY DEF View, Nothing, World
  <2>5. r.plan # NoPlan => r.plan \in Plan /\ Chained(Apply(world, reading), r.plan)
    BY <1>3, <2>3, <2>4, CoreOutcomeType DEF IsOutcome, PlanRound, ReadyInv, TypeOK
  <2>6. /\ pc' = "executor" /\ plan' = r.plan /\ step' = 0
        /\ world' = Apply(world, reading)
    BY <2>2 DEF Return
  <2>7. plan' # NoPlan => Linked(plan') /\ Chained(world', plan')
    BY <2>5, <2>6 DEF Chained, Linked
  <2>8. HasActionLeft' => Satisfies(world', Pre[Current'])
    <3> SUFFICES ASSUME HasActionLeft' PROVE Satisfies(world', Pre[Current'])
      OBVIOUS
    <3>1. plan' # NoPlan /\ Len(plan'.actions) > 0 /\ Current' = plan'.actions[1]
      BY <2>6 DEF HasActionLeft, Current
    <3> QED
      BY <2>7, <3>1 DEF Chained
  <2>9. PreconditionsHold'
    BY <2>8 DEF PreconditionsHold, Satisfies
  <2> QED
    BY <2>6, <2>7, <2>9 DEF ReadyInv, Linked
<1> QED
  BY <1>1, <1>2, <1>3 DEF Planner

LEMMA ReadyAfterExecutor ==
  ASSUME ReadyInv, TypeOK', Executor
  PROVE  ReadyInv'
<1>1. plan' = plan /\ (plan' # NoPlan => Linked(plan'))
  BY DEF Executor, SkipExecution, NothingToExecute, AskHuman, GuardBlocks, HumanDenies,
     ActionRaises, ValidatorRejects, ActionSucceeds, Fail, ReadyInv, Linked
<1>2. CASE AskHuman
  <2>1. UNCHANGED <<world, goal, subgoal, plan, step, status>>
    BY <1>2 DEF AskHuman
  <2>2. HasActionLeft' = HasActionLeft /\ Active' = Active /\ Current' = Current
    BY <2>1 DEF HasActionLeft, Active, Current
  <2>3. PreconditionsHold'
    BY <1>2, <2>1, <2>2 DEF AskHuman, Ready, ReadyInv, PreconditionsHold, Satisfies
  <2> QED
    BY <1>1, <1>2, <2>3 DEF AskHuman, ReadyInv, Linked
<1>3. CASE Executor /\ ~AskHuman
  <2>1. pc' = "observer"
    BY <1>3 DEF Executor, SkipExecution, NothingToExecute, GuardBlocks, HumanDenies,
       ActionRaises, ValidatorRejects, ActionSucceeds, Fail
  <2>2. PreconditionsHold'
    BY <2>1 DEF PreconditionsHold
  <2>3. HasActionLeft' /\ status' \notin {"no_plan", "action_failed"} => step' > 0
    <3>1. CASE SkipExecution
      BY <3>1 DEF SkipExecution, NothingToDo, HasActionLeft, ReadyInv, TypeOK
    <3>2. CASE NothingToExecute
      BY <3>2 DEF NothingToExecute, HasActionLeft
    <3>3. CASE GuardBlocks \/ HumanDenies \/ ActionRaises \/ ValidatorRejects
      BY <3>3 DEF GuardBlocks, HumanDenies, ActionRaises, ValidatorRejects, Fail
    <3>4. CASE ActionSucceeds
      BY <3>4 DEF ActionSucceeds, ReadyInv, TypeOK
    <3> QED
      BY <1>3, <3>1, <3>2, <3>3, <3>4 DEF Executor
  <2> QED
    BY <1>1, <2>1, <2>2, <2>3 DEF ReadyInv, Linked
<1> QED
  BY <1>2, <1>3

\* The heart of it: a world that agrees with the prediction on the compared keys
\* has the preconditions of the next action.
LEMMA ReadyToContinue ==
  ASSUME ReadyInv, ContinuePlan, Active.strategy # "never"
  PROVE  Satisfies(world, Pre[Current])
<1>1. /\ OnPlan /\ HasActionLeft /\ pc = "observer"
      /\ status \notin {"no_plan", "action_failed"}
      /\ goal.mode # "none" /\ ~PastLastSubgoal
  BY DEF ContinuePlan, OnPlan, Advancing, Undecided, Pursuing, Observing
<1>2. step > 0 /\ step \in Nat /\ plan \in Plan /\ Linked(plan)
  BY <1>1 DEF ReadyInv, TypeOK, HasActionLeft
<1>3. step < Len(plan.actions) /\ Len(plan.expected) = Len(plan.actions)
  BY <1>1, <1>2 DEF HasActionLeft, Linked
<1>4. step \in DOMAIN plan.expected /\ step + 1 \in 1 .. Len(plan.actions)
  BY <1>2, <1>3 DEF Plan
<1>5. Active \in GoalSpec
  <2>1. /\ goal.mode \in {"single", "sequential", "any"}
        /\ goal.goals \in Seq(GoalSpec) /\ Len(goal.goals) > 0
        /\ subgoal \in Nat \ {0}
    BY <1>1 DEF ReadyInv, TypeOK, Goals, Modes
  <2> QED
    BY <1>1, <2>1 DEF Active, PastLastSubgoal
<1>6. Active.strategy = "on_deviation"
  BY <1>1, <1>5 DEF OnPlan, GoalSpec, Strategies
<1>7. \A k \in PlanningKeys(Active.conditions) : world[k] = plan.expected[step][k]
  BY <1>1, <1>4, <1>6 DEF OnPlan, Deviated, HasActionLeft
<1>8. Current \in Actions
  BY <1>1, CurrentType DEF ReadyInv
<1>9. Satisfies(plan.expected[step], Pre[Current])
  <2>1. (step + 1) - 1 = step /\ step + 1 > 1
    BY <1>2
  <2> QED
    BY <1>2, <1>4, <2>1 DEF Linked, Current
<1> QED
  BY <1>7, <1>8, <1>9, PreKeysCompared DEF Satisfies

LEMMA ReadyAfterObserver ==
  ASSUME ReadyInv, TypeOK', Observer
  PROVE  ReadyInv'
<1>1. CASE ContinuePlan
  <2>1. pc' = "executor" /\ UNCHANGED <<world, goal, subgoal, plan, step, status>>
    BY <1>1 DEF ContinuePlan, GoTo
  <2>2. Active' = Active /\ Current' = Current
    BY <2>1 DEF Active, Current
  <2>3. PreconditionsHold'
    BY <1>1, <2>1, <2>2, ReadyToContinue DEF PreconditionsHold, Satisfies
  <2> QED
    BY <2>1, <2>3 DEF ReadyInv, Linked
<1>2. CASE Observer /\ ~ContinuePlan
  <2>1. pc' \in {"planner", "end"} /\ plan' \in {plan, NoPlan}
    BY <1>2 DEF Observer, PolicyTerminates, GoalMissing, SubgoalAchieved, GoalAchieved,
       GiveUpReplanning, NoPlanFound, AbandonAfterFailure, ReplanAfterFailure,
       ReplanEveryAction, ReplanOnDeviation, PlanExhausted, AbandonExhausted,
       Finish, GoTo
  <2> QED
    BY <2>1, ReadyElsewhere DEF ReadyInv, Linked
<1> QED
  BY <1>1, <1>2

LEMMA ReadyStep ==
  ASSUME MaxStuck = 0, Resolved = Nothing, ReadyInv, [Next]_vars
  PROVE  ReadyInv'
<1>1. TypeOK'
  BY TypePlanner, TypeExecutor, TypeObserver, TypeStutter DEF Next, Finished, ReadyInv
<1>2. CASE UNCHANGED vars
  <2>1. UNCHANGED <<pc, world, goal, subgoal, plan, step, status>>
    BY <1>2 DEF vars
  <2>2. HasActionLeft' = HasActionLeft /\ Active' = Active /\ Current' = Current
    BY <2>1 DEF HasActionLeft, Active, Current
  <2>3. PreconditionsHold'
    BY <2>1, <2>2 DEF ReadyInv, PreconditionsHold, Satisfies
  <2> QED
    BY <1>1, <2>1, <2>2, <2>3 DEF ReadyInv, Linked
<1>3. ~Handlers
  BY DEF Handlers, HandlersGiveUp, HandlerRaisesIndex, HandlerReplans, ReadyInv
<1> QED
  BY <1>1, <1>2, <1>3, ReadyAfterPlanner, ReadyAfterExecutor, ReadyAfterObserver
  DEF Next, Finished

\* Without stuck handlers and condition resolvers, an action only starts where its
\* preconditions hold, although sensors, failures and actions may do anything to
\* the world. The run claim_resolver refutes it with a resolver configured.
THEOREM PreconditionsGuaranteed ==
  ASSUME MaxStuck = 0, Resolved = Nothing
  PROVE  Spec => []PreconditionsHold
<1>1. Init => ReadyInv
  BY TypeInit DEF Init, ReadyInv, PreconditionsHold
<1>2. ReadyInv /\ [Next]_vars => ReadyInv'
  BY ReadyStep
<1>3. ReadyInv => PreconditionsHold
  BY DEF ReadyInv
<1> QED
  BY <1>1, <1>2, <1>3, PTL DEF Spec
-----------------------------------------------------------------------------
(* What the planner's outcomes say about the goal. *)

ActiveOf(g, i) == IF g.mode = "single" THEN g.goals[1] ELSE g.goals[i]

\* A plan, unless it is empty, ends in a state with the conditions.
Reaches(p, conditions) ==
  p # NoPlan /\ Len(p.actions) > 0 => Satisfies(p.expected[Len(p.expected)], conditions)

LEMMA SearchReaches ==
  ASSUME NEW start, NEW conditions, NEW barred, NEW p \in Search(start, conditions, barred)
  PROVE  Reaches(p, conditions)
<1>1. CASE p = EmptyPlan
  <2>1. Len(p.actions) = 0
    BY <1>1 DEF EmptyPlan
  <2> QED
    BY <2>1 DEF Reaches
<1>2. CASE p # EmptyPlan
  <2>1. PICK allowed : p \in SearchOutcomes(start, conditions, allowed)
    BY <1>2 DEF Search
  <2>2. p = NoPlan \/ IsPlan(start, conditions, allowed, p)
    BY <2>1 DEF SearchOutcomes, PlansOver
  <2> QED
    BY <2>2 DEF IsPlan, Reaches
<1> QED
  BY <1>1, <1>2

\* Whatever index the planner was given, a plan is one for the sub-goal it landed on.
LEMMA OutcomeReaches ==
  ASSUME NEW w, NEW g \in Goals, g.mode # "none", NEW r \in CoreOutcomes(w, g)
  PROVE  Reaches(r.plan, ActiveOf(g, r.subgoal).conditions)
<1>1. ASSUME NEW i, NEW p \in SubgoalSearch(w, g, i)
      PROVE  Reaches(p, g.goals[i].conditions)
  BY <1>1, SearchReaches DEF SubgoalSearch
<1>2. g.mode \in {"single", "sequential", "any"} /\ \A c : Reaches(NoPlan, c)
  BY DEF Goals, Modes, Reaches
<1>3. CASE g.mode = "single"
  BY <1>1, <1>3 DEF CoreOutcomes, SingleOutcomes, ActiveOf
<1>4. CASE g.mode = "sequential"
  <2>1. \/ r.plan = NoPlan
        \/ \E i \in subgoal .. Len(g.goals) :
             \E p \in SubgoalSearch(w, g, i) : r = [plan |-> p, subgoal |-> i]
    BY <1>4 DEF CoreOutcomes, SequentialOutcomes
  <2> QED
    BY <1>1, <1>2, <1>4, <2>1 DEF ActiveOf
<1>5. CASE g.mode = "any"
  <2>1. \/ r.plan = NoPlan
        \/ \E i \in DOMAIN g.goals :
             \E p \in SubgoalSearch(w, g, i) : r = [plan |-> p, subgoal |-> i]
    BY <1>5 DEF CoreOutcomes, AnyOutcomes
  <2> QED
    BY <1>1, <1>2, <1>5, <2>1 DEF ActiveOf
<1> QED
  BY <1>2, <1>3, <1>4, <1>5

\* The plan executor and observer hold serves the active goal.
Serving ==
  pc \in {"executor", "waiting", "observer"} =>
    Reaches(plan, ActiveOf(goal, subgoal).conditions)
=============================================================================
