-------------------------- MODULE GoapThreadProofs --------------------------
(***************************************************************************)
(* What GoapLoopProofs shows of one run holds on a thread: the invariants  *)
(* survive an invocation, from wherever the last run stopped.              *)
(***************************************************************************)
EXTENDS GoapThread, GoapLoopProofs

LEMMA TypeInvoke ==
  ASSUME TypeOK, Invoke
  PROVE  TypeOK'
<1>1. world' \in World /\ goal' \in Goals
  BY LoopAssumption DEF Invoke
<1> QED
  BY <1>1, NoDraftType DEF Invoke, TypeOK, Places

LEMMA TypeThreadStep == TypeOK /\ [ThreadNext]_vars => TypeOK'
BY TypeInvoke, TypePlanner, TypeExecutor, TypeObserver, TypeStutter
   DEF ThreadNext, Next, Finished

\* The channels keep their types over any number of invocations.
THEOREM ThreadTypeCorrect == ThreadSpec => []TypeOK
<1>1. Init => TypeOK
  BY TypeInit
<1>2. TypeOK /\ [ThreadNext]_vars => TypeOK'
  BY TypeThreadStep
<1> QED
  BY <1>1, <1>2, PTL DEF ThreadSpec

\* No invocation hands the executor a plan with a blacklisted action, though plan and
\* blacklist are both inherited from the last one.
THEOREM ThreadBlacklistAvoided == ThreadSpec => []PlanAvoidsBlacklist
<1>1. Init => PlanIsClean
  BY DEF Init, PlanIsClean
<1>2. PlanIsClean /\ [ThreadNext]_vars => PlanIsClean'
  <2>1. PlanIsClean /\ UNCHANGED vars => PlanIsClean'
    BY DEF PlanIsClean, vars, ActionsOf
  <2>2. PlanIsClean /\ Invoke => PlanIsClean'
    BY DEF PlanIsClean, Invoke
  <2> QED
    BY <2>1, <2>2, CleanStep DEF ThreadNext
<1>3. PlanIsClean => PlanAvoidsBlacklist
  BY DEF PlanIsClean, PlanAvoidsBlacklist
<1> QED
  BY <1>1, <1>2, <1>3, PTL DEF ThreadSpec

LEMMA ReadyInvoke ==
  ASSUME ReadyInv, TypeOK', Invoke
  PROVE  ReadyInv'
<1>1. pc' = "planner" /\ plan' = plan
  BY DEF Invoke
<1>2. plan' # NoPlan => Linked(plan')
  BY <1>1 DEF ReadyInv, Linked
<1> QED
  BY <1>1, <1>2, ReadyElsewhere

\* Without stuck handlers and resolvers, plan, step, status and index inherited
\* from earlier invocations never make an action start where it must not.
THEOREM ThreadPreconditions ==
  ASSUME MaxStuck = 0, Resolved = Nothing
  PROVE  ThreadSpec => []PreconditionsHold
<1>1. Init => ReadyInv
  BY TypeInit DEF Init, ReadyInv, PreconditionsHold
<1>2. ReadyInv /\ [ThreadNext]_vars => ReadyInv'
  <2> SUFFICES ASSUME ReadyInv, [ThreadNext]_vars PROVE ReadyInv'
    OBVIOUS
  <2>1. TypeOK'
    BY TypeThreadStep DEF ReadyInv
  <2>2. CASE Invoke
    BY <2>1, <2>2, ReadyInvoke
  <2>3. CASE [Next]_vars
    BY <2>1, <2>3, ReadyStep
  <2> QED
    BY <2>2, <2>3 DEF ThreadNext
<1>3. ReadyInv => PreconditionsHold
  BY DEF ReadyInv
<1> QED
  BY <1>1, <1>2, <1>3, PTL DEF ThreadSpec
-----------------------------------------------------------------------------
(* Actions declared can_rerun=False. *)

\* Actions that may come to be blacklisted: those whose execution may fail.
Barrable ==
  Fallible \cup Guarded \cup NeedsApproval \cup
  {a \in Actions : \E update \in Outcomes[a], w \in World : Rejects(a, Apply(w, update))}

\* Goals a run may ever pursue.
GoalsInUse == InitialGoals \cup StuckGoals

\* Whatever the world has come to, no goal is out of reach without the actions that
\* may be barred: the search never has to fall back to one of them.
WaysAround ==
  \A w \in World, g \in GoalsInUse, barred \in SUBSET (Barrable \cup SingleUse) :
    \A i \in DOMAIN g.goals :
      \/ Satisfies(w, g.goals[i].conditions)
      \/ NoPlan \notin SearchOutcomes(w, g.goals[i].conditions, Actions \ barred)

\* What is left of a plan uses no single-use action again, and uses each once.
Unspent(p, done, used) ==
  /\ \A i \in 1 .. Len(p.actions) :
       i > done /\ p.actions[i] \in SingleUse => p.actions[i] \notin used
  /\ \A i, j \in 1 .. Len(p.actions) :
       p.actions[i] = p.actions[j] /\ p.actions[i] \in SingleUse => i = j

\* What the three nodes and the thread keep true together: a plan is only made
\* around what was used, and only uses up what it does not use again.
OnceInv ==
  /\ TypeOK
  /\ goal \in GoalsInUse
  /\ pc = "stuck" => draft.goal \in GoalsInUse
  /\ blacklist \subseteq Barrable
  /\ status = "action_failed" => lastFailed \in Barrable
  /\ pc = "waiting" => Current \in NeedsApproval
  /\ pc \in {"executor", "waiting", "observer"} /\ plan # NoPlan => Unspent(plan, step, succeeded)

LEMMA SearchAvoids ==
  ASSUME WaysAround, NEW w \in World, NEW g \in GoalsInUse, NEW i \in DOMAIN g.goals,
         NEW barred \in SUBSET (Barrable \cup SingleUse),
         NEW p \in Search(w, g.goals[i].conditions, barred), p # NoPlan,
         NEW used, SingleUse \cap used \subseteq barred
  PROVE  Unspent(p, 0, used)
<1> DEFINE c == g.goals[i].conditions
<1>1. CASE p = EmptyPlan
  <2>1. Len(p.actions) = 0
    BY <1>1 DEF EmptyPlan
  <2> QED
    BY <2>1 DEF Unspent
<1>2. CASE p # EmptyPlan
  <2>1. ~Satisfies(w, c)
    BY <1>2 DEF Search
  <2>2. NoPlan \notin SearchOutcomes(w, c, Actions \ barred)
    BY <2>1 DEF WaysAround
  <2>3. p \in SearchOutcomes(w, c, Actions \ barred)
    BY <2>1, <2>2 DEF Search
  <2>4. IsPlan(w, c, Actions \ barred, p)
    BY <2>3 DEF SearchOutcomes, PlansOver
  <2>5. p \in Plan /\ DOMAIN p.actions = 1 .. Len(p.actions)
    BY <2>4 DEF IsPlan, Plan
  <2>6. \A j \in 1 .. Len(p.actions) : p.actions[j] \in Actions \ barred
    BY <2>4, <2>5 DEF IsPlan, ActionsOf
  <2> QED
    BY <2>4, <2>6 DEF IsPlan, Unspent
<1> QED
  BY <1>1, <1>2

LEMMA OutcomeUnspent ==
  ASSUME WaysAround, OnceInv, NEW w \in World, NEW g \in GoalsInUse, g.mode # "none",
         NEW r \in CoreOutcomes(w, g), r.plan # NoPlan
  PROVE  Unspent(r.plan, 0, succeeded)
<1>1. g \in Goals
  BY LoopAssumption DEF GoalsInUse
<1>2. /\ g.mode \in {"single", "sequential", "any"} /\ DOMAIN g.goals = 1 .. Len(g.goals)
      /\ Len(g.goals) \in Nat \ {0}
      /\ g.mode = "single" => Len(g.goals) = 1
  BY <1>1 DEF Goals, Modes
<1>3. subgoal \in Nat \ {0} /\ Barred \in SUBSET (Barrable \cup SingleUse)
  BY DEF OnceInv, TypeOK, Barred
<1>4. ASSUME NEW i \in DOMAIN g.goals, NEW p \in SubgoalSearch(w, g, i), p # NoPlan
      PROVE  Unspent(p, 0, succeeded)
  <2>1. SingleUse \cap succeeded \subseteq Barred
    BY DEF Barred
  <2> QED
    BY <1>3, <1>4, <2>1, SearchAvoids DEF SubgoalSearch
<1>5. CASE g.mode = "single"
  BY <1>2, <1>4, <1>5 DEF CoreOutcomes, SingleOutcomes
<1>6. CASE g.mode = "sequential"
  <2>1. \E i \in subgoal .. Len(g.goals) : r.plan \in SubgoalSearch(w, g, i)
    BY <1>6 DEF CoreOutcomes, SequentialOutcomes
  <2> QED
    BY <1>2, <1>3, <1>4, <2>1
<1>7. CASE g.mode = "any"
  <2>1. \E i \in DOMAIN g.goals : r.plan \in SubgoalSearch(w, g, i)
    BY <1>7 DEF CoreOutcomes, AnyOutcomes
  <2> QED
    BY <1>4, <2>1
<1> QED
  BY <1>2, <1>5, <1>6, <1>7

LEMMA OnceReturn ==
  ASSUME OnceInv, TypeOK', NEW r, NEW w, NEW g \in GoalsInUse, Return(r, w, g),
         r.plan # NoPlan => Unspent(r.plan, 0, succeeded)
  PROVE  OnceInv'
<1>1. /\ pc' = "executor" /\ goal' = g /\ plan' = r.plan /\ step' = 0
      /\ succeeded' = succeeded /\ status' # "action_failed" /\ blacklist' \subseteq blacklist
  BY DEF Return, ForgetIfReused
<1> QED
  BY <1>1 DEF OnceInv

LEMMA OncePlanner ==
  ASSUME WaysAround, OnceInv, TypeOK', Planner \/ Handlers
  PROVE  OnceInv'
<1>1. CASE PlanWithoutGoal
  BY <1>1 DEF PlanWithoutGoal, OnceInv
<1>2. CASE PlanRaises \/ HandlerRaisesIndex
  BY <1>2 DEF PlanRaises, HandlerRaisesIndex, Raise, OnceInv
<1>3. CASE PlanRound
  <2>1. PICK reading \in SensorReadings : \E r \in CoreOutcomes(View(Apply(world, reading)), goal) :
          \/ Return(r, Apply(world, reading), goal)
          \/ /\ pc' = "stuck" /\ draft'.goal = goal
             /\ UNCHANGED <<goal, blacklist, status, lastFailed>>
    BY <1>3 DEF PlanRound
  <2> DEFINE w == View(Apply(world, reading))
  <2>2. w \in World /\ goal \in GoalsInUse /\ goal.mode # "none"
    BY <1>3, ApplyType, ViewType, LoopAssumption DEF OnceInv, TypeOK, PlanRound
  <2>3. PICK r \in CoreOutcomes(w, goal) :
          \/ Return(r, Apply(world, reading), goal)
          \/ /\ pc' = "stuck" /\ draft'.goal = goal
             /\ UNCHANGED <<goal, blacklist, status, lastFailed>>
    BY <2>1
  <2> HIDE DEF w
  <2>4. CASE Return(r, Apply(world, reading), goal)
    BY <2>2, <2>4, OutcomeUnspent, OnceReturn
  <2>5. CASE pc' = "stuck" /\ draft'.goal = goal /\ UNCHANGED <<goal, blacklist, status, lastFailed>>
    BY <2>5 DEF OnceInv
  <2> QED
    BY <2>3, <2>4, <2>5
<1>4. CASE HandlersGiveUp
  <2>1. Return([plan |-> NoPlan, subgoal |-> draft.subgoal], draft.sensed, goal)
    BY <1>4 DEF HandlersGiveUp
  <2> QED
    BY <2>1, OnceReturn DEF OnceInv
<1>5. CASE HandlerReplans
  <2>1. PICK update \in StuckUpdates, g \in {draft.goal} \cup StuckGoals :
          /\ g.mode # "none"
          /\ \E r \in CoreOutcomes(Apply(draft.world, update), g) :
               \/ Return(r, Apply(draft.world, update), g)
               \/ Return(r, draft.sensed, goal)
               \/ AskAgain(r, Apply(draft.world, update), g)
    BY <1>5 DEF HandlerReplans
  <2> DEFINE w == Apply(draft.world, update)
  <2>2. w \in World /\ g \in GoalsInUse /\ goal \in GoalsInUse
    BY <1>5, <2>1, ApplyType, LoopAssumption
    DEF HandlerReplans, OnceInv, TypeOK, GoalsInUse
  <2>3. PICK r \in CoreOutcomes(w, g) :
          Return(r, w, g) \/ Return(r, draft.sensed, goal) \/ AskAgain(r, w, g)
    BY <2>1
  <2> HIDE DEF w
  <2>4. CASE Return(r, w, g) \/ Return(r, draft.sensed, goal)
    BY <2>1, <2>2, <2>4, OutcomeUnspent, OnceReturn
  <2>5. CASE AskAgain(r, w, g)
    <3>1. /\ draft'.goal = g /\ pc' = pc
          /\ UNCHANGED <<goal, blacklist, status, lastFailed>>
      BY <2>5 DEF AskAgain, OnceInv, TypeOK
    <3> QED
      BY <1>5, <2>2, <3>1 DEF OnceInv, HandlerReplans
  <2> QED
    BY <2>3, <2>4, <2>5
<1> QED
  BY <1>1, <1>2, <1>3, <1>4, <1>5 DEF Planner, Handlers

\* The only action that is carried out is the current one, and it was not yet.
LEMMA OnceExecutor ==
  ASSUME OnceInv, TypeOK', Executor
  PROVE  OnceInv' /\ (step' = step + 1 => Current \notin SingleUse \cap succeeded)
<1>1. /\ pc \in {"executor", "waiting"} /\ pc' \in {"waiting", "observer"}
      /\ UNCHANGED <<goal, plan, blacklist>> /\ step \in Nat
  BY DEF Executor, SkipExecution, NothingToExecute, AskHuman, GuardBlocks, HumanDenies,
     ActionRaises, ValidatorRejects, ActionSucceeds, Fail, Ready, Performing, OnceInv, TypeOK
<1>2. CASE SkipExecution \/ NothingToExecute \/ AskHuman
  BY <1>1, <1>2 DEF SkipExecution, NothingToExecute, AskHuman, OnceInv, Current
<1>3. CASE GuardBlocks \/ HumanDenies \/ ActionRaises \/ ValidatorRejects
  <2>1. Fail
    BY <1>3 DEF GuardBlocks, HumanDenies, ActionRaises, ValidatorRejects
  <2>2. Current \in Barrable
    <3>1. HasActionLeft
      BY <1>3 DEF GuardBlocks, HumanDenies, ActionRaises, ValidatorRejects, Ready, Performing,
         OnceInv, TypeOK
    <3>2. Current \in Actions /\ world \in World
      BY <3>1, CurrentType DEF OnceInv, TypeOK
    <3>3. CASE GuardBlocks \/ HumanDenies \/ ActionRaises
      BY <3>3 DEF GuardBlocks, HumanDenies, ActionRaises, Barrable, OnceInv
    <3>4. CASE ValidatorRejects
      BY <3>2, <3>4 DEF ValidatorRejects, Barrable
    <3> QED
      BY <1>3, <3>3, <3>4
  <2> QED
    BY <1>1, <2>1, <2>2 DEF Fail, OnceInv
<1>4. CASE ActionSucceeds
  <2>1. HasActionLeft
    BY <1>4 DEF ActionSucceeds, Performing, Ready, OnceInv, TypeOK
  <2>2. /\ step' = step + 1 /\ succeeded' = succeeded \cup {Current} /\ pc' = "observer"
        /\ UNCHANGED <<status, lastFailed>>
    BY <1>4 DEF ActionSucceeds
  <2>3. plan # NoPlan /\ plan \in Plan /\ Unspent(plan, step, succeeded)
    BY <1>1, <2>1 DEF HasActionLeft, OnceInv, TypeOK
  <2>4. step + 1 \in 1 .. Len(plan.actions) /\ Current = plan.actions[step + 1]
    BY <1>1, <2>1, <2>3 DEF HasActionLeft, Current, Plan
  <2>5. Current \in SingleUse => Current \notin succeeded
    BY <1>1, <2>3, <2>4 DEF Unspent
  <2>6. Unspent(plan, step + 1, succeeded \cup {Current})
    <3>1. ASSUME NEW i \in 1 .. Len(plan.actions), i > step + 1, plan.actions[i] \in SingleUse
          PROVE  plan.actions[i] \notin succeeded \cup {Current}
      BY <1>1, <2>3, <2>4, <3>1 DEF Unspent
    <3> QED
      BY <2>3, <3>1 DEF Unspent
  <2> QED
    BY <1>1, <2>2, <2>5, <2>6 DEF OnceInv
<1> QED
  BY <1>1, <1>2, <1>3, <1>4
  DEF Executor, SkipExecution, NothingToExecute, AskHuman, GuardBlocks, HumanDenies,
      ActionRaises, ValidatorRejects, Fail

LEMMA OnceObserver ==
  ASSUME OnceInv, TypeOK', Observer
  PROVE  OnceInv'
<1>1. /\ UNCHANGED <<goal, succeeded, lastFailed>> /\ pc = "observer"
      /\ pc' \in {"planner", "executor", "end"}
  BY DEF Observer, PolicyTerminates, GoalMissing, SubgoalAchieved, GoalAchieved,
     GiveUpReplanning, NoPlanFound, AbandonAfterFailure, ReplanAfterFailure,
     ReplanEveryAction, ReplanOnDeviation, ContinuePlan, PlanExhausted, AbandonExhausted,
     Finish, GoTo, OnPlan, Advancing, Undecided, Pursuing, Observing
<1>2. pc' = "executor" => UNCHANGED <<plan, step>>
  BY DEF Observer, PolicyTerminates, GoalMissing, SubgoalAchieved, GoalAchieved,
     GiveUpReplanning, NoPlanFound, AbandonAfterFailure, ReplanAfterFailure,
     ReplanEveryAction, ReplanOnDeviation, ContinuePlan, PlanExhausted, AbandonExhausted,
     Finish, GoTo
<1>3. status' = status \/ status' # "action_failed"
  BY DEF Observer, PolicyTerminates, GoalMissing, SubgoalAchieved, GoalAchieved,
     GiveUpReplanning, NoPlanFound, AbandonAfterFailure, ReplanAfterFailure,
     ReplanEveryAction, ReplanOnDeviation, ContinuePlan, PlanExhausted, AbandonExhausted,
     Finish, GoTo
<1>4. blacklist' \subseteq Barrable
  BY DEF Observer, PolicyTerminates, GoalMissing, SubgoalAchieved, GoalAchieved,
     GiveUpReplanning, NoPlanFound, AbandonAfterFailure, ReplanAfterFailure,
     ReplanEveryAction, ReplanOnDeviation, ContinuePlan, PlanExhausted, AbandonExhausted,
     Finish, GoTo, OnceInv
<1> QED
  BY <1>1, <1>2, <1>3, <1>4 DEF OnceInv

\* On a thread, too, an action declared can_rerun=False is not run again once it has
\* succeeded, where no goal depends on actions that may be barred: the planner goes
\* around what succeeded in any earlier run, and a plan uses such an action once.
THEOREM SingleUseOnce ==
  ASSUME WaysAround
  PROVE  ThreadSpec => SingleUseRunsOnce
<1>1. Init => OnceInv
  <2> SUFFICES ASSUME Init PROVE OnceInv
    OBVIOUS
  <2>1. /\ pc = "planner" /\ goal \in InitialGoals /\ blacklist = {} /\ status = ""
    BY DEF Init
  <2> QED
    BY <2>1, TypeInit DEF OnceInv, GoalsInUse
<1>2. OnceInv /\ [ThreadNext]_vars =>
        /\ OnceInv'
        /\ [step' = step + 1 => Current \notin SingleUse \cap succeeded]_vars
  <2> SUFFICES ASSUME OnceInv, [ThreadNext]_vars
               PROVE  /\ OnceInv'
                      /\ step' = step + 1 => Current \notin SingleUse \cap succeeded
    OBVIOUS
  <2>1. TypeOK' /\ step \in Nat
    BY TypeThreadStep DEF OnceInv, TypeOK
  <2>2. CASE Invoke
    <3>1. /\ pc' = "planner" /\ step' = step /\ goal' \in GoalsInUse
          /\ UNCHANGED <<blacklist, status, lastFailed>>
      BY <2>2 DEF Invoke, GoalsInUse
    <3> QED
      BY <2>1, <3>1 DEF OnceInv
  <2>3. CASE Planner \/ Handlers
    <3>1. step' \in {0, step}
      BY <2>3 DEF Planner, Handlers, PlanWithoutGoal, PlanRaises, PlanRound, HandlersGiveUp,
         HandlerRaisesIndex, HandlerReplans, AskAgain, Return, Raise
    <3> QED
      BY <2>1, <2>3, <3>1, OncePlanner
  <2>4. CASE Executor
    BY <2>1, <2>4, OnceExecutor
  <2>5. CASE Observer
    <3>1. step' \in {0, step}
      BY <2>5 DEF Observer, PolicyTerminates, GoalMissing, SubgoalAchieved, GoalAchieved,
         GiveUpReplanning, NoPlanFound, AbandonAfterFailure, ReplanAfterFailure,
         ReplanEveryAction, ReplanOnDeviation, ContinuePlan, PlanExhausted, AbandonExhausted,
         Finish, GoTo
    <3> QED
      BY <2>1, <2>5, <3>1, OnceObserver
  <2>6. CASE UNCHANGED vars
    <3>1. /\ UNCHANGED <<pc, goal, plan, step, status, blacklist, lastFailed, succeeded, draft>>
          /\ Current' = Current
      BY <2>6 DEF vars, Current
    <3> QED
      BY <2>1, <3>1 DEF OnceInv
  <2> QED
    BY <2>2, <2>3, <2>4, <2>5, <2>6 DEF ThreadNext, Next, Finished
<1> QED
  BY <1>1, <1>2, PTL DEF ThreadSpec, SingleUseRunsOnce
-----------------------------------------------------------------------------
(* The goal pursued. An index left by an earlier run may be past the sub-goals *)
(* of the next goal; no plan is made for it then.                              *)

ServeInv ==
  /\ TypeOK
  /\ Serving
  /\ pc = "stuck" => draft.goal = goal /\ goal.mode # "none"

LEMMA ReturnServes ==
  ASSUME TypeOK', NEW r, NEW w, Return(r, w, goal),
         Reaches(r.plan, ActiveOf(goal, r.subgoal).conditions)
  PROVE  ServeInv'
BY DEF Return, MoveIndex, ServeInv, Serving, Reaches, ActiveOf, Satisfies

LEMMA PlannerServes ==
  ASSUME StuckGoals = {}, ServeInv, TypeOK', Planner \/ Handlers
  PROVE  ServeInv'
<1>1. CASE PlanWithoutGoal
  BY <1>1 DEF PlanWithoutGoal, ServeInv, Serving, Reaches
<1>2. CASE PlanRaises \/ HandlerRaisesIndex
  BY <1>2 DEF PlanRaises, HandlerRaisesIndex, Raise, ServeInv, Serving
<1>3. CASE PlanRound
  <2>1. PICK reading \in SensorReadings :
          \E r \in CoreOutcomes(View(Apply(world, reading)), goal) :
            \/ pc' = "stuck" /\ draft'.goal = goal /\ goal' = goal
            \/ Return(r, Apply(world, reading), goal)
    BY <1>3 DEF PlanRound
  <2>2. goal \in Goals /\ goal.mode # "none"
    BY <1>3 DEF PlanRound, ServeInv, TypeOK
  <2>3. PICK r \in CoreOutcomes(View(Apply(world, reading)), goal) :
            \/ pc' = "stuck" /\ draft'.goal = goal /\ goal' = goal
            \/ Return(r, Apply(world, reading), goal)
    BY <2>1
  <2>4. Reaches(r.plan, ActiveOf(goal, r.subgoal).conditions)
    BY <2>2, OutcomeReaches
  <2>5. CASE Return(r, Apply(world, reading), goal)
    BY <2>4, <2>5, ReturnServes
  <2>6. CASE pc' = "stuck" /\ draft'.goal = goal /\ goal' = goal
    BY <2>2, <2>6 DEF ServeInv, Serving
  <2> QED
    BY <2>3, <2>5, <2>6
<1>4. CASE HandlersGiveUp
  <2> DEFINE r == [plan |-> NoPlan, subgoal |-> draft.subgoal]
  <2>1. Return(r, draft.sensed, goal)
    BY <1>4 DEF HandlersGiveUp
  <2>2. Reaches(r.plan, ActiveOf(goal, r.subgoal).conditions)
    BY DEF Reaches
  <2> HIDE DEF r
  <2> QED
    BY <2>1, <2>2, ReturnServes
<1>5. CASE HandlerReplans
  <2>1. goal \in Goals /\ goal.mode # "none" /\ draft.goal = goal
    BY <1>5 DEF HandlerReplans, ServeInv, TypeOK
  <2>2. PICK update \in StuckUpdates :
          \E r \in CoreOutcomes(Apply(draft.world, update), goal) :
            \/ Return(r, Apply(draft.world, update), goal)
            \/ Return(r, draft.sensed, goal)
            \/ AskAgain(r, Apply(draft.world, update), goal)
    BY <1>5, <2>1 DEF HandlerReplans
  <2>3. PICK r \in CoreOutcomes(Apply(draft.world, update), goal) :
            \/ Return(r, Apply(draft.world, update), goal)
            \/ Return(r, draft.sensed, goal)
            \/ AskAgain(r, Apply(draft.world, update), goal)
    BY <2>2
  <2>4. Reaches(r.plan, ActiveOf(goal, r.subgoal).conditions)
    BY <2>1, OutcomeReaches
  <2>5. CASE AskAgain(r, Apply(draft.world, update), goal)
    <3>1. /\ pc = "stuck" /\ pc' = pc /\ goal' = goal
          /\ draft' = [draft EXCEPT !.world = Apply(draft.world, update), !.goal = goal,
                                    !.subgoal = r.subgoal, !.tries = draft.tries + 1]
      BY <1>5, <2>5 DEF HandlerReplans, AskAgain
    <3>2. draft'.goal = goal
      BY <3>1 DEF ServeInv, TypeOK
    <3> QED
      BY <2>1, <3>1, <3>2 DEF ServeInv, Serving
  <2> QED
    BY <2>3, <2>4, <2>5, ReturnServes
<1> QED
  BY <1>1, <1>2, <1>3, <1>4, <1>5 DEF Planner, Handlers

LEMMA ServesOn ==
  ASSUME ServeInv, TypeOK', UNCHANGED <<goal, subgoal, plan>>,
         pc \in {"executor", "waiting", "observer"} \/ pc' = pc, pc' = "stuck" => pc = "stuck",
         pc' = "stuck" => draft' = draft
  PROVE  ServeInv'
BY DEF ServeInv, Serving, Reaches, ActiveOf, Satisfies

LEMMA ExecutorServes ==
  ASSUME ServeInv, TypeOK', Executor
  PROVE  ServeInv'
<1>1. /\ UNCHANGED <<goal, subgoal, plan>>
      /\ pc \in {"executor", "waiting"} /\ pc' \in {"waiting", "observer"}
  BY DEF Executor, SkipExecution, NothingToExecute, AskHuman, GuardBlocks, HumanDenies,
     ActionRaises, ValidatorRejects, ActionSucceeds, Fail, Ready, Performing
<1> QED
  BY <1>1, ServesOn

LEMMA ObserverServes ==
  ASSUME ServeInv, TypeOK', Observer
  PROVE  ServeInv'
<1>1. CASE SubgoalAchieved
  BY <1>1 DEF SubgoalAchieved, ServeInv, Serving
<1>2. CASE ~SubgoalAchieved
  <2>1. /\ UNCHANGED <<goal, subgoal, plan>>
        /\ pc = "observer" /\ pc' \in {"end", "planner", "executor"}
    BY <1>2 DEF Observer, PolicyTerminates, GoalMissing, GoalAchieved, GiveUpReplanning,
       NoPlanFound, AbandonAfterFailure, ReplanAfterFailure, ReplanEveryAction,
       ReplanOnDeviation, ContinuePlan, PlanExhausted, AbandonExhausted, OnPlan, Advancing,
       Undecided, Pursuing, Observing, Finish, GoTo
  <2> QED
    BY <2>1, ServesOn
<1> QED
  BY <1>1, <1>2

\* On a thread, the plan executed is a plan of the sub-goal the observer tests, whatever
\* goal, index and plan earlier invocations left; unless a handler has replaced the goal.
THEOREM ThreadPlanServes ==
  ASSUME StuckGoals = {}
  PROVE  ThreadSpec => []PlanServesActiveGoal
<1>1. Init => ServeInv
  BY TypeInit DEF Init, ServeInv, Serving
<1>2. ServeInv /\ [ThreadNext]_vars => ServeInv'
  <2> SUFFICES ASSUME ServeInv, [ThreadNext]_vars PROVE ServeInv'
    OBVIOUS
  <2>1. TypeOK'
    BY TypeThreadStep DEF ServeInv
  <2>2. CASE Invoke
    BY <2>1, <2>2 DEF Invoke, ServeInv, Serving
  <2>3. CASE UNCHANGED vars
    BY <2>1, <2>3, ServesOn DEF vars
  <2>4. CASE Finished
    BY <2>1, <2>4, ServesOn DEF Finished, vars
  <2> QED
    BY <2>1, <2>2, <2>3, <2>4, PlannerServes, ExecutorServes, ObserverServes
       DEF ThreadNext, Next
<1>3. ServeInv => PlanServesActiveGoal
  <2> SUFFICES ASSUME ServeInv, pc \in {"executor", "waiting"}, HasActionLeft
               PROVE  Satisfies(plan.expected[Len(plan.expected)], Active.conditions)
    BY DEF PlanServesActiveGoal
  <2>1. Active = ActiveOf(goal, subgoal)
    BY DEF Active, ActiveOf
  <2>2. plan # NoPlan /\ Len(plan.actions) > 0
    BY DEF HasActionLeft, ServeInv, TypeOK, Plan
  <2> QED
    BY <2>1, <2>2 DEF ServeInv, Serving, Reaches
<1> QED
  BY <1>1, <1>2, <1>3, PTL DEF ThreadSpec
=============================================================================
