---------------------------- MODULE GoapGoalProofs ----------------------------
(***************************************************************************)
(* What the loop promises about the goal it pursues, for every domain and  *)
(* every configuration whose stuck handlers do not bring a goal of their   *)
(* own: the plan serves the active goal, the outcome is truthful, and the  *)
(* loop implements AgentRun. That retries are counted holds with any.      *)
(***************************************************************************)
EXTENDS GoapLoopProofs, GoapAudit
-----------------------------------------------------------------------------
(* What an outcome of the planner says about the goal. *)

InRange(g, i) == g.mode \in {"sequential", "any"} => i <= Len(g.goals)

\* The sub-goal of an outcome is one of the goal's, not before the current one,
\* and its plan is a plan for that sub-goal.
Lands(r, g) ==
  /\ r.subgoal \in Nat \ {0} /\ InRange(g, r.subgoal)
  /\ g.mode = "sequential" => r.subgoal >= subgoal
  /\ Reaches(r.plan, ActiveOf(g, r.subgoal).conditions)

LEMMA OutcomeLands ==
  ASSUME NEW w, NEW g \in Goals, g.mode # "none", subgoal \in Nat \ {0},
         InRange(g, subgoal), NEW r \in CoreOutcomes(w, g)
  PROVE  Lands(r, g)
<1>1. Reaches(r.plan, ActiveOf(g, r.subgoal).conditions)
  BY OutcomeReaches
<1>2. /\ g.mode \in {"single", "sequential", "any"}
      /\ Len(g.goals) \in Nat \ {0}
      /\ DOMAIN g.goals = 1 .. Len(g.goals)
  BY DEF Goals, Modes
<1>3. CASE g.mode = "single"
  <2>1. r.subgoal = subgoal
    BY <1>3 DEF CoreOutcomes, SingleOutcomes
  <2> QED
    BY <1>1, <1>3, <2>1 DEF Lands, InRange
<1>4. CASE g.mode = "sequential"
  <2>1. r.subgoal \in subgoal .. Len(g.goals) \cup {Len(g.goals)}
    BY <1>4 DEF CoreOutcomes, SequentialOutcomes
  <2>2. subgoal <= Len(g.goals)
    BY <1>4 DEF InRange
  <2> QED
    BY <1>1, <1>2, <1>4, <2>1, <2>2 DEF Lands, InRange
<1>5. CASE g.mode = "any"
  <2>1. r.subgoal \in DOMAIN g.goals \cup {subgoal}
    BY <1>5 DEF CoreOutcomes, AnyOutcomes
  <2> QED
    BY <1>1, <1>2, <1>5, <2>1 DEF Lands, InRange
<1> QED
  BY <1>2, <1>3, <1>4, <1>5
-----------------------------------------------------------------------------
(* The inductive invariant. *)

\* A count beyond an action's retries is on the blacklist, or is that of the
\* failure the observer is about to route.
Counted ==
  pc \notin {"end", "raised"} =>
    \A a \in Actions :
      failures[a] > MaxRetries[a] =>
        a \in blacklist \/ (pc = "observer" /\ status = "action_failed" /\ a = lastFailed)

\* A plan is only replaced while the active goal has replans left.
Affordable ==
  pc \in {"planner", "stuck"} /\ plan # NoPlan /\ goal.mode # "none" => ~OutOfReplans

\* While handlers are asked about it, the goal is still that of the run.
Drafted ==
  pc = "stuck" =>
    /\ draft.goal = goal /\ goal.mode # "none"
    /\ InRange(goal, draft.subgoal)
    /\ goal.mode = "sequential" => draft.subgoal >= subgoal

GoalInv ==
  /\ TypeOK
  /\ InRange(goal, subgoal)
  /\ Serving
  /\ Counted
  /\ Affordable
  /\ Drafted
  /\ AchievedMeansSatisfied

LEMMA ActiveIs == Active = ActiveOf(goal, subgoal)
BY DEF Active, ActiveOf

LEMMA NotPast ==
  ASSUME TypeOK, InRange(goal, subgoal)
  PROVE  ~PastLastSubgoal
<1>1. goal.mode \in {"sequential", "any"} => subgoal <= Len(goal.goals)
  BY DEF InRange
<1>2. subgoal \in Nat /\ (goal.mode \in {"sequential", "any"} => Len(goal.goals) \in Nat)
  BY DEF TypeOK, Goals
<1> QED
  BY <1>1, <1>2 DEF PastLastSubgoal

\* No step loses an exhausted action, whatever goal it is about: the counts are written
\* by executor and observer, and cleared by the planner and at a new sub-goal.
LEMMA CountedStep ==
  ASSUME TypeOK, Counted, Next
  PROVE  Counted'
<1>1. ASSUME pc \in {"planner", "stuck"}, pc' \in {"stuck", "executor", "raised"},
             UNCHANGED <<blacklist, failures>> \/ failures' = NoFailures
      PROVE  Counted'
  <2>1. \A a \in Actions : failures[a] > MaxRetries[a] => a \in blacklist
    BY <1>1 DEF Counted
  <2>2. CASE UNCHANGED <<blacklist, failures>>
    BY <2>1, <2>2 DEF Counted
  <2>3. CASE failures' = NoFailures
    BY <2>3, LoopAssumption DEF Counted, NoFailures
  <2> QED
    BY <1>1, <2>2, <2>3
<1>2. CASE Planner \/ Handlers
  <2>1. pc \in {"planner", "stuck"} /\ pc' \in {"stuck", "executor", "raised"}
    BY <1>2 DEF Planner, Handlers, PlanWithoutGoal, PlanRaises, PlanRound, HandlersGiveUp,
       HandlerRaisesIndex, HandlerReplans, AskAgain, Return, Raise
  <2>2. UNCHANGED <<blacklist, failures>> \/ failures' = NoFailures
    BY <1>2 DEF Planner, Handlers, PlanWithoutGoal, PlanRaises, PlanRound, HandlersGiveUp,
       HandlerRaisesIndex, HandlerReplans, AskAgain, Return, ForgetIfReused, Raise
  <2> QED
    BY <1>1, <2>1, <2>2
<1>3. CASE Executor
  <2>1. \A a \in Actions : failures[a] > MaxRetries[a] => a \in blacklist
    BY <1>3 DEF Counted, Executor, SkipExecution, NothingToExecute, AskHuman, GuardBlocks,
       HumanDenies, ActionRaises, ValidatorRejects, ActionSucceeds, Ready, Performing
  <2>2. CASE failures' = failures
    <3>1. blacklist' = blacklist
      BY <1>3 DEF Executor, SkipExecution, NothingToExecute, AskHuman, GuardBlocks,
         HumanDenies, ActionRaises, ValidatorRejects, ActionSucceeds, Fail
    <3> QED
      BY <2>1, <2>2, <3>1 DEF Counted
  <2>3. CASE failures' # failures
    <3>1. PinFailures /\ pc' = "observer" /\ status' = "action_failed"
          /\ lastFailed' = Current
      BY <1>3, <2>3 DEF Executor, SkipExecution, NothingToExecute, AskHuman, GuardBlocks,
         HumanDenies, ActionRaises, ValidatorRejects, ActionSucceeds, Fail
    <3>2. \A a \in Actions : failures'[a] > MaxRetries[a] => a = Current
      BY <3>1, LoopAssumption DEF PinFailures
    <3> QED
      BY <3>1, <3>2 DEF Counted
  <2> QED
    BY <2>2, <2>3
<1>4. CASE SubgoalAchieved
  BY <1>4, LoopAssumption DEF SubgoalAchieved, Counted, NoFailures
<1>5. CASE ReplanAfterFailure
  <2>1. /\ pc = "observer" /\ pc' = "planner" /\ status = "action_failed"
        /\ failures' = [failures EXCEPT ![lastFailed] = @ + 1]
        /\ blacklist' = IF Exhausted(lastFailed, failures'[lastFailed])
                          THEN blacklist \cup {lastFailed} ELSE blacklist
    BY <1>5 DEF ReplanAfterFailure, Undecided, Pursuing, Observing
  <2>2. lastFailed \in Actions /\ failures \in [Actions -> Nat]
    BY <2>1 DEF TypeOK
  <2>3. ASSUME NEW a \in Actions, failures'[a] > MaxRetries[a], a # lastFailed
        PROVE  a \in blacklist'
    <3>1. failures'[a] = failures[a]
      BY <2>1, <2>2, <2>3
    <3>2. a \in blacklist
      BY <2>1, <2>3, <3>1 DEF Counted
    <3> QED
      BY <2>1, <3>2
  <2>4. failures'[lastFailed] > MaxRetries[lastFailed] => lastFailed \in blacklist'
    BY <2>1, <2>2 DEF Exhausted
  <2> QED
    BY <2>3, <2>4 DEF Counted
<1>6. ASSUME NEW node, GoTo(node), pc = "observer", status # "action_failed"
      PROVE  Counted'
  BY <1>6 DEF GoTo, Counted
<1>7. CASE ReplanEveryAction \/ ReplanOnDeviation \/ ContinuePlan \/ PlanExhausted
  BY <1>6, <1>7 DEF ReplanEveryAction, ReplanOnDeviation, ContinuePlan, PlanExhausted,
     OnPlan, Advancing, Undecided, Pursuing, Observing
<1>8. CASE PolicyTerminates \/ GoalMissing \/ GoalAchieved \/ GiveUpReplanning
           \/ NoPlanFound \/ AbandonAfterFailure \/ AbandonExhausted
  BY <1>8 DEF PolicyTerminates, GoalMissing, GoalAchieved, GiveUpReplanning, NoPlanFound,
     AbandonAfterFailure, AbandonExhausted, Finish, Counted
<1>9. CASE Finished
  BY <1>9 DEF Finished, vars, Counted
<1> QED
  BY <1>2, <1>3, <1>4, <1>5, <1>7, <1>8, <1>9 DEF Next, Observer

\* What the planner returns keeps the invariant, wherever it was decided.
LEMMA ReturnKeepsGoal ==
  ASSUME GoalInv, TypeOK', pc \in {"planner", "stuck"}, NEW w, NEW r, Lands(r, goal),
         Return(r, w, goal)
  PROVE  GoalInv'
<1>1. /\ pc' = "executor" /\ goal' = goal /\ subgoal' = r.subgoal /\ plan' = r.plan
      /\ lastFailed' = lastFailed
  BY DEF Return, MoveIndex
<1>2. InRange(goal, subgoal)'
  BY <1>1 DEF Lands, InRange
<1>3. Serving'
  BY <1>1 DEF Lands, Serving, Reaches, ActiveOf
<1>4. Counted'
  <2>1. \A a \in Actions : failures[a] > MaxRetries[a] => a \in blacklist
    BY DEF GoalInv, Counted
  <2>2. CASE UNCHANGED <<blacklist, failures>>
    BY <2>1, <2>2 DEF Counted
  <2>3. CASE failures' = NoFailures
    BY <2>3, LoopAssumption DEF Counted, NoFailures
  <2> QED
    BY <2>2, <2>3 DEF Return, ForgetIfReused
<1>5. Affordable' /\ Drafted' /\ AchievedMeansSatisfied'
  BY <1>1 DEF Affordable, Drafted, AchievedMeansSatisfied
<1> QED
  BY <1>2, <1>3, <1>4, <1>5 DEF GoalInv

LEMMA GoalAfterPlanner ==
  ASSUME StuckGoals = {}, GoalInv, TypeOK', Planner \/ Handlers
  PROVE  GoalInv'
<1>1. CASE PlanWithoutGoal
  <2>1. /\ pc' = "executor" /\ plan' = NoPlan /\ pc = "planner"
        /\ UNCHANGED <<goal, subgoal, blacklist, failures, lastFailed>>
    BY <1>1 DEF PlanWithoutGoal
  <2> QED
    BY <2>1 DEF GoalInv, InRange, Serving, Reaches, Counted, Affordable, Drafted,
       AchievedMeansSatisfied
<1>2. CASE PlanRaises \/ HandlerRaisesIndex
  BY <1>2 DEF PlanRaises, HandlerRaisesIndex, Raise, GoalInv, InRange, Serving, Counted,
     Affordable, Drafted, AchievedMeansSatisfied
<1>3. CASE PlanRound
  <2>1. PICK reading \in SensorReadings :
          \E r \in CoreOutcomes(View(Apply(world, reading)), goal) :
            \/ /\ pc' = "stuck"
               /\ draft' = [sensed |-> Apply(world, reading),
                            world |-> View(Apply(world, reading)), goal |-> goal,
                            subgoal |-> r.subgoal, tries |-> 0]
               /\ UNCHANGED <<world, goal, subgoal, plan, step, status, replanCount,
                              blacklist, failures, explained, lastFailed, succeeded>>
            \/ Return(r, Apply(world, reading), goal)
    BY <1>3 DEF PlanRound
  <2> DEFINE sensed == Apply(world, reading)
             view == View(sensed)
  <2> HIDE DEF sensed, view
  <2>2. PICK r \in CoreOutcomes(view, goal) :
          \/ /\ pc' = "stuck"
             /\ draft' = [sensed |-> sensed, world |-> view, goal |-> goal,
                          subgoal |-> r.subgoal, tries |-> 0]
             /\ UNCHANGED <<world, goal, subgoal, plan, step, status, replanCount,
                            blacklist, failures, explained, lastFailed, succeeded>>
          \/ Return(r, sensed, goal)
    BY <2>1 DEF sensed, view
  <2>3. goal \in Goals /\ goal.mode # "none" /\ subgoal \in Nat \ {0} /\ pc = "planner"
    BY <1>3 DEF PlanRound, GoalInv, TypeOK
  <2>4. Lands(r, goal)
    BY <2>3, OutcomeLands DEF GoalInv
  <2>5. CASE Return(r, sensed, goal)
    BY <2>3, <2>4, <2>5, ReturnKeepsGoal
  <2>6. CASE ~Return(r, sensed, goal)
    <3>1. /\ pc' = "stuck" /\ draft'.goal = goal /\ draft'.subgoal = r.subgoal
          /\ UNCHANGED <<world, goal, subgoal, plan, step, status, replanCount,
                         blacklist, failures, explained, lastFailed, succeeded>>
      BY <2>2, <2>6
    <3>2. Drafted'
      BY <2>3, <2>4, <3>1 DEF Drafted, Lands, InRange
    <3>3. OutOfReplans' = OutOfReplans
      BY <3>1 DEF OutOfReplans, Active
    <3> QED
      BY <2>3, <3>1, <3>2, <3>3 DEF GoalInv, InRange, Serving, Counted, Affordable,
         AchievedMeansSatisfied
  <2> QED
    BY <2>5, <2>6
<1>4. CASE HandlersGiveUp
  <2> DEFINE r == [plan |-> NoPlan, subgoal |-> draft.subgoal]
  <2>1. pc = "stuck" /\ Return(r, draft.sensed, goal)
    BY <1>4 DEF HandlersGiveUp
  <2>2. Lands(r, goal)
    BY <2>1 DEF Lands, Reaches, GoalInv, Drafted, TypeOK
  <2> QED
    BY <2>1, <2>2, ReturnKeepsGoal
<1>5. CASE HandlerReplans
  <2>1. PICK update \in StuckUpdates :
          \E r \in CoreOutcomes(Apply(draft.world, update), goal) :
            \/ Return(r, Apply(draft.world, update), goal)
            \/ Return(r, draft.sensed, goal)
            \/ AskAgain(r, Apply(draft.world, update), goal)
    BY <1>5 DEF HandlerReplans, GoalInv, Drafted
  <2> DEFINE patched == Apply(draft.world, update)
  <2> HIDE DEF patched
  <2>2. PICK r \in CoreOutcomes(patched, goal) :
          \/ Return(r, patched, goal)
          \/ Return(r, draft.sensed, goal)
          \/ AskAgain(r, patched, goal)
    BY <2>1 DEF patched
  <2>3. pc = "stuck" /\ goal \in Goals /\ goal.mode # "none" /\ subgoal \in Nat \ {0}
    BY <1>5 DEF HandlerReplans, GoalInv, Drafted, TypeOK
  <2>4. Lands(r, goal)
    BY <2>3, OutcomeLands DEF GoalInv
  <2>5. CASE AskAgain(r, patched, goal)
    <3>1. UNCHANGED <<pc, world, goal, subgoal, plan, step, status, replanCount,
                      blacklist, failures, explained, lastFailed, succeeded>>
      BY <2>5 DEF AskAgain
    <3>2. draft'.goal = goal /\ draft'.subgoal = r.subgoal
      BY <2>5 DEF AskAgain, GoalInv, TypeOK
    <3>3. Drafted'
      BY <2>3, <2>4, <3>1, <3>2 DEF Drafted, Lands, InRange
    <3>4. OutOfReplans' = OutOfReplans
      BY <3>1 DEF OutOfReplans, Active
    <3> QED
      BY <2>3, <3>1, <3>3, <3>4 DEF GoalInv, InRange, Serving, Counted, Affordable,
         AchievedMeansSatisfied
  <2> QED
    BY <2>2, <2>3, <2>4, <2>5, ReturnKeepsGoal
<1> QED
  BY <1>1, <1>2, <1>3, <1>4, <1>5 DEF Planner, Handlers

\* What the observer tests depends on four channels.
LEMMA ChannelsKept ==
  ASSUME UNCHANGED <<world, goal, subgoal, replanCount>>
  PROVE  /\ Active' = Active /\ OutOfReplans' = OutOfReplans
         /\ InRange(goal, subgoal)' = InRange(goal, subgoal)
         /\ ActiveHolds' = ActiveHolds /\ PastLastSubgoal' = PastLastSubgoal
BY DEF Active, OutOfReplans, InRange, ActiveHolds, PastLastSubgoal, Satisfies

LEMMA GoalAfterExecutor ==
  ASSUME GoalInv, TypeOK', Executor
  PROVE  GoalInv'
<1>1. /\ UNCHANGED <<goal, subgoal, plan, blacklist, replanCount, draft>>
      /\ pc \in {"executor", "waiting"} /\ pc' \in {"waiting", "observer"}
  BY DEF Executor, SkipExecution, NothingToExecute, AskHuman, GuardBlocks, HumanDenies,
     ActionRaises, ValidatorRejects, ActionSucceeds, Fail, Ready, Performing
<1>2. InRange(goal, subgoal)' /\ Serving'
  BY <1>1 DEF GoalInv, InRange, Serving, Reaches, ActiveOf, Satisfies
<1>3. Counted'
  BY CountedStep DEF GoalInv, Next
<1>4. Affordable' /\ Drafted' /\ AchievedMeansSatisfied'
  BY <1>1 DEF Affordable, Drafted, AchievedMeansSatisfied
<1> QED
  BY <1>2, <1>3, <1>4 DEF GoalInv

LEMMA GoalAfterObserver ==
  ASSUME GoalInv, TypeOK', Observer
  PROVE  GoalInv'
<1>1. pc = "observer"
  BY DEF Observer, PolicyTerminates, GoalMissing, SubgoalAchieved, GoalAchieved,
     GiveUpReplanning, NoPlanFound, AbandonAfterFailure, ReplanAfterFailure,
     ReplanEveryAction, ReplanOnDeviation, ContinuePlan, PlanExhausted,
     AbandonExhausted, OnPlan, Advancing, Undecided, Pursuing, Observing
<1>2. ~PastLastSubgoal
  BY NotPast DEF GoalInv
<1>3. ASSUME NEW outcome, Finish(outcome), outcome = "goal_achieved" => ActiveHolds
      PROVE  GoalInv'
  <2>1. AchievedMeansSatisfied'
    BY <1>2, <1>3, ChannelsKept DEF Finish, AchievedMeansSatisfied
  <2> QED
    BY <1>3, <2>1 DEF Finish, GoalInv, InRange, Serving, Counted, Affordable, Drafted
<1>4. CASE GoalAchieved
  BY <1>2, <1>3, <1>4 DEF GoalAchieved
<1>5. CASE PolicyTerminates \/ GoalMissing \/ GiveUpReplanning \/ NoPlanFound
           \/ AbandonAfterFailure \/ AbandonExhausted
  BY <1>3, <1>5 DEF PolicyTerminates, GoalMissing, GiveUpReplanning, NoPlanFound,
     AbandonAfterFailure, AbandonExhausted
<1>6. CASE SubgoalAchieved
  <2>1. /\ pc' = "planner" /\ plan' = NoPlan /\ goal' = goal /\ subgoal' = subgoal + 1
        /\ failures' = NoFailures /\ goal.mode = "sequential"
        /\ subgoal < Len(goal.goals)
    BY <1>6 DEF SubgoalAchieved, MoreSubgoals
  <2>2. InRange(goal, subgoal)'
    <3>1. subgoal \in Nat /\ Len(goal.goals) \in Nat
      BY <2>1 DEF GoalInv, TypeOK, Goals
    <3> QED
      BY <2>1, <3>1 DEF InRange
  <2>3. Counted'
    BY <2>1, LoopAssumption DEF Counted, NoFailures
  <2> QED
    BY <2>1, <2>2, <2>3 DEF GoalInv, Serving, Affordable, Drafted, AchievedMeansSatisfied
<1>7. CASE ReplanAfterFailure
  <2>1. /\ pc' = "planner" /\ status = "action_failed" /\ ~OutOfReplans
        /\ UNCHANGED <<goal, subgoal, plan, replanCount>>
        /\ failures' = [failures EXCEPT ![lastFailed] = @ + 1]
        /\ blacklist' = IF Exhausted(lastFailed, failures'[lastFailed])
                          THEN blacklist \cup {lastFailed} ELSE blacklist
    BY <1>7 DEF ReplanAfterFailure, Undecided
  <2>2. lastFailed \in Actions /\ failures \in [Actions -> Nat]
    BY <2>1 DEF GoalInv, TypeOK
  <2>3. Counted'
    BY CountedStep DEF GoalInv, Next
  <2>4. OutOfReplans' = OutOfReplans
    BY <2>1 DEF OutOfReplans, Active
  <2> QED
    BY <2>1, <2>3, <2>4 DEF GoalInv, InRange, Serving, Affordable, Drafted,
       AchievedMeansSatisfied
<1>8. ASSUME NEW node \in {"planner", "executor"}, GoTo(node), ~OutOfReplans,
             status # "action_failed"
      PROVE  GoalInv'
  <2>1. /\ pc' = node
        /\ UNCHANGED <<world, goal, subgoal, plan, step, status, replanCount, failures,
                       blacklist, lastFailed, draft>>
    BY <1>8 DEF GoTo
  <2>2. InRange(goal, subgoal)' /\ Affordable'
    BY <1>8, <2>1, ChannelsKept DEF GoalInv, Affordable
  <2>3. Serving' /\ Counted'
    BY <1>1, <1>8, <2>1 DEF GoalInv, Serving, Reaches, ActiveOf, Satisfies, Counted
  <2>4. Drafted' /\ AchievedMeansSatisfied'
    BY <2>1 DEF Drafted, AchievedMeansSatisfied
  <2> QED
    BY <2>2, <2>3, <2>4 DEF GoalInv
<1>9. CASE ReplanEveryAction \/ ReplanOnDeviation \/ ContinuePlan \/ PlanExhausted
  BY <1>8, <1>9 DEF ReplanEveryAction, ReplanOnDeviation, ContinuePlan, PlanExhausted,
     OnPlan, Advancing, Undecided
<1> QED
  BY <1>4, <1>5, <1>6, <1>7, <1>9 DEF Observer

LEMMA GoalInit == Init => GoalInv
<1> SUFFICES ASSUME Init PROVE GoalInv
  OBVIOUS
<1>1. /\ pc = "planner" /\ subgoal = 1 /\ plan = NoPlan /\ goal \in Goals
      /\ failures = NoFailures
  BY LoopAssumption DEF Init
<1>2. goal.mode \in {"sequential", "any"} => Len(goal.goals) \in Nat \ {0}
  BY <1>1 DEF Goals
<1>3. InRange(goal, subgoal)
  BY <1>1, <1>2 DEF InRange
<1>4. Counted
  BY <1>1, LoopAssumption DEF Counted, NoFailures
<1> QED
  BY <1>1, <1>3, <1>4, TypeInit DEF GoalInv, Serving, Affordable, Drafted,
     AchievedMeansSatisfied

LEMMA GoalStutter ==
  ASSUME GoalInv, UNCHANGED vars
  PROVE  GoalInv'
<1>1. TypeOK'
  BY TypeStutter DEF GoalInv
<1> QED
  BY <1>1, ChannelsKept DEF vars, GoalInv, Serving, Reaches, ActiveOf, Satisfies,
     Counted, Affordable, Drafted, AchievedMeansSatisfied

LEMMA GoalStep ==
  ASSUME StuckGoals = {}, GoalInv, [Next]_vars
  PROVE  GoalInv'
<1>1. TypeOK'
  BY TypePlanner, TypeExecutor, TypeObserver, TypeStutter DEF Next, Finished, GoalInv
<1> QED
  BY <1>1, GoalAfterPlanner, GoalAfterExecutor, GoalAfterObserver, GoalStutter
  DEF Next, Finished
-----------------------------------------------------------------------------
(* What follows from it. *)

\* When the planner runs, an action that failed more often than its retries allow is
\* on the blacklist: no order of failures, denials, blocks, sub-goal changes and
\* fallback plans loses one.
THEOREM RetriesExhausted == Spec => []ExhaustedAreBlacklisted
<1> DEFINE IInv == TypeOK /\ Counted
<1>1. Init => IInv
  <2> SUFFICES ASSUME Init PROVE Counted
    BY TypeInit
  <2>1. failures = NoFailures
    BY LoopAssumption DEF Init
  <2> QED
    BY <2>1, LoopAssumption DEF Counted, NoFailures
<1>2. IInv /\ [Next]_vars => IInv'
  <2>1. TypeOK /\ [Next]_vars => TypeOK'
    BY TypePlanner, TypeExecutor, TypeObserver, TypeStutter DEF Next, Finished
  <2>2. Counted /\ UNCHANGED vars => Counted'
    BY DEF vars, Counted
  <2> QED
    BY <2>1, <2>2, CountedStep
<1>3. IInv => ExhaustedAreBlacklisted
  BY DEF Counted, ExhaustedAreBlacklisted
<1> QED
  BY <1>1, <1>2, <1>3, PTL DEF Spec

\* The plan being executed ends, by the planner's prediction, in the conditions of the
\* sub-goal that the observer will test.
THEOREM PlanServes ==
  ASSUME StuckGoals = {}
  PROVE  Spec => []PlanServesActiveGoal
<1>1. GoalInv => PlanServesActiveGoal
  <2> SUFFICES ASSUME GoalInv, pc \in {"executor", "waiting"}, HasActionLeft
               PROVE  Satisfies(plan.expected[Len(plan.expected)], Active.conditions)
    BY DEF PlanServesActiveGoal
  <2>1. plan \in Plan /\ step \in Nat /\ step < Len(plan.actions)
    BY DEF GoalInv, TypeOK, HasActionLeft
  <2>2. Len(plan.actions) \in Nat
    BY <2>1 DEF Plan
  <2>3. plan # NoPlan /\ Len(plan.actions) > 0
    BY <2>1, <2>2 DEF HasActionLeft
  <2> QED
    BY <2>3, ActiveIs DEF GoalInv, Serving, Reaches
<1> QED
  BY <1>1, GoalInit, GoalStep, PTL DEF Spec

\* A run that reports goal_achieved ends in a world the active goal holds in, with an
\* index that is still within the goal.
THEOREM AchievedIsTrue ==
  ASSUME StuckGoals = {}
  PROVE  Spec => []AchievedMeansSatisfied
<1>1. GoalInv => AchievedMeansSatisfied
  BY DEF GoalInv
<1> QED
  BY <1>1, GoalInit, GoalStep, PTL DEF Spec
-----------------------------------------------------------------------------
(* The steps of a run, seen from outside. *)

\* Every step ends the run, moves it on to the next sub-goal, or keeps the goal and
\* counts a round or not; and the goal index never moves back.
LEMMA PlannerStep ==
  ASSUME StuckGoals = {}, GoalInv, Planner \/ Handlers
  PROVE  \/ /\ pc \in {"planner", "stuck"} /\ pc' \in {"stuck", "executor"}
            /\ goal.mode = "sequential" => subgoal' >= subgoal
            /\ replanCount' \in {replanCount, replanCount + 1}
            /\ replanCount' # replanCount => ~OutOfReplans /\ goal.mode # "none"
         \/ Raise /\ pc \in {"planner", "stuck"}
<1>1. subgoal \in Nat /\ replanCount \in Nat
  BY DEF GoalInv, TypeOK
<1>2. ASSUME pc \in {"planner", "stuck"}, goal.mode # "none",
             NEW r, Lands(r, goal), NEW w, Return(r, w, goal)
      PROVE  /\ pc' = "executor"
             /\ goal.mode = "sequential" => subgoal' >= subgoal
             /\ replanCount' \in {replanCount, replanCount + 1}
             /\ replanCount' # replanCount => ~OutOfReplans
  <2>1. pc' = "executor" /\ subgoal' = r.subgoal /\ CountRound(r)
    BY <1>2 DEF Return, MoveIndex
  <2>2. plan # NoPlan => ~OutOfReplans
    BY <1>2 DEF GoalInv, Affordable
  <2> QED
    BY <1>2, <2>1, <2>2 DEF CountRound, Lands
<1>3. CASE PlanWithoutGoal
  BY <1>1, <1>3 DEF PlanWithoutGoal
<1>4. CASE PlanRaises \/ HandlerRaisesIndex
  BY <1>4 DEF PlanRaises, HandlerRaisesIndex
<1>5. CASE PlanRound
  <2>1. pc = "planner" /\ goal \in Goals /\ goal.mode # "none" /\ subgoal \in Nat \ {0}
    BY <1>5 DEF PlanRound, GoalInv, TypeOK
  <2>2. \/ pc' = "stuck" /\ UNCHANGED <<subgoal, replanCount>>
        \/ \E w, v : \E r \in CoreOutcomes(v, goal) : Return(r, w, goal)
    BY <1>5 DEF PlanRound
  <2>3. ASSUME NEW w, NEW v, NEW r \in CoreOutcomes(v, goal), Return(r, w, goal)
        PROVE  Lands(r, goal)
    BY <2>1, <2>3, OutcomeLands DEF GoalInv
  <2> QED
    BY <1>1, <1>2, <2>1, <2>2, <2>3
<1>6. CASE HandlersGiveUp
  <2> DEFINE r == [plan |-> NoPlan, subgoal |-> draft.subgoal]
  <2>1. pc = "stuck" /\ Return(r, draft.sensed, goal)
    BY <1>6 DEF HandlersGiveUp
  <2>2. Lands(r, goal) /\ goal.mode # "none"
    BY <2>1 DEF Lands, Reaches, GoalInv, Drafted, TypeOK
  <2> QED
    BY <1>2, <2>1, <2>2
<1>7. CASE HandlerReplans
  <2>1. pc = "stuck" /\ goal \in Goals /\ goal.mode # "none" /\ subgoal \in Nat \ {0}
    BY <1>7 DEF HandlerReplans, GoalInv, Drafted, TypeOK
  <2>2. \/ pc' = pc /\ UNCHANGED <<subgoal, replanCount>>
        \/ \E w, v : \E r \in CoreOutcomes(v, goal) : Return(r, w, goal)
    BY <1>7 DEF HandlerReplans, AskAgain, GoalInv, Drafted
  <2>3. ASSUME NEW w, NEW v, NEW r \in CoreOutcomes(v, goal), Return(r, w, goal)
        PROVE  Lands(r, goal)
    BY <2>1, <2>3, OutcomeLands DEF GoalInv
  <2> QED
    BY <1>1, <1>2, <2>1, <2>2, <2>3
<1> QED
  BY <1>3, <1>4, <1>5, <1>6, <1>7 DEF Planner, Handlers

LEMMA ExecutorStep ==
  ASSUME Executor
  PROVE  /\ pc \in {"executor", "waiting"} /\ pc' \in {"waiting", "observer"}
         /\ UNCHANGED <<goal, subgoal, replanCount>>
BY DEF Executor, SkipExecution, NothingToExecute, AskHuman, GuardBlocks, HumanDenies,
   ActionRaises, ValidatorRejects, ActionSucceeds, Fail, Ready, Performing

\* How the observer ends a run.
Ends(outcome) ==
  /\ outcome \in Run!Endings
  /\ outcome = "goal_achieved" => HasActive /\ ActiveHolds
  /\ outcome \in {"failed", "no_plan"} => ~ActiveHolds

LEMMA ObserverStep ==
  ASSUME GoalInv, Observer
  PROVE  /\ pc = "observer"
         /\ \/ \E outcome : Finish(outcome) /\ Ends(outcome)
            \/ /\ HasActive /\ ActiveHolds /\ goal.mode = "sequential"
               /\ pc' = "planner" /\ replanCount' = 0 /\ subgoal' = subgoal + 1
            \/ pc' \in {"planner", "executor"} /\ UNCHANGED <<goal, subgoal, replanCount>>
<1>1. pc = "observer"
  BY DEF Observer, PolicyTerminates, GoalMissing, SubgoalAchieved, GoalAchieved,
     GiveUpReplanning, NoPlanFound, AbandonAfterFailure, ReplanAfterFailure,
     ReplanEveryAction, ReplanOnDeviation, ContinuePlan, PlanExhausted,
     AbandonExhausted, OnPlan, Advancing, Undecided, Pursuing, Observing
<1>2. ~PastLastSubgoal
  BY NotPast DEF GoalInv
<1>3. CASE SubgoalAchieved
  BY <1>1, <1>2, <1>3 DEF SubgoalAchieved, MoreSubgoals, HasActive
<1>4. CASE GoalAchieved
  BY <1>1, <1>2, <1>4 DEF GoalAchieved, Observing, HasActive, Ends, Run!Endings
<1>5. CASE PolicyTerminates \/ GoalMissing
  BY <1>1, <1>5 DEF PolicyTerminates, GoalMissing, Ends, Run!Endings
<1>6. CASE GiveUpReplanning \/ NoPlanFound \/ AbandonAfterFailure \/ AbandonExhausted
  BY <1>1, <1>6 DEF GiveUpReplanning, NoPlanFound, AbandonAfterFailure, AbandonExhausted,
     OnPlan, Advancing, Undecided, Pursuing, Ends, Run!Endings
<1>7. CASE ReplanAfterFailure \/ ReplanEveryAction \/ ReplanOnDeviation \/ ContinuePlan
           \/ PlanExhausted
  BY <1>1, <1>7 DEF ReplanAfterFailure, ReplanEveryAction, ReplanOnDeviation, ContinuePlan,
     PlanExhausted, GoTo
<1> QED
  BY <1>3, <1>4, <1>5, <1>6, <1>7 DEF Observer

\* A sub-goal left behind, skipped by the planner or achieved by the observer, is never
\* taken up again in the same goal.
THEOREM IndexMovesForward ==
  ASSUME StuckGoals = {}
  PROVE  Spec => SubgoalsMoveForward
<1>1. ASSUME GoalInv, Next, goal.mode = "sequential"
      PROVE  subgoal' >= subgoal
  <2>1. subgoal \in Nat
    BY <1>1 DEF GoalInv, TypeOK
  <2>2. CASE Planner \/ Handlers
    BY <1>1, <2>1, <2>2, PlannerStep DEF Raise
  <2>3. CASE Executor
    BY <2>1, <2>3, ExecutorStep
  <2>4. CASE Observer
    BY <1>1, <2>1, <2>4, ObserverStep DEF Finish
  <2>5. CASE Finished
    BY <2>1, <2>5 DEF Finished, vars
  <2> QED
    BY <1>1, <2>2, <2>3, <2>4, <2>5 DEF Next
<1>2. GoalInv /\ [Next]_vars =>
        [goal.mode = "sequential" /\ goal' = goal => subgoal' >= subgoal]_vars
  BY <1>1
<1> QED
  BY <1>2, GoalInit, GoalStep, PTL DEF Spec, SubgoalsMoveForward
-----------------------------------------------------------------------------
(* The refinement. *)

Outcome == CASE pc = "end" -> status [] pc = "raised" -> "raised" [] OTHER -> "running"
Held == HasActive /\ ActiveHolds
Budget == IF HasActive THEN Active.max_replans ELSE 0

LEMMA BudgetType == TypeOK => Budget \in Nat
<1> SUFFICES ASSUME TypeOK PROVE Budget \in Nat
  OBVIOUS
<1>1. CASE HasActive
  <2>1. /\ goal.mode \in {"single", "sequential", "any"}
        /\ goal.goals \in Seq(GoalSpec) /\ Len(goal.goals) > 0
        /\ subgoal \in Nat \ {0}
    BY <1>1 DEF HasActive, TypeOK, Goals, Modes
  <2>2. Active \in GoalSpec
    BY <1>1, <2>1 DEF HasActive, Active, PastLastSubgoal
  <2> QED
    BY <1>1, <2>2 DEF Budget, GoalSpec
<1> QED
  BY <1>1 DEF Budget

LEMMA HeldType == Held \in BOOLEAN
BY DEF Held, HasActive, ActiveHolds, Satisfies

LEMMA OutcomeRunning ==
  ASSUME pc \notin {"end", "raised"}
  PROVE  Outcome = "running"
BY DEF Outcome

LEMMA SameHeld ==
  ASSUME UNCHANGED <<world, goal, subgoal, replanCount>>
  PROVE  Held' = Held /\ Budget' = Budget
BY ChannelsKept DEF Held, Budget, HasActive

LEMMA ContractSteps ==
  /\ Outcome = "running" /\ Outcome' = "running" /\ Held' \in BOOLEAN /\ Budget' \in Nat
     => /\ replanCount' = replanCount => Run!Next
        /\ replanCount' = replanCount + 1 /\ (Budget = 0 \/ replanCount < Budget) => Run!Next
        /\ replanCount' = 0 /\ Held => Run!Next
  /\ /\ Outcome = "running" /\ Outcome' \in Run!Endings
     /\ Outcome' = "goal_achieved" => Held
     /\ Outcome' \in {"failed", "no_plan"} => ~Held
     /\ UNCHANGED <<Held, replanCount, Budget>>
     => Run!Next
BY DEF Outcome, Held, Budget, Run!Next, Run!Work, Run!Replan, Run!NextGoal, Run!Finish,
   Run!Running, Run!Anywhere

\* Every step of the loop is one of the contract's or leaves its variables alone.
LEMMA RunStep ==
  ASSUME StuckGoals = {}, GoalInv, TypeOK', [Next]_vars
  PROVE  Run!Next \/ UNCHANGED <<Outcome, Held, replanCount, Budget>>
<1>1. Held' \in BOOLEAN
  BY DEF Held, HasActive, ActiveHolds, Satisfies
<1>2. Budget' \in Nat
  <2>1. (TypeOK => Budget \in Nat)'
    BY BudgetType, PTL
  <2> QED
    BY <2>1
<1>3. CASE Planner \/ Handlers
  <2>1. pc \in {"planner", "stuck"} /\ Outcome = "running"
    BY <1>3, PlannerStep, OutcomeRunning
  <2>2. CASE Raise
    <3>1. pc' = "raised" /\ UNCHANGED <<world, goal, subgoal, replanCount>>
      BY <2>2 DEF Raise
    <3>2. Outcome' = "raised"
      BY <3>1 DEF Outcome
    <3> QED
      BY <2>1, <3>1, <3>2, SameHeld, ContractSteps DEF Run!Endings
  <2>3. CASE ~Raise
    <3>1. /\ pc' \in {"stuck", "executor"}
          /\ replanCount' \in {replanCount, replanCount + 1}
          /\ replanCount' # replanCount => ~OutOfReplans /\ goal.mode # "none"
      BY <1>3, <2>3, PlannerStep
    <3>2. Outcome' = "running"
      BY <3>1 DEF Outcome
    <3>3. CASE replanCount' = replanCount
      BY <1>1, <1>2, <2>1, <3>2, <3>3, ContractSteps
    <3>4. CASE replanCount' # replanCount
      <4>1. HasActive
        BY <3>1, <3>4, NotPast DEF GoalInv, HasActive
      <4>2. Budget = Active.max_replans /\ Budget \in Nat /\ replanCount \in Nat
        BY <4>1, BudgetType DEF Budget, GoalInv, TypeOK
      <4>3. Budget = 0 \/ replanCount < Budget
        BY <3>1, <3>4, <4>2 DEF OutOfReplans
      <4> QED
        BY <1>1, <1>2, <2>1, <3>1, <3>2, <3>4, <4>3, ContractSteps
    <3> QED
      BY <3>3, <3>4
  <2> QED
    BY <2>2, <2>3
<1>4. CASE Executor
  <2>1. pc \in {"executor", "waiting"} /\ pc' \in {"waiting", "observer"}
        /\ replanCount' = replanCount
    BY <1>4, ExecutorStep
  <2>2. Outcome = "running" /\ Outcome' = "running"
    BY <2>1 DEF Outcome
  <2> QED
    BY <1>1, <1>2, <2>1, <2>2, ContractSteps
<1>5. CASE Observer
  <2>1. Outcome = "running" /\ pc = "observer"
    BY <1>5, ObserverStep, OutcomeRunning
  <2>2. ASSUME NEW outcome, Finish(outcome), Ends(outcome)
        PROVE  Run!Next
    <3>1. pc' = "end" /\ status' = outcome /\ UNCHANGED <<world, goal, subgoal, replanCount>>
      BY <2>2 DEF Finish
    <3>2. Outcome' = outcome
      BY <3>1 DEF Outcome
    <3>3. /\ outcome = "goal_achieved" => Held
          /\ outcome \in {"failed", "no_plan"} => ~Held
      BY <2>2 DEF Ends, Held
    <3> QED
      BY <2>1, <2>2, <3>1, <3>2, <3>3, SameHeld, ContractSteps DEF Ends
  <2>3. CASE HasActive /\ ActiveHolds /\ pc' = "planner" /\ replanCount' = 0
    <3>1. Held /\ Outcome' = "running"
      BY <2>3 DEF Held, Outcome
    <3> QED
      BY <1>1, <1>2, <2>1, <2>3, <3>1, ContractSteps
  <2>4. CASE pc' \in {"planner", "executor"} /\ replanCount' = replanCount
    <3>1. Outcome' = "running"
      BY <2>4 DEF Outcome
    <3> QED
      BY <1>1, <1>2, <2>1, <2>4, <3>1, ContractSteps
  <2> QED
    BY <1>5, <2>2, <2>3, <2>4, ObserverStep
<1>6. CASE UNCHANGED vars
  <2>1. UNCHANGED <<world, goal, subgoal, replanCount, pc, status>>
    BY <1>6 DEF vars
  <2> QED
    BY <2>1, SameHeld DEF Outcome
<1> QED
  BY <1>3, <1>4, <1>5, <1>6 DEF Next, Finished

\* The graph implements its contract: from invoke to the outcome, at most max_replans
\* replans per goal, none forgotten before the goal holds, and a truthful last word.
THEOREM LoopImplementsAgentRun ==
  ASSUME StuckGoals = {}
  PROVE  Spec => ImplementsAgentRun
<1>1. Init => Run!Init
  <2> SUFFICES ASSUME Init PROVE Run!Init
    OBVIOUS
  <2>1. Outcome = "running" /\ replanCount = 0
    BY DEF Init, Outcome
  <2>2. Held \in BOOLEAN /\ Budget \in Nat
    BY TypeInit, HeldType, BudgetType
  <2> QED
    BY <2>1, <2>2 DEF Run!Init, Outcome, Held, Budget
<1>2. GoalInv /\ GoalInv' /\ [Next]_vars => [Run!Next]_Run!vars
  <2> SUFFICES ASSUME GoalInv, GoalInv', [Next]_vars PROVE [Run!Next]_Run!vars
    OBVIOUS
  <2>1. TypeOK'
    BY DEF GoalInv
  <2>2. Run!Next \/ UNCHANGED <<Outcome, Held, replanCount, Budget>>
    BY <2>1, RunStep
  <2>3. CASE UNCHANGED <<Outcome, Held, replanCount, Budget>>
    BY <2>3 DEF Run!vars, Outcome, Held, Budget
  <2> QED
    BY <2>2, <2>3
<1> QED
  BY <1>1, <1>2, GoalInit, GoalStep, PTL DEF Spec, ImplementsAgentRun, Run!Spec
-----------------------------------------------------------------------------
(* What a run that found no plan can be believed about. *)

\* From the planner's no_plan on, its explanation is there.
ExplainedInv == status = "no_plan" /\ goal.mode # "any" => explained

LEMMA ExplainedStep ==
  ASSUME StuckGoals = {}, GoalInv, ExplainedInv, [Next]_vars
  PROVE  ExplainedInv'
<1>1. ASSUME NEW r, NEW w, Return(r, w, goal), Explain(r, goal)
      PROVE  ExplainedInv'
  BY <1>1 DEF Return, Explain, ExplainedInv
<1>2. CASE PlanWithoutGoal
  BY <1>2 DEF PlanWithoutGoal, ExplainedInv
<1>3. CASE PlanRaises \/ HandlerRaisesIndex
  BY <1>3 DEF PlanRaises, HandlerRaisesIndex, Raise, ExplainedInv
<1>4. CASE PlanRound
  <2>1. \/ UNCHANGED <<status, goal, explained>>
        \/ \E r, w : Return(r, w, goal) /\ Explain(r, goal)
    BY <1>4 DEF PlanRound
  <2> QED
    BY <1>1, <2>1 DEF ExplainedInv
<1>5. CASE HandlersGiveUp \/ HandlerReplans
  <2>1. draft.goal = goal
    BY <1>5 DEF HandlersGiveUp, HandlerReplans, GoalInv, Drafted
  <2>2. \/ UNCHANGED <<status, goal, explained>>
        \/ \E r, w : Return(r, w, goal) /\ Explain(r, goal)
    BY <1>5, <2>1 DEF HandlersGiveUp, HandlerReplans, AskAgain
  <2> QED
    BY <1>1, <2>2 DEF ExplainedInv
<1>6. CASE Executor
  <2>1. UNCHANGED <<goal, explained>> /\ status' \in {status, "error", "action_failed"}
    BY <1>6 DEF Executor, SkipExecution, NothingToExecute, AskHuman, GuardBlocks,
       HumanDenies, ActionRaises, ValidatorRejects, ActionSucceeds, Fail
  <2> QED
    BY <2>1 DEF ExplainedInv
<1>7. CASE Observer
  <2>1. UNCHANGED <<goal, explained>>
        /\ (status' = "no_plan" => status = "no_plan")
    BY <1>7 DEF Observer, PolicyTerminates, GoalMissing, SubgoalAchieved, GoalAchieved,
       GiveUpReplanning, NoPlanFound, AbandonAfterFailure, ReplanAfterFailure,
       ReplanEveryAction, ReplanOnDeviation, ContinuePlan, PlanExhausted,
       AbandonExhausted, Finish, GoTo
  <2> QED
    BY <2>1 DEF ExplainedInv
<1>8. CASE UNCHANGED vars
  BY <1>8 DEF vars, ExplainedInv
<1> QED
  BY <1>2, <1>3, <1>4, <1>5, <1>6, <1>7, <1>8 DEF Next, Planner, Handlers, Finished

\* A run that ends on no_plan carries its explanation, whatever handlers were asked
\* and however many rounds had found a plan before.
THEOREM NoPlanExplained ==
  ASSUME StuckGoals = {}
  PROVE  Spec => []NoPlanIsExplained
<1>1. Init => ExplainedInv
  BY DEF Init, ExplainedInv
<1>2. GoalInv /\ ExplainedInv /\ [Next]_vars => ExplainedInv'
  BY ExplainedStep
<1>3. ExplainedInv => NoPlanIsExplained
  BY DEF ExplainedInv, NoPlanIsExplained
<1> QED
  BY <1>1, <1>2, <1>3, GoalInit, GoalStep, PTL DEF Spec

\* No plan from world w is within the search's reach for the i-th conditions.
Hopeless(w, i) ==
  \A p \in PlansOver(View(w), goal.goals[i].conditions, Actions) :
    ~InReach(View(w), Actions, p)

\* Between the planner's no_plan and the end of the run the world stands still: every
\* goal in question is hopeless, or holds.
HonestInv ==
  /\ pc # "stuck"
  /\ status = "no_plan" /\ pc \in {"executor", "waiting", "observer", "end"} =>
       /\ plan = NoPlan /\ goal.mode # "none"
       /\ \A i \in IF goal.mode = "sequential" THEN {subgoal} ELSE DOMAIN goal.goals :
            Hopeless(world, i) \/ (goal.mode = "sequential" /\ ActiveHolds)
       /\ pc = "end" => ~ActiveHolds

LEMMA HopelessSearch ==
  ASSUME NEW start, NEW conditions, NEW barred,
         NoPlan \in Search(start, conditions, barred)
  PROVE  \A p \in PlansOver(start, conditions, Actions) : ~InReach(start, Actions, p)
<1>1. NoPlan # EmptyPlan
  BY NoPlanAssumption, EmptyPlanType
<1>2. NoPlan \in SearchOutcomes(start, conditions, Actions)
  BY <1>1 DEF Search
<1>3. \A p \in PlansOver(start, conditions, Actions) : p # NoPlan
  BY NoPlanAssumption DEF PlansOver, IsPlan
<1> QED
  BY <1>2, <1>3 DEF SearchOutcomes

LEMMA ViewIsWorld ==
  ASSUME Resolved = Nothing, NEW w \in World
  PROVE  View(w) = w
BY DEF View, Nothing, World

\* The goals a planner's no_plan is about.
InQuestion(i) == i \in IF goal.mode = "sequential" THEN {subgoal} ELSE DOMAIN goal.goals

LEMMA HonestAfterPlanner ==
  ASSUME MaxStuck = 0, Resolved = Nothing, GoalInv, TypeOK', HonestInv, Planner
  PROVE  HonestInv'
<1>1. CASE PlanWithoutGoal
  BY <1>1 DEF PlanWithoutGoal, HonestInv
<1>2. CASE PlanRaises
  BY <1>2 DEF PlanRaises, Raise, HonestInv
<1>3. CASE PlanRound
  <2>1. PICK reading \in SensorReadings :
          \E r \in CoreOutcomes(View(Apply(world, reading)), goal) :
            Return(r, Apply(world, reading), goal)
    BY <1>3 DEF PlanRound
  <2> DEFINE sensed == Apply(world, reading)
  <2>2. sensed \in World
    BY ApplyType, LoopAssumption DEF GoalInv, TypeOK
  <2> HIDE DEF sensed
  <2>3. PICK r \in CoreOutcomes(View(sensed), goal) : Return(r, sensed, goal)
    BY <2>1 DEF sensed
  <2>4. /\ pc' = "executor" /\ world' = sensed /\ goal' = goal /\ plan' = r.plan
        /\ subgoal' = r.subgoal /\ goal.mode # "none"
        /\ status' = IF r.plan = NoPlan THEN "no_plan" ELSE "executing"
    BY <1>3, <2>3 DEF PlanRound, Return, MoveIndex
  <2>5. /\ goal \in Goals /\ subgoal \in Nat \ {0} /\ InRange(goal, subgoal)
        /\ View(sensed) = sensed
    BY <2>2, ViewIsWorld DEF GoalInv, TypeOK
  <2>6. /\ goal.mode \in {"single", "sequential", "any"}
        /\ goal.goals \in Seq(GoalSpec)
        /\ Len(goal.goals) \in Nat \ {0}
        /\ DOMAIN goal.goals = 1 .. Len(goal.goals)
        /\ goal.mode = "single" => Len(goal.goals) = 1
    BY <2>4, <2>5 DEF Goals, Modes
  <2>7. ASSUME NEW i, NoPlan \in SubgoalSearch(View(sensed), goal, i)
        PROVE  Hopeless(sensed, i)
    BY <2>7, HopelessSearch DEF SubgoalSearch, Hopeless
  <2>8. ASSUME r.plan = NoPlan, NEW i, InQuestion(i)'
        PROVE  Hopeless(sensed, i) \/ (goal.mode = "sequential" /\ ActiveHolds')
    <3>1. CASE goal.mode = "single"
      <4>1. i = 1
        <5>1. i \in DOMAIN goal.goals
          BY <2>4, <2>8, <3>1 DEF InQuestion
        <5>2. Len(goal.goals) = 1
          BY <2>6, <3>1
        <5>3. DOMAIN goal.goals = 1 .. 1
          BY <2>6, <5>2
        <5> QED
          BY <5>1, <5>3
      <4> QED
        BY <2>3, <2>7, <2>8, <3>1, <4>1 DEF CoreOutcomes, SingleOutcomes
    <3>2. CASE goal.mode = "any"
      <4>1. \A j \in DOMAIN goal.goals : NoPlan \in SubgoalSearch(View(sensed), goal, j)
        BY <2>3, <2>8, <3>2 DEF CoreOutcomes, AnyOutcomes
      <4> QED
        BY <2>4, <2>7, <2>8, <3>2, <4>1 DEF InQuestion
    <3>3. CASE goal.mode = "sequential"
      <4>1. /\ r.subgoal = Len(goal.goals)
            /\ \A j \in subgoal .. Len(goal.goals) + 1 - 1 :
                 \/ Satisfies(View(sensed), goal.goals[j].conditions)
                 \/ NoPlan \in SubgoalSearch(View(sensed), goal, j)
        BY <2>3, <2>8, <3>3 DEF CoreOutcomes, SequentialOutcomes
      <4>2. i = Len(goal.goals) /\ i \in subgoal .. Len(goal.goals) + 1 - 1
        BY <2>4, <2>5, <2>6, <2>8, <3>3, <4>1 DEF InQuestion, InRange
      <4>3. Active' = goal.goals[i]
        BY <2>4, <3>3, <4>1, <4>2 DEF Active
      <4>4. Satisfies(sensed, goal.goals[i].conditions) => ActiveHolds'
        BY <2>4, <4>3 DEF ActiveHolds, Satisfies
      <4> QED
        BY <2>5, <2>7, <3>3, <4>1, <4>2, <4>4
    <3> QED
      BY <2>6, <3>1, <3>2, <3>3
  <2> QED
    BY <2>4, <2>8 DEF HonestInv, InQuestion, Hopeless
<1> QED
  BY <1>1, <1>2, <1>3 DEF Planner

LEMMA HonestStep ==
  ASSUME MaxStuck = 0, Resolved = Nothing, GoalInv, TypeOK', HonestInv, [Next]_vars
  PROVE  HonestInv'
<1>1. ASSUME UNCHANGED <<world, goal, subgoal, plan>>, status' = status,
             pc \in {"executor", "waiting", "observer", "end"},
             pc' # "stuck", pc' = "end" => pc = "end" \/ ~ActiveHolds
      PROVE  HonestInv'
  BY <1>1 DEF HonestInv, Hopeless, ActiveHolds, Active, Satisfies
<1>2. CASE Executor
  <2>1. CASE status = "no_plan"
    <3>1. ~HasActionLeft /\ NothingToDo /\ pc \in {"executor", "waiting"}
      BY <1>2, <2>1, ExecutorStep DEF HonestInv, HasActionLeft, NothingToDo
    <3>2. pc # "waiting"
      BY <3>1 DEF GoalInv, TypeOK
    <3>3. SkipExecution
      BY <1>2, <3>1, <3>2 DEF Executor, NothingToExecute, AskHuman, GuardBlocks,
         HumanDenies, ActionRaises, ValidatorRejects, ActionSucceeds, Performing, Ready
    <3> QED
      BY <1>1, <3>3 DEF SkipExecution
  <2>2. CASE status # "no_plan"
    <3>1. status' \in {status, "error", "action_failed"} /\ pc' \in {"waiting", "observer"}
      BY <1>2 DEF Executor, SkipExecution, NothingToExecute, AskHuman, GuardBlocks,
         HumanDenies, ActionRaises, ValidatorRejects, ActionSucceeds, Fail
    <3> QED
      BY <2>2, <3>1 DEF HonestInv
  <2> QED
    BY <2>1, <2>2
<1>3. CASE Observer
  <2>1. pc = "observer"
    BY <1>3, ObserverStep
  <2>2. CASE NoPlanFound
    BY <1>1, <2>1, <2>2 DEF NoPlanFound, Undecided, Pursuing, Finish
  <2>3. CASE pc' = "planner"
    BY <2>3 DEF HonestInv
  <2>4. CASE status' # "no_plan" /\ pc' # "stuck"
    BY <2>4 DEF HonestInv
  <2>5. \/ NoPlanFound \/ pc' = "planner" \/ (status' # "no_plan" /\ pc' # "stuck")
    BY <1>3 DEF Observer, PolicyTerminates, GoalMissing, SubgoalAchieved, GoalAchieved,
       GiveUpReplanning, AbandonAfterFailure, ReplanAfterFailure, ReplanEveryAction,
       ReplanOnDeviation, ContinuePlan, PlanExhausted, AbandonExhausted, OnPlan, Advancing,
       Finish, GoTo
  <2> QED
    BY <2>2, <2>3, <2>4, <2>5
<1>4. CASE UNCHANGED vars
  <2>1. UNCHANGED <<pc, world, goal, subgoal, plan, status>>
    BY <1>4 DEF vars
  <2> QED
    BY <2>1 DEF HonestInv, Hopeless, ActiveHolds, Active, Satisfies
<1>5. ~Handlers
  BY DEF Handlers, HandlersGiveUp, HandlerRaisesIndex, HandlerReplans, HonestInv
<1> QED
  BY <1>2, <1>3, <1>4, <1>5, HonestAfterPlanner DEF Next, Finished

\* Without stuck handlers and resolvers, a run that reports no_plan had none: neither
\* a blacklist nor the record of earlier successes hides a plan in the search's reach.
THEOREM NoPlanHonest ==
  ASSUME MaxStuck = 0, Resolved = Nothing, StuckGoals = {}
  PROVE  Spec => []NoPlanIsHonest
<1>1. Init => HonestInv
  BY DEF Init, HonestInv
<1>2. GoalInv /\ GoalInv' /\ HonestInv /\ [Next]_vars => HonestInv'
  BY HonestStep DEF GoalInv
<1>3. HonestInv => NoPlanIsHonest
  BY DEF HonestInv, NoPlanIsHonest, Hopeless
<1> QED
  BY <1>1, <1>2, <1>3, GoalInit, GoalStep, PTL DEF Spec
-----------------------------------------------------------------------------
(* The audit trail of GoapAudit: what each invariant assumes, and why.          *)

\* Sub-goals are only left behind when they hold; the last one is never left.
ReachedInv ==
  /\ goal \in InitialGoals /\ pc # "stuck"
  /\ Holding(world, goal) \subseteq reached
  /\ reached \subseteq DOMAIN goal.goals
  /\ goal.mode = "sequential" => 1 .. subgoal - 1 \subseteq reached
  /\ pc = "end" /\ status = "goal_achieved" => ~MoreSubgoals

\* The loop's count never runs ahead of the replans made for the current sub-goal,
\* as a sub-goal is only skipped by a round that is not a replan.
BudgetInv ==
  /\ goal \in InitialGoals /\ pc # "stuck"
  /\ goal.mode = "sequential" =>
       /\ ownReplans \in Nat /\ replanCount <= ownReplans
       /\ pc = "planner" /\ plan = NoPlan => replanCount = 0
       /\ pc = "planner" /\ plan # NoPlan => ~ActiveHolds
       /\ pc \in {"executor", "observer", "waiting"} /\ plan = NoPlan => status = "no_plan"
  /\ SubgoalOwnBudget

\* The counts are the real ones but for the failure the observer is about to count;
\* it will, as a world in which an action was begun has the goal still open.
RetriesInv ==
  /\ pc \notin {"stuck", "waiting"}
  /\ pc = "executor" => status # "action_failed"
  /\ pc = "executor" /\ ~NothingToDo /\ HasActionLeft => goal.mode # "none" /\ ~ActiveHolds
  /\ pc \in {"planner", "executor"} \/ (pc = "observer" /\ status # "action_failed")
       => realFailures = failures
  /\ pc = "observer" /\ status = "action_failed" =>
       /\ realFailures = [failures EXCEPT ![lastFailed] = @ + 1]
       /\ goal.mode # "none" /\ ~ActiveHolds
  /\ RetriesAreHonoured

\* A round of the planner, when nobody else has a say in it.
LEMMA LoneRound ==
  ASSUME MaxStuck = 0, Resolved = Nothing, GoalInv, PlanRound
  PROVE  \E reading \in SensorReadings : \E r \in CoreOutcomes(Apply(world, reading), goal) :
           /\ Apply(world, reading) \in World
           /\ Return(r, Apply(world, reading), goal)
<1>1. PICK reading \in SensorReadings :
        \E r \in CoreOutcomes(View(Apply(world, reading)), goal) :
          Return(r, Apply(world, reading), goal)
  BY DEF PlanRound
<1>2. Apply(world, reading) \in World
  BY ApplyType, LoopAssumption DEF GoalInv, TypeOK
<1> QED
  BY <1>1, <1>2, ViewIsWorld

\* A sequential round skips the sub-goals that hold, and only those.
LEMMA SkipsWhatHolds ==
  ASSUME Attainable, goal \in InitialGoals, goal.mode = "sequential", TypeOK,
         InRange(goal, subgoal),
         NEW w \in World, NEW r \in CoreOutcomes(w, goal)
  PROVE  /\ r.subgoal \in subgoal .. Len(goal.goals)
         /\ \A j \in subgoal .. r.subgoal - 1 : Satisfies(w, goal.goals[j].conditions)
<1>1. /\ Len(goal.goals) \in Nat /\ DOMAIN goal.goals = 1 .. Len(goal.goals)
      /\ subgoal <= Len(goal.goals) /\ subgoal \in Nat \ {0}
  BY DEF Goals, InRange, TypeOK
<1>2. ASSUME NEW j \in subgoal .. Len(goal.goals)
      PROVE  NoPlan \notin SubgoalSearch(w, goal, j)
  <2>1. Barred \in SUBSET Actions
    BY DomainAssumption DEF Barred, TypeOK
  <2>2. j \in DOMAIN goal.goals
    BY <1>1
  <2> QED
    BY <2>1, <2>2 DEF SubgoalSearch, Attainable
<1>3. \E i \in subgoal .. Len(goal.goals) :
        /\ r.subgoal = i
        /\ \A j \in subgoal .. i - 1 : \/ Satisfies(w, goal.goals[j].conditions)
                                       \/ NoPlan \in SubgoalSearch(w, goal, j)
  <2>1. CASE \E i \in subgoal .. Len(goal.goals) :
               /\ \A j \in subgoal .. i - 1 : \/ Satisfies(w, goal.goals[j].conditions)
                                              \/ NoPlan \in SubgoalSearch(w, goal, j)
               /\ r.subgoal = i
    BY <2>1
  <2>2. CASE /\ r.subgoal = Len(goal.goals)
             /\ \A j \in subgoal .. Len(goal.goals) + 1 - 1 :
                  \/ Satisfies(w, goal.goals[j].conditions)
                  \/ NoPlan \in SubgoalSearch(w, goal, j)
    BY <1>1, <2>2
  <2> QED
    BY <2>1, <2>2 DEF CoreOutcomes, SequentialOutcomes
<1> QED
  BY <1>1, <1>2, <1>3

LEMMA HoldingKept ==
  ASSUME UNCHANGED <<world, goal>>
  PROVE  Holding(world', goal') = Holding(world, goal)
BY DEF Holding

LEMMA ReachedPlanner ==
  ASSUME MaxStuck = 0, Resolved = Nothing, Attainable, GoalInv, ReachedInv, AuditStep, Planner
  PROVE  ReachedInv'
<1>1. goal' = goal /\ goal \in Goals /\ subgoal \in Nat \ {0} /\ pc = "planner"
  BY DEF Planner, PlanWithoutGoal, PlanRaises, PlanRound, Raise, Return, GoalInv, TypeOK
<1>2. pc' \notin {"end", "stuck"}
  BY DEF Planner, PlanWithoutGoal, PlanRaises, PlanRound, Raise, Return
<1>3. /\ reached' = reached \cup Holding(world', goal')
      /\ Holding(world', goal') \subseteq DOMAIN goal'.goals
  BY DEF AuditStep, Holding
<1>4. goal.mode = "sequential" => 1 .. subgoal' - 1 \subseteq reached'
  <2> SUFFICES ASSUME goal.mode = "sequential" PROVE 1 .. subgoal' - 1 \subseteq reached'
    OBVIOUS
  <2>1. 1 .. subgoal - 1 \subseteq reached'
    BY <1>3 DEF ReachedInv
  <2>2. CASE subgoal' = subgoal
    BY <2>1, <2>2
  <2>3. CASE PlanRound
    <3>1. PICK reading \in SensorReadings :
            \E r \in CoreOutcomes(Apply(world, reading), goal) :
              /\ Apply(world, reading) \in World
              /\ Return(r, Apply(world, reading), goal)
      BY <2>3, LoneRound
    <3> DEFINE w == Apply(world, reading)
    <3>2. PICK r \in CoreOutcomes(w, goal) : w \in World /\ Return(r, w, goal)
      BY <3>1
    <3> HIDE DEF w
    <3>3. subgoal' = r.subgoal /\ world' = w
      BY <3>2 DEF Return, MoveIndex
    <3>4. /\ r.subgoal \in subgoal .. Len(goal.goals)
          /\ \A j \in subgoal .. r.subgoal - 1 : Satisfies(w, goal.goals[j].conditions)
      BY <1>1, <3>2, SkipsWhatHolds DEF ReachedInv, GoalInv
    <3>5. Len(goal.goals) \in Nat /\ DOMAIN goal.goals = 1 .. Len(goal.goals)
      BY <1>1 DEF Goals
    <3>6. subgoal .. r.subgoal - 1 \subseteq Holding(world', goal')
      BY <1>1, <3>3, <3>4, <3>5 DEF Holding
    <3> QED
      BY <1>1, <1>3, <2>1, <3>3, <3>4, <3>6
  <2> QED
    BY <2>2, <2>3 DEF Planner, PlanWithoutGoal, PlanRaises, Raise
<1>5. DOMAIN goal'.goals = DOMAIN goal.goals
  BY <1>1
<1> QED
  BY <1>1, <1>2, <1>3, <1>4, <1>5 DEF ReachedInv

LEMMA ReachedStep ==
  ASSUME MaxStuck = 0, Resolved = Nothing, Attainable, GoalInv, ReachedInv, AuditStep,
         Next
  PROVE  ReachedInv'
<1>1. /\ reached' = reached \cup Holding(world', goal')
      /\ Holding(world', goal') \subseteq DOMAIN goal'.goals
  BY DEF AuditStep, Holding
<1>2. ASSUME UNCHANGED <<goal, subgoal>>, pc' # "stuck",
             pc' = "end" /\ status' = "goal_achieved" => ~MoreSubgoals
      PROVE  ReachedInv'
  <2>1. MoreSubgoals' = MoreSubgoals
    BY <1>2 DEF MoreSubgoals
  <2> QED
    BY <1>1, <1>2, <2>1 DEF ReachedInv
<1>3. CASE Executor
  BY <1>2, <1>3, ExecutorStep
<1>4. CASE SubgoalAchieved
  <2>1. /\ goal' = goal /\ world' = world /\ subgoal' = subgoal + 1 /\ pc' = "planner"
        /\ goal.mode = "sequential" /\ subgoal < Len(goal.goals) /\ ActiveHolds
    BY <1>4 DEF SubgoalAchieved, MoreSubgoals
  <2>2. /\ subgoal \in Nat \ {0} /\ Len(goal.goals) \in Nat
        /\ DOMAIN goal.goals = 1 .. Len(goal.goals)
    BY DEF GoalInv, TypeOK, Goals
  <2>3. subgoal \in Holding(world, goal)
    BY <2>1, <2>2 DEF Holding, ActiveHolds, Active
  <2>4. 1 .. subgoal' - 1 \subseteq reached'
    BY <1>1, <2>1, <2>2, <2>3 DEF ReachedInv
  <2> QED
    BY <1>1, <2>1, <2>4 DEF ReachedInv
<1>5. CASE GoalAchieved
  <2>1. UNCHANGED <<goal, subgoal>> /\ ~MoreSubgoals /\ pc' = "end"
    BY <1>5, NotPast DEF GoalAchieved, Finish, GoalInv
  <2> QED
    BY <1>2, <2>1
<1>6. CASE Observer /\ ~SubgoalAchieved /\ ~GoalAchieved
  <2>1. UNCHANGED <<goal, subgoal>> /\ pc' # "stuck" /\ ~(pc' = "end" /\ status' = "goal_achieved")
    BY <1>6 DEF Observer, PolicyTerminates, GoalMissing, GiveUpReplanning, NoPlanFound,
       AbandonAfterFailure, ReplanAfterFailure, ReplanEveryAction, ReplanOnDeviation,
       ContinuePlan, PlanExhausted, AbandonExhausted, Finish, GoTo
  <2> QED
    BY <1>2, <2>1
<1>7. CASE Finished
  BY <1>2, <1>7 DEF Finished, vars, ReachedInv
<1>8. ~Handlers
  BY DEF Handlers, HandlersGiveUp, HandlerRaisesIndex, HandlerReplans, ReachedInv
<1> QED
  BY <1>3, <1>4, <1>5, <1>6, <1>7, <1>8, ReachedPlanner DEF Next

LEMMA AuditKeepsGoalInv ==
  ASSUME StuckGoals = {}, GoalInv, [AuditNext]_auditVars
  PROVE  GoalInv'
BY GoalStep DEF AuditNext, auditVars

\* Wherever the search finds a way to every sub-goal, and without handlers and
\* resolvers, a sequential run that reports success has had every sub-goal hold,
\* though the planner skips sub-goals, too, and replans from where it skipped to.
THEOREM SubgoalsAreReached ==
  ASSUME MaxStuck = 0, Resolved = Nothing, StuckGoals = {}, Attainable
  PROVE  AuditSpec => []EverySubgoalReached
<1>1. AuditInit => GoalInv /\ ReachedInv
  <2> SUFFICES ASSUME AuditInit PROVE GoalInv /\ ReachedInv
    OBVIOUS
  <2>1. GoalInv /\ goal \in InitialGoals /\ pc = "planner" /\ subgoal = 1
    BY GoalInit DEF AuditInit, Init
  <2>2. reached = Holding(world, goal) /\ reached \subseteq DOMAIN goal.goals
    BY DEF AuditInit, Holding
  <2>3. 1 .. subgoal - 1 = {}
    BY <2>1
  <2> QED
    BY <2>1, <2>2, <2>3 DEF ReachedInv
<1>2. GoalInv /\ ReachedInv /\ [AuditNext]_auditVars => GoalInv' /\ ReachedInv'
  <2> SUFFICES ASSUME GoalInv, ReachedInv, [AuditNext]_auditVars
               PROVE  ReachedInv'
    BY AuditKeepsGoalInv
  <2>1. CASE AuditNext
    <3>1. Next /\ AuditStep
      BY <2>1 DEF AuditNext
    <3> QED
      BY <3>1, ReachedStep
  <2>2. CASE UNCHANGED auditVars
    <3>1. UNCHANGED <<goal, subgoal, pc, status, world, reached>>
      BY <2>2 DEF auditVars, vars
    <3>2. MoreSubgoals' = MoreSubgoals /\ Holding(world', goal') = Holding(world, goal)
      BY <3>1 DEF MoreSubgoals
    <3> QED
      BY <3>1, <3>2 DEF ReachedInv
  <2> QED
    BY <2>1, <2>2
<1>3. GoalInv /\ ReachedInv => EverySubgoalReached
  <2> SUFFICES ASSUME GoalInv, ReachedInv, pc = "end", status = "goal_achieved",
                      goal.mode = "sequential"
               PROVE  reached = DOMAIN goal.goals
    BY DEF EverySubgoalReached
  <2>1. ActiveHolds /\ ~MoreSubgoals /\ goal \in Goals /\ subgoal \in Nat \ {0}
    BY DEF GoalInv, TypeOK, AchievedMeansSatisfied, ReachedInv
  <2>2. /\ Len(goal.goals) \in Nat /\ DOMAIN goal.goals = 1 .. Len(goal.goals)
        /\ subgoal = Len(goal.goals)
    BY <2>1 DEF Goals, GoalInv, InRange, MoreSubgoals
  <2>3. subgoal \in Holding(world, goal)
    BY <2>1, <2>2 DEF Holding, ActiveHolds, Active
  <2>4. reached \subseteq DOMAIN goal.goals /\ subgoal \in reached /\ 1 .. subgoal - 1 \subseteq reached
    BY <2>3 DEF ReachedInv
  <2>5. 1 .. Len(goal.goals) = (1 .. subgoal - 1) \cup {subgoal}
    BY <2>1, <2>2
  <2> QED
    BY <2>2, <2>4, <2>5
<1> QED
  BY <1>1, <1>2, <1>3, PTL DEF AuditSpec

\* A round that replans for a sub-goal that does not hold stays with it.
LEMMA ReplanStays ==
  ASSUME MaxStuck = 0, Resolved = Nothing, Attainable, SensorsAchieveNothing,
         goal \in InitialGoals, goal.mode = "sequential", GoalInv, PlanRound, ~ActiveHolds
  PROVE  subgoal' = subgoal
<1>1. PICK reading \in SensorReadings :
        \E r \in CoreOutcomes(Apply(world, reading), goal) :
          /\ Apply(world, reading) \in World
          /\ Return(r, Apply(world, reading), goal)
  BY LoneRound
<1> DEFINE w == Apply(world, reading)
<1>2. PICK r \in CoreOutcomes(w, goal) : w \in World /\ Return(r, w, goal)
  BY <1>1
<1>3. /\ subgoal \in Nat \ {0} /\ world \in World /\ DOMAIN goal.goals = 1 .. Len(goal.goals)
      /\ subgoal <= Len(goal.goals) /\ Len(goal.goals) \in Nat
  BY DEF GoalInv, TypeOK, InRange, Goals
<1>4. ~Satisfies(w, goal.goals[subgoal].conditions)
  BY <1>3 DEF SensorsAchieveNothing, ActiveHolds, Active
<1> HIDE DEF w
<1>5. subgoal' = r.subgoal
  BY <1>2 DEF Return, MoveIndex
<1>6. /\ r.subgoal \in subgoal .. Len(goal.goals)
      /\ \A j \in subgoal .. r.subgoal - 1 : Satisfies(w, goal.goals[j].conditions)
  BY <1>2, SkipsWhatHolds DEF GoalInv
<1> QED
  BY <1>3, <1>4, <1>5, <1>6

LEMMA BudgetStep ==
  ASSUME MaxStuck = 0, Resolved = Nothing, Attainable, SensorsAchieveNothing,
         GoalInv, BudgetInv, AuditStep, Next
  PROVE  BudgetInv'
<1>1. /\ subgoal \in Nat \ {0} /\ replanCount \in Nat
      /\ ownReplans' = IF subgoal' # subgoal THEN 0
                       ELSE IF replanCount' > replanCount THEN ownReplans + 1
                       ELSE ownReplans
  BY DEF GoalInv, TypeOK, AuditStep
<1>2. CASE Executor
  <2>1. plan' = plan /\ (plan = NoPlan /\ status = "no_plan" => status' = status)
    BY <1>2 DEF Executor, SkipExecution, NothingToExecute, AskHuman, GuardBlocks, HumanDenies,
       ActionRaises, ValidatorRejects, ActionSucceeds, Fail, Ready, Performing, NothingToDo,
       GoalInv, TypeOK, HasActionLeft
  <2> QED
    BY <1>1, <1>2, <2>1, ExecutorStep DEF BudgetInv, SubgoalOwnBudget
<1>3. CASE Planner
  <2>1. goal' = goal /\ pc' \in {"executor", "raised"} /\ pc = "planner"
    BY <1>3 DEF Planner, PlanWithoutGoal, PlanRaises, PlanRound, Raise, Return
  <2>2. pc' = "executor" /\ plan' = NoPlan /\ goal.mode # "none" => status' = "no_plan"
    BY <1>3, <2>1 DEF Planner, PlanWithoutGoal, PlanRaises, PlanRound, Raise, Return
  <2>3. CASE ~PlanRound
    <3>1. goal.mode = "none" \/ Raise
      BY <1>3, <2>3 DEF Planner, PlanWithoutGoal, PlanRaises
    <3> QED
      BY <1>1, <2>1, <3>1 DEF BudgetInv, SubgoalOwnBudget, Raise
  <2>4. CASE PlanRound /\ goal.mode = "sequential"
    <3>1. \E r : CountRound(r)
      BY <2>4 DEF PlanRound, Return
    <3>2. CASE plan = NoPlan
      <4>1. replanCount' = 0 /\ replanCount = 0
        BY <2>1, <2>4, <3>1, <3>2 DEF BudgetInv, CountRound
      <4> QED
        BY <1>1, <2>1, <2>4, <2>2, <4>1 DEF BudgetInv, SubgoalOwnBudget
    <3>3. CASE plan # NoPlan
      <4>1. replanCount' = replanCount + 1
        BY <3>1, <3>3 DEF CountRound
      <4>2. subgoal' = subgoal
        BY <2>1, <2>4, <3>3, ReplanStays DEF BudgetInv
      <4> QED
        BY <1>1, <2>1, <2>4, <2>2, <4>1, <4>2 DEF BudgetInv, SubgoalOwnBudget
    <3> QED
      BY <3>2, <3>3
  <2>5. CASE goal.mode # "sequential"
    BY <2>1, <2>5 DEF BudgetInv, SubgoalOwnBudget
  <2> QED
    BY <2>3, <2>4, <2>5
<1>4. CASE SubgoalAchieved
  <2>1. /\ goal' = goal /\ subgoal' = subgoal + 1 /\ pc' = "planner" /\ replanCount' = 0
        /\ plan' = NoPlan
    BY <1>4 DEF SubgoalAchieved
  <2>2. subgoal' # subgoal /\ ownReplans' = 0
    BY <1>1, <2>1
  <2> QED
    BY <2>1, <2>2 DEF BudgetInv, SubgoalOwnBudget
<1>5. CASE Observer /\ ~SubgoalAchieved
  <2>1. UNCHANGED <<world, goal, subgoal, replanCount, plan>>
    BY <1>5 DEF Observer, PolicyTerminates, GoalMissing, GoalAchieved, GiveUpReplanning,
       NoPlanFound, AbandonAfterFailure, ReplanAfterFailure, ReplanEveryAction,
       ReplanOnDeviation, ContinuePlan, PlanExhausted, AbandonExhausted, Finish, GoTo
  <2>2. pc' \in {"planner", "executor", "end"}
    BY <1>5 DEF Observer, PolicyTerminates, GoalMissing, GoalAchieved, GiveUpReplanning,
       NoPlanFound, AbandonAfterFailure, ReplanAfterFailure, ReplanEveryAction,
       ReplanOnDeviation, ContinuePlan, PlanExhausted, AbandonExhausted, Finish, GoTo
  <2>3. Active' = Active /\ ActiveHolds' = ActiveHolds /\ ownReplans' = ownReplans
    BY <1>1, <2>1, ChannelsKept
  <2>4. pc' = "planner" => ~ActiveHolds
    BY <1>5 DEF Observer, PolicyTerminates, GoalMissing, GoalAchieved, GiveUpReplanning,
       NoPlanFound, AbandonAfterFailure, ReplanAfterFailure, ReplanEveryAction,
       ReplanOnDeviation, ContinuePlan, PlanExhausted, AbandonExhausted, Finish, GoTo,
       OnPlan, Advancing, Undecided, Pursuing
  <2>5. pc' = "end" /\ status' = "failed" /\ Active.strategy # "never" => OutOfReplans
    BY <1>5 DEF Observer, PolicyTerminates, GoalMissing, GoalAchieved, GiveUpReplanning,
       NoPlanFound, AbandonAfterFailure, ReplanAfterFailure, ReplanEveryAction,
       ReplanOnDeviation, ContinuePlan, PlanExhausted, AbandonExhausted, Finish, GoTo
  <2>6. pc' \in {"planner", "executor"} => status # "no_plan" /\ pc = "observer"
    BY <1>5 DEF Observer, PolicyTerminates, GoalMissing, GoalAchieved, GiveUpReplanning,
       NoPlanFound, AbandonAfterFailure, ReplanAfterFailure, ReplanEveryAction,
       ReplanOnDeviation, ContinuePlan, PlanExhausted, AbandonExhausted, Finish, GoTo,
       OnPlan, Advancing, Undecided, Pursuing, Observing
  <2>8. SubgoalOwnBudget'
    <3> SUFFICES ASSUME pc' = "end", status' = "failed", goal.mode = "sequential",
                        Active.strategy # "never"
                 PROVE  ownReplans >= Active.max_replans
      BY <2>1, <2>3 DEF SubgoalOwnBudget
    <3>1. replanCount >= Active.max_replans /\ replanCount <= ownReplans
      BY <2>5 DEF OutOfReplans, BudgetInv
    <3>2. Active.max_replans \in Nat
      <4>1. goal \in Goals /\ subgoal \in 1 .. Len(goal.goals)
        BY <1>1 DEF GoalInv, TypeOK, InRange, Goals
      <4>2. goal.goals \in Seq(GoalSpec) /\ goal.goals[subgoal] \in GoalSpec
        BY <4>1 DEF Goals
      <4> QED
        BY <4>2 DEF Active, GoalSpec
    <3> QED
      BY <1>1, <3>1, <3>2 DEF BudgetInv
  <2> QED
    BY <1>1, <2>1, <2>2, <2>3, <2>4, <2>6, <2>8 DEF BudgetInv
<1>6. CASE Finished
  BY <1>1, <1>6, ChannelsKept DEF Finished, vars, BudgetInv, SubgoalOwnBudget
<1>7. ~Handlers
  BY DEF Handlers, HandlersGiveUp, HandlerRaisesIndex, HandlerReplans, BudgetInv
<1> QED
  BY <1>2, <1>3, <1>4, <1>5, <1>6, <1>7 DEF Next

\* Under the same hypotheses, and where sensors achieve no sub-goal by themselves: a
\* sequential run fails only once its current sub-goal has used up its own budget.
THEOREM SubgoalsHaveOwnBudget ==
  ASSUME MaxStuck = 0, Resolved = Nothing, StuckGoals = {}, Attainable, SensorsAchieveNothing
  PROVE  AuditSpec => []SubgoalOwnBudget
<1>1. AuditInit => GoalInv /\ BudgetInv
  <2> SUFFICES ASSUME AuditInit PROVE GoalInv /\ BudgetInv
    OBVIOUS
  <2>1. /\ GoalInv /\ goal \in InitialGoals /\ pc = "planner" /\ plan = NoPlan
        /\ replanCount = 0 /\ ownReplans = 0
    BY GoalInit DEF AuditInit, Init
  <2> QED
    BY <2>1 DEF BudgetInv, SubgoalOwnBudget
<1>2. GoalInv /\ BudgetInv /\ [AuditNext]_auditVars => GoalInv' /\ BudgetInv'
  <2> SUFFICES ASSUME GoalInv, BudgetInv, [AuditNext]_auditVars
               PROVE  BudgetInv'
    BY AuditKeepsGoalInv
  <2>1. CASE AuditNext
    <3>1. Next /\ AuditStep
      BY <2>1 DEF AuditNext
    <3> QED
      BY <3>1, BudgetStep
  <2>2. CASE UNCHANGED auditVars
    <3>1. UNCHANGED <<goal, subgoal, pc, status, world, plan, replanCount, ownReplans>>
      BY <2>2 DEF auditVars, vars
    <3>2. Active' = Active /\ ActiveHolds' = ActiveHolds
      BY <3>1 DEF Active, ActiveHolds
    <3> QED
      BY <3>1, <3>2 DEF BudgetInv, SubgoalOwnBudget
  <2> QED
    BY <2>1, <2>2
<1>3. BudgetInv => SubgoalOwnBudget
  BY DEF BudgetInv
<1> QED
  BY <1>1, <1>2, <1>3, PTL DEF AuditSpec

\* The planner only returns actions for a sub-goal that does not hold in the world
\* it planned from; what resolvers add to that world takes nothing from it.
LEMMA OutcomeIsOpen ==
  ASSUME NEW w, NEW g \in Goals, g.mode # "none", NEW r \in CoreOutcomes(w, g),
         r.plan # NoPlan, Len(r.plan.actions) > 0
  PROVE  ~Satisfies(w, ActiveOf(g, r.subgoal).conditions)
<1>1. ASSUME NEW i, NEW p \in SubgoalSearch(w, g, i), Len(p.actions) > 0
      PROVE  ~Satisfies(w, g.goals[i].conditions)
  BY <1>1 DEF SubgoalSearch, Search, EmptyPlan
<1>2. g.mode \in {"single", "sequential", "any"}
  BY DEF Goals, Modes
<1>3. CASE g.mode = "single"
  BY <1>1, <1>3 DEF CoreOutcomes, SingleOutcomes, ActiveOf
<1>4. CASE g.mode = "sequential"
  <2>1. \E i : \E p \in SubgoalSearch(w, g, i) : r = [plan |-> p, subgoal |-> i]
    BY <1>4 DEF CoreOutcomes, SequentialOutcomes
  <2> QED
    BY <1>1, <1>4, <2>1 DEF ActiveOf
<1>5. CASE g.mode = "any"
  <2>1. \E i : \E p \in SubgoalSearch(w, g, i) : r = [plan |-> p, subgoal |-> i]
    BY <1>5 DEF CoreOutcomes, AnyOutcomes
  <2> QED
    BY <1>1, <1>5, <2>1 DEF ActiveOf
<1> QED
  BY <1>2, <1>3, <1>4, <1>5

LEMMA ViewKeeps ==
  ASSUME NEW w, NEW c, Satisfies(w, c)
  PROVE  Satisfies(View(w), c)
BY DEF Satisfies, View, Mentioned

\* A failed action is neither blacklisted nor out of retries when it is begun.
LEMMA CurrentHasRetries ==
  ASSUME GoalInv, PlanIsClean, pc = "executor", HasActionLeft
  PROVE  Current \in Actions /\ failures[Current] <= MaxRetries[Current]
<1>1. /\ plan \in Plan /\ step + 1 \in 1 .. Len(plan.actions) /\ plan # NoPlan
      /\ MaxRetries \in [Actions -> Nat] /\ failures \in [Actions -> Nat]
  BY LoopAssumption DEF GoalInv, TypeOK, HasActionLeft, Plan
<1>2. Current \in ActionsOf(plan) /\ Current \in Actions
  BY <1>1 DEF ActionsOf, Current, Plan
<1>3. Current \notin blacklist
  BY <1>1, <1>2 DEF PlanIsClean
<1>4. MaxRetries[Current] \in Nat /\ failures[Current] \in Nat
  BY <1>1, <1>2
<1> QED
  BY <1>2, <1>3, <1>4 DEF GoalInv, Counted

LEMMA RetriesAfterPlanner ==
  ASSUME MaxStuck = 0, GoalInv, RetriesInv, AuditStep, Planner
  PROVE  RetriesInv'
<1>1. /\ goal' = goal /\ goal \in Goals /\ pc = "planner" /\ pc' \in {"executor", "raised"}
      /\ realFailures = failures
  BY DEF Planner, PlanWithoutGoal, PlanRaises, PlanRound, Raise, Return, GoalInv, TypeOK,
     RetriesInv
<1>2. failures' \in {failures, NoFailures}
  BY DEF Planner, PlanWithoutGoal, PlanRaises, PlanRound, Raise, Return, ForgetIfReused
<1>3. realFailures' = failures' /\ realFailures' \in {realFailures, NoFailures}
  BY <1>1, <1>2 DEF AuditStep, FailsNow
<1>4. pc' = "executor" => status' # "action_failed"
  BY <1>1 DEF Planner, PlanWithoutGoal, PlanRaises, PlanRound, Raise, Return
<1>5. RetriesAreHonoured'
  <2>1. \A a \in Actions : MaxRetries[a] \in Nat /\ NoFailures[a] = 0
    BY LoopAssumption DEF NoFailures
  <2>2. realFailures' = realFailures \/ realFailures' = NoFailures
    BY <1>3
  <2>3. CASE realFailures' = realFailures
    BY <2>3 DEF RetriesInv, RetriesAreHonoured
  <2>4. CASE realFailures' = NoFailures
    <3>1. \A a \in Actions : realFailures'[a] <= MaxRetries[a] + 1
      BY <2>1, <2>4
    <3> QED
      BY <3>1 DEF RetriesAreHonoured
  <2> QED
    BY <2>2, <2>3, <2>4
<1>6. ASSUME pc' = "executor", ~NothingToDo', HasActionLeft'
      PROVE  goal'.mode # "none" /\ ~ActiveHolds'
  <2>1. PlanRound
    BY <1>1, <1>6 DEF Planner, PlanWithoutGoal, PlanRaises, Raise, HasActionLeft
  <2>2. PICK reading \in SensorReadings :
          \E r \in CoreOutcomes(View(Apply(world, reading)), goal) :
            Return(r, Apply(world, reading), goal)
    BY <2>1 DEF PlanRound
  <2> DEFINE w == Apply(world, reading)
  <2>3. PICK r \in CoreOutcomes(View(w), goal) : Return(r, w, goal)
    BY <2>2
  <2> HIDE DEF w
  <2>4. /\ world' = w /\ plan' = r.plan /\ subgoal' = r.subgoal /\ step' = 0
        /\ goal.mode # "none"
    BY <2>1, <2>3 DEF Return, MoveIndex, PlanRound
  <2>5. r.plan # NoPlan /\ Len(r.plan.actions) > 0
    BY <1>6, <2>4 DEF HasActionLeft
  <2>6. ~Satisfies(View(w), ActiveOf(goal, r.subgoal).conditions)
    BY <1>1, <2>3, <2>4, <2>5, OutcomeIsOpen
  <2>7. ~Satisfies(w, ActiveOf(goal, r.subgoal).conditions)
    BY <2>6, ViewKeeps
  <2>8. Active' = ActiveOf(goal, r.subgoal)
    BY <1>1, <2>4 DEF Active, ActiveOf
  <2> QED
    BY <1>1, <2>4, <2>7, <2>8 DEF ActiveHolds
<1> QED
  BY <1>1, <1>3, <1>4, <1>5, <1>6 DEF RetriesInv

LEMMA RetriesAfterExecutor ==
  ASSUME Guarded = {}, NeedsApproval = {}, GoalInv, PlanIsClean, RetriesInv, AuditStep,
         Executor
  PROVE  RetriesInv'
<1>1. pc = "executor" /\ realFailures = failures /\ status # "action_failed"
  BY ExecutorStep DEF RetriesInv
<1>2. /\ UNCHANGED <<goal, subgoal, failures>> /\ pc' = "observer"
      /\ failures \in [Actions -> Nat] /\ MaxRetries \in [Actions -> Nat]
  BY LoopAssumption, <1>1 DEF Executor, SkipExecution, NothingToExecute, AskHuman, GuardBlocks,
     HumanDenies, ActionRaises, ValidatorRejects, ActionSucceeds, Fail, GoalInv, TypeOK
<1>3. CASE status' = "action_failed"
  <2>1. Fail /\ Ready
    BY <1>1, <1>3 DEF Executor, SkipExecution, NothingToExecute, AskHuman, GuardBlocks,
       HumanDenies, ActionRaises, ValidatorRejects, ActionSucceeds, Performing
  <2>2. /\ HasActionLeft /\ ~NothingToDo /\ lastFailed' = Current /\ UNCHANGED world
    BY <2>1 DEF Fail, Ready
  <2>3. Current \in Actions /\ failures[Current] <= MaxRetries[Current]
    BY <1>1, <2>2, CurrentHasRetries
  <2>4. realFailures' = [failures EXCEPT ![Current] = @ + 1]
    BY <1>1, <1>3 DEF AuditStep, FailsNow
  <2>5. goal.mode # "none" /\ ~ActiveHolds
    BY <1>1, <2>2 DEF RetriesInv
  <2>6. ~ActiveHolds' /\ goal'.mode # "none"
    BY <1>2, <2>2, <2>5 DEF ActiveHolds, Active
  <2>7. realFailures' = [failures' EXCEPT ![lastFailed'] = @ + 1]
    BY <1>2, <2>2, <2>4
  <2>8. \A a \in Actions : realFailures'[a] <= MaxRetries[a] + 1
    BY <1>1, <1>2, <2>3, <2>4 DEF RetriesInv, RetriesAreHonoured
  <2> QED
    BY <1>2, <1>3, <2>6, <2>7, <2>8 DEF RetriesInv, RetriesAreHonoured
<1>4. CASE status' # "action_failed"
  <2>1. realFailures' = failures'
    BY <1>1, <1>2, <1>4 DEF AuditStep, FailsNow
  <2> QED
    BY <1>1, <1>2, <1>4, <2>1 DEF RetriesInv, RetriesAreHonoured
<1> QED
  BY <1>3, <1>4

LEMMA RetriesAfterObserver ==
  ASSUME GoalInv, RetriesInv, AuditStep, Observer
  PROVE  RetriesInv'
<1>1. pc = "observer"
  BY ObserverStep
<1>2. failures \in [Actions -> Nat] /\ MaxRetries \in [Actions -> Nat]
  BY LoopAssumption DEF GoalInv, TypeOK
<1>3. \A a \in Actions : MaxRetries[a] \in Nat /\ NoFailures[a] = 0
  BY <1>2 DEF NoFailures
<1>4. CASE ReplanAfterFailure
  <2>1. /\ failures' = [failures EXCEPT ![lastFailed] = @ + 1] /\ status = "action_failed"
        /\ pc' = "planner" /\ lastFailed \in Actions
    BY <1>4 DEF ReplanAfterFailure, GoalInv, TypeOK
  <2>2. failures'[lastFailed] # 0
    BY <1>2, <2>1
  <2>3. failures' # NoFailures
    BY <1>3, <2>1, <2>2 DEF NoFailures
  <2>4. realFailures' = realFailures /\ realFailures' = failures'
    BY <1>1, <2>1, <2>3 DEF AuditStep, FailsNow, RetriesInv
  <2> QED
    BY <2>1, <2>4 DEF RetriesInv, RetriesAreHonoured
<1>5. CASE SubgoalAchieved
  <2>1. ActiveHolds /\ pc' = "planner" /\ failures' = NoFailures
    BY <1>5 DEF SubgoalAchieved
  <2>2. realFailures = failures
    BY <1>1, <2>1 DEF RetriesInv
  <2>3. realFailures' = NoFailures
    BY <1>1, <2>1, <2>2 DEF AuditStep, FailsNow
  <2>4. \A a \in Actions : realFailures'[a] <= MaxRetries[a] + 1
    BY <1>3, <2>3
  <2> QED
    BY <2>1, <2>3, <2>4 DEF RetriesInv, RetriesAreHonoured
<1>6. CASE Observer /\ ~ReplanAfterFailure /\ ~SubgoalAchieved
  <2>1. UNCHANGED <<world, goal, subgoal, plan, step, failures>>
    BY <1>6 DEF Observer, PolicyTerminates, GoalMissing, GoalAchieved, GiveUpReplanning,
       NoPlanFound, AbandonAfterFailure, ReplanEveryAction, ReplanOnDeviation, ContinuePlan,
       PlanExhausted, AbandonExhausted, Finish, GoTo
  <2>2. realFailures' = realFailures
    BY <1>1, <2>1 DEF AuditStep, FailsNow
  <2>3. \/ pc' = "end"
        \/ /\ pc' \in {"planner", "executor"} /\ status' = status
           /\ status # "action_failed" /\ goal.mode # "none" /\ ~ActiveHolds
    BY <1>6 DEF Observer, PolicyTerminates, GoalMissing, GoalAchieved, GiveUpReplanning,
       NoPlanFound, AbandonAfterFailure, ReplanEveryAction, ReplanOnDeviation, ContinuePlan,
       PlanExhausted, AbandonExhausted, Finish, GoTo, OnPlan, Advancing, Undecided, Pursuing,
       Observing
  <2>4. ActiveHolds' = ActiveHolds
    BY <2>1 DEF ActiveHolds, Active
  <2> QED
    BY <1>1, <2>1, <2>2, <2>3, <2>4 DEF RetriesInv, RetriesAreHonoured
<1> QED
  BY <1>4, <1>5, <1>6

\* An action is tried max_retries + 1 times and no more until its failures are
\* forgotten on purpose, where nothing pins the counts (no guard blocks, no human
\* denies) and no handler is asked: the blacklist is the only thing in its way.
THEOREM RetriesHonoured ==
  ASSUME Guarded = {}, NeedsApproval = {}, MaxStuck = 0, StuckGoals = {}
  PROVE  AuditSpec => []RetriesAreHonoured
<1> DEFINE IInv == GoalInv /\ PlanIsClean /\ RetriesInv
<1>1. AuditInit => IInv
  <2> SUFFICES ASSUME AuditInit PROVE IInv
    OBVIOUS
  <2>1. GoalInv /\ pc = "planner" /\ realFailures = failures /\ failures = NoFailures
    BY GoalInit DEF AuditInit, Init
  <2>2. \A a \in Actions : realFailures[a] <= MaxRetries[a] + 1
    BY <2>1, LoopAssumption DEF NoFailures
  <2> QED
    BY <2>1, <2>2 DEF RetriesInv, RetriesAreHonoured, PlanIsClean
<1>2. IInv /\ [AuditNext]_auditVars => IInv'
  <2> SUFFICES ASSUME IInv, [AuditNext]_auditVars PROVE PlanIsClean' /\ RetriesInv'
    BY AuditKeepsGoalInv
  <2>1. CASE AuditNext
    <3>1. Next /\ AuditStep
      BY <2>1 DEF AuditNext
    <3>2. ~Handlers
      BY DEF Handlers, HandlersGiveUp, HandlerRaisesIndex, HandlerReplans, RetriesInv
    <3>3. CASE Finished
      <4>1. UNCHANGED vars /\ realFailures' = realFailures
        BY <3>1, <3>3 DEF Finished, vars, AuditStep, FailsNow
      <4> QED
        BY <3>1, <3>3, <4>1, CleanStep DEF Finished, vars, RetriesInv, RetriesAreHonoured
    <3> QED
      BY <3>1, <3>2, <3>3, CleanStep, RetriesAfterPlanner, RetriesAfterExecutor,
         RetriesAfterObserver DEF Next
  <2>2. CASE UNCHANGED auditVars
    <3>1. UNCHANGED <<vars, realFailures>>
      BY <2>2 DEF auditVars
    <3>2. UNCHANGED <<goal, subgoal, pc, status, world, plan, step, failures, blacklist,
                      lastFailed, realFailures>>
      BY <3>1 DEF vars
    <3>3. /\ ActiveHolds' = ActiveHolds /\ HasActionLeft' = HasActionLeft
          /\ NothingToDo' = NothingToDo
      BY <3>2 DEF Active, ActiveHolds, HasActionLeft, NothingToDo
    <3> QED
      BY <3>2, <3>3 DEF RetriesInv, RetriesAreHonoured, PlanIsClean, ActionsOf
  <2> QED
    BY <2>1, <2>2
<1>3. IInv => RetriesAreHonoured
  BY DEF RetriesInv
<1> QED
  BY <1>1, <1>2, <1>3, PTL DEF AuditSpec
=============================================================================
